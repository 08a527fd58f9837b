# Verification of faktura-pdf

faktura-pdf is a web program in Go for small Swedish companies: it keeps offers
and invoices in PostgreSQL, prints them, and files ROT/RUT requests (the part of
a bill that the tax agency pays) for the work on them.  This directory holds TLA+
models of the part of it that keeps state, the TLC runs that check them on small
instances, and proofs, checked by TLAPS, of what holds on every instance.

Source paths below are relative to `src/`.

## 1. Inventory

| Component | State | Operations | Correct when |
|---|---|---|---|
| **Invoices and offers**: `models/invoice.go`, `views/invoice/flag.go`, `view.go` | tables `invoice` (offers are rows with `is_offer`), `invoice_row` | post a new or an old document with its rows; flags invoiced, paid, offered, accepted, rejected, deleted; make an invoice of an accepted offer | a document appears with all its rows or not at all; an invoice comes of an offer that was accepted; a flag comes with its date; sent rows stay; deleted stays deleted |
| **ROT/RUT requests**: `models/rut.go`, `views/rut/flag.go`, `rut.go` | table `rut_requests`, `rot_rut_hours` of the rows | made by the payment of an invoice; sum and hours; flags sent, paid, rejected | one request per invoice and type, none forgotten, none without a payment; what was sent stays |
| **Customers**: `models/customer.go` | table `customer` | created, selected and changed through the page of an invoice | an invoice names a customer of its own company |
| **Attachments**: `models/file.go`, `views/invoice/attachment.go` | tables `file`, `invoice_attachments` | upload, remove | no orphan file, no dangling link |
| **Numbering**: `models/company.go:80-95` | `invoice.number`, `company.invoice_number` | next number of a company | numbers follow each other in a company, no number twice |
| **Transaction middleware**: `models/transaction.go` | one transaction per HTTP request, in the request's context; the status code | begin, commit, roll back | nothing of a failed request is kept; every request ends |
| **Request pipeline**: `views/builder.go`, `views/view.go`, `views.go` | one clone of the view per request, the session | routing, session lookup, errors to status 500 | an error rolls back |
| **Accounts**: `models/user.go`, `session.go`, `company.go`, `views/login`, `register`, `company` | tables `user`, `session`, `company`, `company_user` | register, log in and out, create, edit and select a company | a session starts for a password only; only members act for a company; a company is entered with its first member |
| **Totals**: `models/invoice.go:199-315`, `static/js/invoice.js:122-185` | none | decimal sums of a row and of a document, in Go and again in the page | VAT and rebate are those of the labels; all places agree on one amount |
| **Print and QR code**: `views/invoice/pdf.go`, `qr.go` | temporary files | fills a LaTeX template | one amount to pay |
| **SIE export**: `views/invoice/sie.go`, `sie/` | none | vouchers of a sale and of its payment | vouchers balance |
| **ROT/RUT export**: `views/rut/export.go`, `views/rut/rut.go:24-73`, `rotrut/` | none | the page of a request, one XML file for it | what it reads is there; an offered file is made; its sums add up |
| **Process**: `main.go`, `models/models.go` | the pool `dbpool`, the listener, the context of main | start, Ctrl+C, failing listener, shutdown | nobody is cut off in a transaction; the process ends |
| **Lists, templates, configuration, `sqlx/` (fork of a library)** | none that lasts | formatting, configuration, named queries | |

How they interact: every handler runs inside the middleware's transaction and
reaches the tables only through `models/`, so the components share no memory,
only rows.  `flag.go` calls into the ROT/RUT component when an invoice is paid,
and into the numbering when an offer is converted; the ROT/RUT component reads
the invoice and writes its rows.  The exports read what these have stored, each
with its own loop over the rows.  Main gives the middleware its pool of
connections and takes it away again while requests may still be running.

What is hard about it:

* **Concurrency.** The transactions are READ COMMITTED (the default that
  `Beginx` leaves in place).  A handler reads a record in one statement, changes
  a copy in Go, and writes all columns of the copy in a later one; no statement
  says `FOR UPDATE`.  Whatever another request commits in between is seen by
  some statements of the handler and not by others.
* **Ordering.** Search-then-insert of ROT/RUT requests has no UNIQUE constraint
  behind it.  It is right only because the handler has just written, and so
  locked, the invoice.
* **Partial failure.** A handler is up to dozens of statements long; each can
  fail, and so can the COMMIT, which is only logged.
* **Waiting.** Rows are written in the order of a Go map.  Requests can wait for
  each other in a cycle.  Each holds a connection of a bounded pool meanwhile.
* **The end of the process.** Nothing stops the listener, so requests arrive
  until the very end, and find a pool that is closed or gone.
* **Clients that stall.** The server has no timeouts (`main.go:138-142`), and a
  handler reads its form and writes its answer inside the transaction.  A client that
  stops sending and stays connected holds a connection as long as it likes.
* **Several computations of one amount.** Print, QR code, page, vouchers and
  the file for the tax agency sum the rows separately, with divisions that round.
* **Long histories.** Flags can be set, revoked and set again in any order; the
  handlers do not look at the state that a flag starts from.

`PROJECT.json` lists these hazards one by one, at their lines, with the
properties that cover each.

## 2. Modules

| Module | Content |
|---|---|
| `RowVersions` | A PostgreSQL table: committed value, lock holder and uncommitted value of each row.  External: it stands for the database server. |
| `Entities` | Records of the tables, forms of the pages, statements of the handlers. |
| `InvoiceViews` | `views/invoice`: what the handlers compute from the form and from what they read, and which statements follow. |
| `RutViews` | `views/rut`, and the row updates of `RUTSave`. |
| `Faktura` | The state machine: requests that run their statements over the tables, one statement per step, and the middleware around them. |
| `Register` | The abstract specification of the books: numbered documents and the requests made for them, changed one at a time. |
| `FakturaProperties` | The properties. |
| `Overtaken` | More properties of `Faktura`, about copies that were read before another request's commit, on a history variable that remembers these commits. |
| `MCFaktura`, `MCOvertaken` | The forms that the runs let arrive. |
| `Accounts` | The state machine of users, sessions, companies and memberships, and the handlers of login, registration and companies. |
| `Access` | The abstract specification of the accounts: who exists, who belongs to what, what each session acts for. |
| `AccountsProperties`, `MCAccounts` | Its properties and the forms of its runs. |
| `Totals` | The amounts of a row and of a document, `models/invoice.go`, and those of the page, `static/js/invoice.js`. |
| `Exports` | What is computed from them: print and QR code, SIE vouchers, the page and the file of a ROT/RUT request. |
| `Documents` | The state machine of one invoice and its requests with amounts, handlers one after the other. |
| `DocumentsProperties`, `MCDocuments` | Its properties and the rows and identity numbers of its runs. |
| `Server` | The state machine of the process: main, the pool, and the way of a request through middleware and `Wrap`. |
| `ServerProperties`, `MCServer` | Its properties and its instance. |
| `FakturaTypes` | Lemmas: what each operator returns, and that each action keeps the types. |
| `FakturaProofs` | The inductive invariant of `Faktura`: types, and one request to the agency per type. |
| `InvoicesProofs` | More of `Faktura`: flags and their dates, customers and companies, files and attachments. |
| `CommitProofs` | What a commit of `Faktura` shows: nothing of a failure, requests with their payment and no type forgotten, invoices with their offer; `Faktura` implements `Register`; what only a request that was overtaken can do. |
| `ServerProofs` | The inductive invariant of `Server` and its four theorems. |
| `AccountsProofs` | The inductive invariants of `Accounts`: types, that sessions are earned, and that only members act for a company. |
| `AccessProofs` | `Accounts` implements `Access`. |
| `DocumentsProofs` | Types of `Documents`, dates of its requests, and the amounts: lemmas on rounding and on sums, and that print, page, vouchers and files agree. |

`Faktura` extends `RutViews`, which extends `InvoiceViews`, `Entities` and
`RowVersions`; `FakturaProperties` instantiates `Register` under the refinement
mapping, and `Overtaken` extends it.  `Accounts` stands beside it on `RowVersions`, and `AccountsProperties`
instantiates `Access`.  The two state machines share no table that both write:
`Faktura` reads the company of the session and the first number of a company,
which it takes as part of the form and as a constant.

`Documents` extends `Exports`, which extends `Totals`.  It has the handlers of
`Faktura` as single steps, and amounts where `Faktura` has model values: the two
split the question.  What can happen between the statements of two handlers is
checked in `Faktura`, which knows nothing of amounts; what the amounts of a
document say about each other depends on its contents only and is checked in
`Documents`.  `Server` is the third level: a handler is one step that ends well
or not, and what is around it is spelled out, the pool, the answer and the end
of the process, which `Faktura` and `Accounts` leave out.

### State and code

| Variable | Code |
|---|---|
| `customer`, `invoice`, `invoice_row`, `rut_requests`, `file`, `invoice_attachments` | the tables, each row a record `[val, by, new]`: the committed value, the request that has an uncommitted one, and that one.  `by` is also the row's lock. |
| `form[r]` | the HTTP request served by transaction `r`, with the company of its session; `NULL` when it is idle |
| `script[r]` | the statements the handler still has to run.  It is replaced where the code decides what to do next. |
| `status[r]` | `statusResponseWriter.statusCode` |
| `id[r]`, `inv[r]`, `rows[r]`, `rut[r]` | the handler's Go variables: `invoice.ID`, the `Invoice`, its `Rows`, the `RUT` |
| `user`, `session`, `company`, `company_user` (`Accounts`) | the tables; a session's id is its cookie, a membership is the pair of a user and a company |
| `me[r]` (`Accounts`) | `v.Session`, with its user and company |
| `who[r]`, `co[r]` (`Accounts`) | the handler's `user` and `company` |
| `invoice`, `rut` (`Documents`) | the rows of one invoice, its flags, whether it has a payment date, its customer's identity number; its RUT and its ROT request with status and requested sum |
| `main`, `interrupted`, `listening` (`Server`) | where `main` is, whether its context is cancelled, whether `ListenAndServe` accepts |
| `pc[r]`, `conn[r]`, `tx[r]` (`Server`) | where a request is between middleware and answer, its pooled connection, the fate of its transaction |
| `sent[r]`, `statusCode[r]` (`Server`) | the status that `net/http` sent first, and the one that `statusResponseWriter` kept last: they differ when a handler fails after it has begun its answer |
| `failed[r]`, `gone[r]` (`Server`) | whether the handler returned an error or panicked; whether the client has left, so that `r.Context()` is done |
| `stalled[r]` (`Server`) | whether the handler, or `net/http` at the end of the answer, waits for a client that neither sends, reads nor leaves |
| `overtaken[r]` (`Overtaken`) | no variable of the program: the invoices, rows and ROT/RUT requests that other requests have committed a change of since request `r` began |

An action is one SQL statement together with the Go code up to the next one,
which no other request can observe.  `InvoiceList` and `InvoiceRows` are the two
queries of `InvoiceGet`, with a gap between them; `InvoiceRows` ends the reading
part of every handler, so the handler's decisions are there (`Flagged`,
`Posted`, `RutFlagged`, `RutPosted` and the scripts).  `Begin` and
`CommitOrRollback` are the middleware.  `CommitFails` and `StatementFails` are
outside failures and are on where a cfg says `Faults = TRUE`; errors the code
makes itself (an invalid flag, a foreign key, a taken number) are always on.

In `Accounts`, `Begin` is also the lookup of the session by its cookie, which is
the first thing in every transaction and only reads, and the redirect to the
login of a request without one.  `UserGet` (`models/user.go:154-194`) collects
its filters but never puts them into its query, so it returns the last row of
the table in whatever order the server reads it: `UserRows` is all users, and
who is found, at a login or for a session, is any of them.  Only the empty name
finds nobody, for then there is no query.

The form of a request is complete when `Faktura` begins it: what a client can do
by not sending it is the matter of `Server`.

A statement that finds its row locked by another request is not enabled
(`Runs`); when it runs, after the lock is gone, it works on the row as it is
then, as PostgreSQL does under READ COMMITTED.  `DeadlockDetected` gives any
member of a cycle of waiting requests an error.

Abstractions: a text stands for all free-form columns of a record, a date is
only set or not set, amounts are model values.  A form that the code refuses
before its first write (a date or a number that does not parse) changes nothing
and is left out; a row of a form that does not parse fails in the middle of
`updateRows` and is one of the outcomes of `StatementFails`.  An id drawn by a
rolled-back INSERT is free again in the model, a SERIAL in PostgreSQL skips it;
nobody but the failed transaction has seen it.  `position` of a row is not
stored; a row whose position changes is written back as it was read, and that
is what matters.  Foreign keys take shared locks on the referenced row, which do
not conflict with the updates the program makes (none changes a key), so they
are left out.

Amounts, where they are modelled, are integers.  `cost` and `count` are
`numeric(10,2)`, so a price is in ore and a count in hundredths; a price per
piece is counted in units of which `10 * Tenth` make an ore, and only division
rounds.  In the code `decimal.Div` keeps 16 digits, which is `Tenth = 10^13`;
TLC's integers have 32 bits, so the runs have `Tenth = 1`.  Nothing in the properties
depends on it: what division may cost is stated in units (`Rounding`).  The
rates 0.7, 0.5 and 0.3 of the code are exact in `decimal`.

What is printed and written to the SIE file is rounded half to even by
`StringFixedBank(2)` (`Written`); the QR code gets the amount with all its digits
(`pdf.go:116`, `qr.go:22`).  The page computes with doubles and rounds with
`toFixed(2)`.  A double is not modelled by its bits: `DoubleError` bounds, from the
number of operations and the size of the amounts, how far a sum of doubles can be
from the decimal one, and `PageTotals` is the set of all that `toFixed` may make of
a number within that error.  So 10.05 x 1.5 = 15.075 is printed as 15.08, coded as
15.075, and shown as 15.07 or 15.08: the model does not say which, and no property
needs it.  `Mantissa`, up to where a double has all
integers, is 2^53 in the code and 10^6 in the run, where it makes doubles worse than
they are.  The page hides a sum that is not positive; the model has the number
that would be shown.

An identity number is free text.  `PNR` keeps what the export looks at: whether
there is a dash before the last four digits, whether there is a century, and whether
the text begins with digits at all (`prefix`): the pattern at `export.go:28` has no
anchors and accepts `SE800101-1234`, whose first two characters `Atoi` refuses
(`export.go:54-57`, `NumberRefused`).

A row that the page sends has no hours: `InvoiceRowAdd` stores none and the page
has no field for them, so editing a row loses the hours of an earlier request.
`Documents` has it so.  A row is updated by its id alone
(`models/invoice.go:580-591`), so the form of one invoice may name the row of another:
in `Faktura` forms name any rows; in `Documents`, which has one invoice,
`PostElsewhere` is the post of another one.

In `Server` the database, `pgxpool` and `net/http` are external: `Acquire` waits for
a connection that is free and fails once `Close` was called, `Close` waits for
all of them, COMMIT of a transaction whose context is done rolls back, and an
answer without a status is 200.  That a handler cannot be interrupted by
`Close` is not assumed: `Close` only waits.

Ids of forms are any id, the numbers in the address can be typed; forms name
rows, files and requests of other documents too.

## 3. Runs

The cfg has the name of the run; `Accounts` and `Logins` are of `MCAccounts`,
`RutRequests` and `SentRows` of `MCOvertaken`,
`Documents`, `VATRates` and `IdentityNumbers` of `MCDocuments`, `Server` of
`MCServer`, the others of `MCFaktura`.  Ids, rows and requests are model values; symmetry is
used in the safety runs only.

| Run | Instance | Checks | States |
|---|---|---|---|
| `RutRequests` | 2 requests, 1 invoice, 1 row, 2 ROT/RUT ids | `TypeOK`, `OneRequestPerType`, `RequestedWhenPaid`, `PaymentDateKept`, `DeletedStays`, `SentRequestStays` | 404,253 |
| `Payments` | 2 requests, 1 invoice with a ROT and a RUT row, 1 customer, 2 ROT/RUT ids, faults, `FairSpec` | `AskInvariant`, `EveryRequestEnds`, `EveryTypeRequested`, `NothingKeptOfAFailure` | 133,204 |
| `Books` | 2 requests, 2 companies, 2 customers, 3 documents, 4 rows, 2 ROT/RUT ids | `ImplementsRegister`, `AppearsWhole`, `MadeFromAcceptedOffer` | 33,673 |
| `SentRows` | 2 requests, 2 invoices, 1 customer, 1 row, 1 ROT/RUT id | `SentRowsStay`, `FlagsHaveDates` | 566,730 |
| `OwnRecords` | 2 requests, 2 companies, 2 customers, 2 invoices, 1 file, faults | `OwnCustomers`, `FilesAttached` | 573,785 |
| `Accounts` | 2 requests, 2 users, 1 company, 2 sessions, faults | `TypeOK`, `SessionsEarned`, `OnlyMembersAct`, `ImplementsAccess` | 415,299 |
| `Documents` | 6 kinds of rows, at most 2 of them, 2 identity numbers or none, sums {0, 9}, hours {2} | `TypeOK`, `OneAmountToPay`, `VouchersBalance`, `PrintedAsShown`, `MaximumIsTheRebate`, `OfferedExportIsMade`, `FileAddsUp` | 160,525 |
| `Server` | 2 requests, 1 connection, faults | `TypeOK`, `FailedLeavesNothing`, `NobodyCutOff`, `ConnectionsOfTransactions`, `EveryRequestAnswered`, `InterruptEnds` | 27,968 |
| `RowsOfSentInvoice` | 2 requests | `SentRowsFrozen` is violated | |
| `Logins` | 2 requests | `LoggedInByName` is violated | |
| `VATRates` | 1 row at "6 %" | `VATAsLabelled` is violated | |
| `IdentityNumbers` | 1 row of RUT work, 3 identity numbers | `NumberConverted` is violated | |

Why the bounds are enough to show something: the hazards are between two
requests on one document, and the instances have two requests that can do all
their steps in any order, again and again: a run is not bounded in length, only
in how many rows, documents and ROT/RUT ids exist, and when those are used up an
INSERT fails.  `RutRequests` has twice the ROT/RUT ids that a
correct program can use, so that duplicates have room.  `Books` has room for an
offer and two conversions of it, or for documents of a second company whose first
number is 3, so that the companies run into each other's numbers.  `Payments`
has two rows, so that two walks over them can cross, and two types of work; one
post removes both rows, so that an invoice is also paid when it has no work left.
`SentRows` has two invoices and a row that the forms of both name, so that a row is
written through an invoice it does not belong to; only one of the two is sent and
paid, which keeps the instance small: the post of another invoice writes rows
while that one is open.
`Accounts` has two users, one of whom is not a member of the company, and a
session for each, or two for one.  What goes beyond these instances is proved for
every safety property but `AppearsWhole` and `SentRowsStay`
(section 5), and only checked here for the others.

The rows of `Documents` are one of each kind that the amounts tell apart: goods
at 25 %, a reduction at 0 %, RUT at a fixed price, ROT by the hour, RUT of a kind
that cannot be exported, and goods that were ticked as work later and have no
service, at prices and counts whose VAT, shares and kronor leave
fractions, 15.075 among them, which is where the roundings part.  Of the two identity
numbers one does not begin with digits.  All sums are over rows one at a time, so two
rows show what adding does.  `Server` has one connection for two requests: the second waits, and is
there when the pool closes.

Deadlock checking is on in every run but `Server`, where the process really ends.

What they show:

* **One request per type** holds for concurrent payments and
  across revocations.  The reason is `AskInvariant`, which `Payments` checks with
  failures too, see section 5.  The mutant that
  saves the invoice after the search, which changes nothing for one request at a
  time, breaks it.
* **A request is made with a payment** that is in force, dated and applicable
  (`RequestedWhenPaid`), and **no type is forgotten** (`EveryTypeRequested`).
* **A new document is whole** (`AppearsWhole`), an **invoice from an offer**
  comes in the commit that accepts the offer (`MadeFromAcceptedOffer`), and
  **nothing of a failed request is kept** (`NothingKeptOfAFailure`).
* **Flags have dates** (`FlagsHaveDates`) although concurrent saves overwrite
  each other: each save writes flag and date from the same copy.
* **Copies that are overtaken.**  No handler clears a payment date, finds a deleted
  document, or saves a sent request; but each saves a copy that it has read
  without a lock, and the copy may be from before another request did just this.  So
  with two requests a payment date does get lost, a deleted invoice does come back and
  a sent request does become pending again.  What holds is that nothing else does it:
  `PaymentDateKept`, `DeletedStays` and `SentRequestStays` allow the change only to a
  request in whose time another one has committed a change of the same row
  (`overtaken`).  These are the commits that PostgreSQL refuses to overwrite under
  REPEATABLE READ ("could not serialize access"), so the three say that this
  isolation level, with a retry, would be enough for them.
* **Rows of sent invoices** are written in spite of `is_invoiced` in two ways: by a
  request that was overtaken, or, with no race at all, through the post of another
  invoice that is open and names the row.  `SentRowsStay` says that there is no third:
  in particular the hours of a request, which `RUTSave` writes with all other
  columns of the row, change nothing else.  Without either exception the run fails.
* **The books**: the detailed program implements `Register`.  Two requests of a
  company do read the same number; the UNIQUE index lets one of them in, the
  other is rolled back.
* **Sessions and companies**: whichever user `UserGet` comes up with, a session
  starts only for somebody whose password was given (`SessionsEarned`), a session
  takes up a company, and a company is edited, only for a user who is a member at
  that moment (`OnlyMembersAct`), and every commit is one of the changes of
  `Access`: no company without its first member, no session that comes back after a
  logout.
* **Amounts agree.**  The two sums of the print and the claim of the SIE file are
  computed in different ways and are the same to the ore; the amount of the QR
  code is not rounded and is within half an ore of them (`OneAmountToPay`).  The page
  shows what is printed on an applicable invoice when all work names its service, but
  where the amount is within the error of a double of half an ore, and then it is one
  ore beside it; its VAT is that of the SIE file up to the roundings of both where the
  rates agree (`PrintedAsShown`).  Vouchers balance up to the rounding that they have
  no account for and up to rows at 0 %, which they do not book (`VouchersBalance`), the
  maxima of the requests' pages are what the customer was let off
  (`MaximumIsTheRebate`), and the file of a request adds up (`FileAddsUp`).
* **An export that is offered** does not crash, although paying and revoking, posting
  and asking for sums come in any order; it is refused for two services, and for
  a number that does not begin with digits, of which the page that offers it says
  nothing (`OfferedExportIsMade`).
* **The process**: a request that failed commits nothing even when half of its
  answer, with status 200, is already sent (`FailedLeavesNothing`); closing the
  pool waits for transactions (`NobodyCutOff`); connections come back on every way
  out (`ConnectionsOfTransactions`).  Who waits for a connection gets it unless
  clients that stall hold all of them, and who has one is held up by no client but its
  own (`EveryRequestAnswered`); Ctrl+C ends the process unless a client that stalls
  has a connection, for which `Close` of the pool waits (`InterruptEnds`).  Without
  these conditions both fail, since nothing in `main.go` limits the time of a client.
  Fairness there: weak fairness of each stage, because goroutines
  are scheduled and the database answers; a handler ends only while its client
  does not stall.  None of arrivals, failures, Ctrl+C, or of a client that resumes or
  leaves.  A request is served once, so that weak fairness of `Begin` is enough: no
  stream of newcomers can take the connection each time it is free.
* **Every request ends** (`EveryRequestEnds`).  Fairness: strong fairness of
  each request's `Step`, because a handler that is not waiting is run by the Go
  scheduler, and PostgreSQL grants a lock to its waiters in the order they came,
  so a request cannot be overtaken forever by newcomers (weak fairness would not
  say so: the row may be locked and free again and again); weak fairness of
  `DeadlockDetected`, because the server looks for cycles after
  `deadlock_timeout`.  No fairness is assumed of `Begin` or of failures.  A handler
  has its form there, or is kept by its client before it holds any row lock.

### Where the program and its comments disagree

1. `views/invoice/view.go:195`: *"Only allow updates to invoices we haven't sent
   yet"*.  The handler tests a copy that it read before it held any lock.  When
   another request sends the invoice in between, its rows are changed
   (`RowsOfSentInvoice`).
2. `templates/login.html:32`: *"Ogiltig e-postadress eller lösenord"*, a wrong
   address is refused.  `UserGet` looks at no name: a login with any name and the
   password of the last user is let in (`Logins`).
3. `models/invoice.go:73` and the page: *"6 %"*.  The factor at `:80` is 0.6
   (`VATRates`).
4. `views/rut/export.go:50`: *"Convert PNR to format YYYYMMDDXXXX"*.  A number
   of the form YYYYMMDD-XXXX gets a century before its century
   (`IdentityNumbers`).

`SentRowsStay` says how far the first is true.  Seen in the models as
well, without a run of their own:

* `views/rut/rut.go:115`, *"Only allow changes if RUT request is not already
  sent"*: the same race as the first; `RUTSave` writes all columns, so the request is
  also pending again.  Only an overtaken request does it (`SentRequestStays`).
* `templates/rut/view.html:22`: the invoice must be paid before its request is
  sent.  The handler does not look, and a payment can have been revoked.
* `static/js/customer.js:22`, *"Create a new customer entry"*: on an existing
  invoice the customer is inserted with company id 0, and the foreign key refuses it.
* Rows of work on an invoice that is not applicable for ROT/RUT: the page shows
  no rebate (`invoice.js:149`), print and vouchers give one.
* A row of goods that is edited and ticked as work keeps a service of null.  The page
  counts it as ROT, since null is less than 7 (`invoice.js:154`), and shows a rebate
  of 30 %; print and vouchers look for a service first (`models/invoice.go:263`) and
  give none.  `PrintedAsShown` is about invoices without such a row; the run has
  one, and fails without that condition.
* `views/rut/rut.go:59` offers the export of a ROT request, `export.go:152`
  always refuses it.
* `views/rut/rut.go:59` offers the export whatever the identity number is;
  `export.go:54-57` may refuse it (`NumberRefused`).
* A client that stalls keeps its transaction open without limit, and a second
  Ctrl+C is ignored.
* A Begin that fails is answered with an empty 200 (`transaction.go:178`), and a
  request that was committed may stay without an answer when the process ends.

## 4. Mutants

Next to some definitions stands a mutated form of it (`FlagScriptsSaveLast`,
`AttachmentRemoveOnly`, `CommitAlways`...): the definition with a plausible
mistake in it.  Each property of a passing run fails when its mutant takes the
definition's place (`PROJECT.json`, "mutants"), so each depends on the code it is about.

## 5. Proofs

Eight modules hold proofs: `FakturaTypes`, `FakturaProofs`, `InvoicesProofs` and
`CommitProofs`; `AccountsProofs` and `AccessProofs` (in both groups each builds on the
one before it); `ServerProofs`; `DocumentsProofs`.

### Faktura

`FakturaProofs` proves, for every finite or infinite set of requests, ids,
texts and forms,

* `TypeCorrect == Spec => []TypeOK`
* `AskCorrect == Spec => []AskInvariant`
* `OneRequestPerTypeCorrect == Spec => []OneRequestPerType`

from two assumptions: `EntitiesAssumption` (first numbers are naturals, the set of
rows is finite, and the marks NULL, Absent and Gone are different from all that
can be stored or entered in the books) and `FakturaAssumption` (the forms that arrive are forms).  TLC
evaluates both in every run.

The argument.  The inductive invariant is `TypeOK /\ AskInvariant`.
`OneRequestPerType` alone is not inductive: nothing in it says that the request
that is about to be inserted is new.  `AskInvariant` says why it is:

* `AsksUnderLock`: a script with searches (`RUTList`) or inserts (`RUTCreate`)
  left either has the `InvoiceSave` of an existing invoice still before them, or
  the request holds that invoice's row lock; and nothing but searches and
  inserts comes before them.  `FoundBeforeRows` and `InvoicesNeverRemoved` give
  the existing invoice: a handler comes to its script only through a query that
  found it, and no statement deletes invoices.
* `NewRequestsUnderLock`: an uncommitted new ROT/RUT request belongs to a request
  that holds its invoice's lock.  So while one request holds it, what it cannot
  see of that invoice's requests is nothing.
* `SearchIsFresh`: an insert comes first in its script, and no stored request,
  committed or not, has its invoice and type.  The search has just said so, and the
  lock keeps others from changing it.
* `KeysFixed`, `KeysUnique`: an update keeps invoice and type, so no two stored
  requests, committed or not, have both in common.  `OneRequestPerType` is the part
  of this that is committed.
* `IdleHasNoScript`: the end of a request leaves nothing to run.

The type invariant rests on it too: the type of `rut_requests` says that a
request names an invoice, the schema has no foreign key there
(`migrations/000004_separate_rut.up.sql:5`), and it is `AsksUnderLock` that says
the id in hand is not 0 when a request is inserted.

`FakturaTypes` has, for each action, the lemma that it keeps `TypeOK`, and
before them lemmas on the operators: tables after `Put` and `Ended`, records
after the handlers' changes, scripts as sequences of statements.
`FakturaProofs` has one step per action and per conjunct that the action can
disturb; statements that touch neither scripts, invoices nor requests share
lemmas.

### Invoices, customers and files

`InvoicesProofs` proves, under the same two assumptions and with `TypeOK /\
AskInvariant` at hand, that three more invariants of the runs hold for every instance.
Its `StepOf` splits a step of `[Next]_vars` into the four things one request
may do (begin, end, fail, or run a statement), and `StatementCases` the statements.

* `FlagsAreDated == Spec => []FlagsHaveDates`.  A handler saves the whole copy it has
  in hand, so the committed invoices are not enough: `DatesKept` says the same of
  uncommitted versions and of the copies (`inv`), and each change of a handler keeps it.
* `CustomersAreOwn == Spec => []OwnCustomers`, from `OwnBooks`.  The statements that
  save compare no company: that what they write is right comes from what an earlier
  query of the same request has found, and must still be so.  `Prepared`
  says which statements of a script rest on an invoice in hand of the session's
  company (`Ready`), `KnownInHand` that its customer is one that the request itself
  sees.  `InvoiceCompaniesFixed` and `CustomerCompaniesFixed` are why it still holds
  after any step of another (`CustomerWritten`, `OwnInvoiceWritten`): nobody changes
  a company or removes a customer, so `Known` stays.  A commit turns what the request knows
  into what everybody finds (`CustomerEnded`).
* `FilesAreAttached == Spec => []FilesAttached`, from `FilesPaired` and `OwnBooks`.
  File and link are written by two statements; between them the second is
  `Pending`.  `FilePairedFor` says that apart from that a request without an error
  sees both or neither, so whatever it commits is paired.  `FilePaired` says that the lock on the one keeps
  other writers from the other: that two requests detach the same file at once, or one
  attaches while another detaches, is settled by the row locks of `Waits`.
  `OwnBooks` says that the invoice an attachment names exists.

All three invariants were checked with TLC on the instances of `MCFaktura` first.

### Commits and the books

`CommitProofs` proves, under the same assumptions, what the commits of any number of
concurrent requests show.

* `FailuresLeaveNothing == Spec => NothingKeptOfAFailure`.  What pages show is
  `Store`, the committed values; `StatementIsHidden` says that a statement
  does not change it, and so only a commit does (`OnlyCommitsShow`).
* `RequestsComeWithPayment == Spec => RequestedWhenPaid`, from `PaymentsBacked`.
  The payment and the requests it makes are written by different statements:
  `PaidFor` says that a handler with a search or an insert left is about to save the
  invoice as paid, dated and applicable, or has saved it so and does nothing but ask
  from then on; `BackedWhenNew` that an uncommitted request names an invoice
  of which its own writer holds such a version.  Both reach the tables with one commit.
* `NoTypeIsForgotten == Spec => EveryTypeRequested`, from `TypesRemembered`: until the
  handler of a payment fails, a type among the rows it has read either has a request
  that it can see or is one that its script will still ask for.  `PaymentAsks`
  says that the script asks for every type at first (in whatever order the map of
  the code yields them); `SeenStays` that a request once seen goes on being seen,
  because keys are fixed and rows of `rut_requests` are never removed.
* `InvoicesComeFromOffers == Spec => MadeFromAcceptedOffer` and
  `CommitsKeepTheBooks == Spec => ImplementsRegister`, the refinement, from
  `BooksKept`.  Its parts:
  * `DocumentsFixed`: a save keeps number, company, kind and offer of a document.
  * `NextNumber`, `NumberRead`: what a handler has read as the next number is still
    the next one, or another document has got it.  That is all that
    `GetNextInvoiceNumber` promises, for the lock that would keep others away does
    not exist.
  * `NewDocument`, `NumbersDistinct`: an uncommitted document has passed the UNIQUE
    index, so its number is nobody's and still the next one; another that has read the
    same number waits, and is refused when the first one commits.
  * `FromOffer`: an invoice that names an offer is written by the transaction that has
    locked the offer and accepted it.
  * `NewRequest`: an uncommitted ROT/RUT request is for a committed document that is
    no offer.
  * `Booked` is what the scripts have to say to keep these: the kind of a document is
    looked at before a flag acts (`KindRead`, `AsksForInvoice`), a number is read for
    the company of the session and, for an offer, between the save that accepts it
    and the insert of its invoice (`Converting`), and after an insert come
    rows and files only (`Inserting`).

  The step simulation: a commit that makes a document appear is the step of `Register`
  that enters it (`EnterStep`; a transaction inserts at most one), one that makes
  requests appear is the step that asks (`AskStep`, with `KeysUnique` for "not yet
  asked"), every other step is a stutter, because the entries of a document are
  fixed.

Three theorems more are about `HSpec`, that is `Spec` with the history
variable `overtaken` of `Overtaken`.  It only watches: each step of `HSpec` is one of
`Spec` (`HistoryWatches`), and of any step of `Spec` there is exactly one with the
history.  Any number of requests may overlap, with any forms and whatever fails.

* `PaymentDatesAreKept == HSpec => PaymentDateKept` and
  `DeletedInvoicesStay == HSpec => DeletedStays`, from `InvoicesFollow`: for every
  invoice, what a request has written of it, and the copy that it has in hand, either keep
  the date of a payment and replace a version that is not deleted, or the request has
  been overtaken there.
* `SentRequestsStay == HSpec => SentRequestStays`, from `RequestsFollow`, which says of
  a stored ROT/RUT request that what has been written of it, and the copy in hand, keep
  it sent and its sum, or it was overtaken.  `RutScripts` is what both need of the
  scripts: that a request's page gets the request first and saves that one.

A commit is the step that matters: it changes what others have read, and is just
where `Remember` puts the row into the history of everybody else who is active
(`EndFollows`); whoever reads the row later reads the new version (`ReadFollows`), and a
request that begins has read nothing (`BeginFollows`).  `ChangesFollow` turns the
invariants into the action properties.

`PaymentsBacked`, `TypesRemembered` and `BooksKept` were checked with TLC first, as were
`InvoicesFollow` and `RequestsFollow`.

### Accounts

Two modules prove, for every set of requests, users, companies, sessions, names,
passwords, texts and forms, with and without faults, from `AccountsAssumption`
(the forms that arrive are forms, and NULL, Absent and Gone are different from all
that can be stored),

* `TypeCorrect == Spec => []TypeOK`, `SessionsAreEarned == Spec => SessionsEarned` and
  `MembersAct == Spec => OnlyMembersAct` (`AccountsProofs`),
* `AccountsImplementAccess == Spec => ImplementsAccess` (`AccessProofs`): the
  refinement, whose mapping takes of each table what is committed.

The inductive invariant has three layers.  All of them were checked with
TLC on the instance of `MCAccounts` before they were proved.

* `IInv`.  What is left of a script is one of the scripts of the request's form
  (`ScriptOf`), and a handler has in hand what its next statements need: a session
  to update or remove, a user it sees and whose password it was given
  (`HandOf`, `Knows`).  Users are inserted and never updated (`UsersInserted`), so
  what was known of a user when the password was compared still holds at
  the commit, and every uncommitted new session is that of a known user
  (`NewSessions`).
* `MInv`.  Nobody leaves a company and no company goes, so a membership that a
  handler has found out stays one whatever the others do (`Member`, `MemberStays`).
  `CompanyInHand` says which statements have found it out; `CompaniesWritten` and
  `SessionsWritten` carry it over to what they have written; `MembersJoin` is for
  the one who founds a company and is not a member before the commit.
* `WInv`.  All that a request has written at each statement is a part of one
  change of `Access` (`Doing`), and all of it when its handler has ended without an
  error (`Done`, with one disjunct per change).  The locks of a session matter
  here: whoever updates or removes one has waited for its last writer, so that
  the version that is committed starts from the row that is there (`SessionFree`).
  `MembersOfCompanies` is needed for `Create`: a company that is only being
  inserted has no members, so the membership is new as well.

The step simulation is then short: only the end of a transaction changes what is
committed (`TablesCommitted`), a rollback changes nothing, and a commit in each case
of `Done` is the step of `Access` of that name, or none for an edited company.

### Server

`ServerProofs` proves, for every set of requests and of connections, with and
without faults, `[]TypeOK`, `[]FailedLeavesNothing`, `[]NobodyCutOff` and
`[]ConnectionsOfTransactions`, from `ServerAssumption` (`NULL` is neither a
connection nor a number).  None of them is inductive.  `FailedLeavesNothing` needs
that a request that failed has a status above 400 when it comes to its end
(`Ending`) and that nothing was sent or failed before its handler began
(`NothingYet`); `NobodyCutOff` needs that a transaction is open exactly from
`Begin` to `CommitOrRollback` (`UnderWay`, `Ended`) and has a connection as long,
so that `Close`, which waits for all connections, waits for it; and that none begins
afterwards (`Quiet`).  `IInv` is these with the four theorems, and was checked by
TLC first.

### Documents

`DocumentsProofs` proves, for every set of rows, numbers, sums and hours, from
`TotalsAssumption`, `ExportsAssumption` and `DocumentsAssumption`, `[]TypeOK` and
all properties of the run `Documents`, whatever the number of rows of an invoice, their
prices and the precision of `decimal.Div` (`Tenth`).

`OfferedExportIsMade` needs `RequestsDated`: a request is there only when the invoice
has had a payment date, which nothing takes back.  The others are about sums over
rows.  The loops of the code are recursive functions here, and what these
compute would be proved by induction; the induction theorems of the library take an
operator as parameter, which the provers cannot instantiate.  The proofs do without them:

* `UpTo` is induction stated with a set: the numbers below n that are not in it would have a
  least one (`NatLessThanWellFounded`, `WFMin`).  `StepsTaken` makes a sequence of
  states of a loop from its steps.  With both, `SumIsPartial` says of the sum of a
  sequence that it is the last of its partial sums, and `SumsAdd` and `SumsNear`
  that sums of three sequences, whose amounts add up (up to an error each), add up (up to
  the sum of the errors).
* `TotalsAreSums`: each component of `InvoiceTotals`, which the code accumulates in one
  record over the rows, is the sum of that amount of the single rows.  `AmountsAdd` is
  its step: `Add` adds each of the amounts.

What is left is about one row:

* `OneAmountToPay` (`CustomerIsAskedForOneAmount`): `RowIsShared`, the customer's part
  and the agency's are the price of a row, before anything is rounded; so the sums of
  the print are of equal amounts, and `RoundBankIsNear` bounds what separates them from the
  QR code.
* `MaximumIsTheRebate` (`MaximaAreTheRebate`): `MostIsTheRebate`, a row counts for one of
  the two requests.
* `FileAddsUp` (`FilesAddUp`): `CostOfRows`, the rows of the file and those left out are
  all rows; `KronorAddUp`, rounding one amount to kronor and cutting the other costs at
  most one.
* `VouchersBalance` (`VouchersAreBalanced`) and `PrintedAsShown` (`PrintsAreAsShown`):
  `RoundDivIsNear`, `RoundBankIsNear` and `IntPartIsNear` bound what one
  division, `RoundBank` and cutting to hundredths cost; `SharedErrors` and
  `PageErrors` what these errors make of a row, which is the bound in `Rounding`.  For the
  page `ShownAsPrinted` says where `ToFixed` and `RoundBank` part: only within
  `DoubleError` of half an ore, and then by one.  `LineWritten`
  and `WrittenIsNear` follow the lines of a voucher as the file writes them, which
  skips lines of amount zero.

### Not proved

Only model-checked are:

* `EveryRequestEnds`, `EveryRequestAnswered` and `InterruptEnds`: liveness under
  fairness.  The prover has no ENABLED and no fairness.
* `SentRowsStay`: that the rows of a sent invoice change in two ways only.
* `AppearsWhole`: it is true of the forms that the program can be sent by its own
  pages.  `Forms` is any set of forms in the proofs, and a typed address can
  post a new document whose form also names, as a row to be removed, the
  id that its own new row is going to be given.
* The four properties that the code violates.

## 6. Not modelled

* What the last `UserGet` is in practice: the model takes any row, a server mostly
  returns the newest or the last updated one.
* Amounts and concurrency together: `Documents` runs one handler after the other,
  `Faktura` has amounts as model values.  So that the voucher of a sent invoice changes with
  its rows, in the two ways of `SentRowsStay`, is in neither.
* The bits of doubles (see `DoubleError`), and what a handler has read of a form that
  stalls half way.
* XML, LaTeX, lists, templates, filters and tags: they read and format only.  Of the
  JavaScript only the totals and the accepted identity numbers are modelled.
* Cloning of views, route matching, the counts of the menu, URLs: no state is kept.
* `sqlx/`: a fork of a library.  Here a statement succeeds or returns an error.
* Migrations of old data, configuration, logging, static files.

## 7. Plan

Done, in this order: `RowVersions`, `Entities`, `InvoiceViews`, `RutViews`,
`Faktura`, `Register`, the proofs about `Faktura`, `Accounts`, `Access`, `Totals`,
`Exports`, `Documents`, `Server`, the proofs about `Server` and the types of `Documents`,
those about `Accounts` up to its refinement, those about the flags, customers and
files of `Faktura`, those about its commits up to its refinement, `Overtaken` and the proofs
about copies that are overtaken, and those about the amounts of `Documents`.

What would come next:

1. The numbering of several companies as a liveness question: can a company
   always issue its next invoice?
2. The life of a ROT/RUT request whose invoice is deleted, which today can be
   neither sent nor closed.
3. Proofs: `AppearsWhole` from an assumption on what forms of new documents name, and
   `SentRowsStay`, whose invariant has to follow the rows in hand as `InvoicesFollow` follows
   the invoices.
