# Verification of the event platform

TLA+ models, TLC runs and TLAPS proofs for the FastAPI event platform in `src/`
(registrations, store, payments, tickets, business matching and content of a conference).
The models follow the code under `src/app/`; the documents under `src/docs/` are used for what
the program is *said* to do, never for what it does.

Contents: 1 inventory, 2 modules, 3 runs, 4 proofs, 5 where documents and code disagree,
6 limits and what is not modelled, 7 what could follow.

## 1. Inventory

The program is one asyncio process per worker behind nginx, over PostgreSQL at READ COMMITTED.
A request has one `AsyncSession` (`app/core/database.py`, `expire_on_commit=False`), so a handler
is a sequence of statements between commits; other requests run at every `await`. What serializes
them is row locks (`FOR UPDATE`) and unique constraints. An object that the session has already
loaded keeps its attributes when a later query locks its row, unless the query says
`populate_existing`; and an `UPDATE` names only the columns that differ from what was loaded. Both
facts matter in several modules. Besides requests there are webhooks of three gateways and tasks
started after a commit (e-mail).

| Component | State | Operations | Hard behaviour |
|---|---|---|---|
| Payment ledger (`payments/service.py`) | orders, payments, webhook events | progress and reconciliation, manual proof and confirmation, offline receipt, organizer's status, delete and bulk commands, user's cancel, continue, hide | commands and webhooks of several rails meet on one order in any order |
| Hosted DOKU checkout | reservation rows, checkout URL | reserve, call DOKU, answer, resume, notification | commit before external I/O, timeouts, webhook before answer, repeated and reordered notifications |
| Midtrans rail | attempts, Snap token, window | checkout, resume, verify, notification | no lock around the checkout's HTTP call; verification before the locks |
| DOKU SNAP rails (`doku_snap.py`, `doku_order.py`, `doku_inquiry.py`) | virtual accounts, QR codes, cards, bindings, OTP | ask for a bill, answer, notify, inquire | rows written after the HTTP call without re-reading; rows taken over by another rail |
| Registrations (`iwbif`, `registrations`) | status, form, papers, booth | draft, submit, verify, reject, confirm, cancel | reads without a lock before slow work; files beside rows |
| Store and cart | products, carts, orders, registrations | add, remove, check out, register from an order | one purchase per package while payments change state; several handlers read without a lock |
| Delegate packages | packages, rates, the products copied from them | edit | a copy made from values read without a lock |
| Tickets, check-ins, attendance | tickets, QR tokens, check-ins | issue, reissue, scan, report | several commits per command, check-then-insert without a constraint |
| Business matching | meetings, slots, resources, recommendations, conversations, profiles, blocks, notifications | request, answer, confirm, reschedule, operate, message, block | commands decide on a row read before its lock; broadcasts after commits |
| E-mail | templates, overrides, logs | deliver once per trigger and entity | log committed before sending; tasks lost when the process stops |
| Accounts | users, reset tokens | register, forgot, reset, change password | racing reset requests |
| Webhook capture | captures, events | capture, parse, apply, mark | three transactions per webhook |
| Content and translations | members of the committee, speakers, profiles, photos, translations | edit, upload, translate, search | a file beside a row; fallbacks of languages |
| Reporting, participants | (reads) | history, invoice, transactions, reports | hidden rows and rows of every rail must add up |
| HTTP shell, migrations, scripts | settings, schema | | none that involves two actors |

How they meet. Every rail writes `payments` rows and calls `_reconcile_order_payment`, which
writes the order, the registration (unless the order is `additional`) and the additional packages.
Confirming a registration, issuing a ticket, selling an additional package and showing a purchase
state read the order's status. After a commit that changes a payment, a task sends an e-mail.
Confirming a registration gives a participant a seat in business matching; the registration's form
opens the profile.

What makes each part correct, in short: an order's status says what settled money says; money is
never lost, hidden or taken back by a late message; a participant never has two payable bills;
credit is real; closed orders stay closed unless money arrives; registrations and packages follow
orders; requests do not deadlock; a settlement arrives eventually; a package is sold once; what is
told, shown or offered agrees with the rows; a person enters once, meets whom they agreed to meet,
and is found on their own terms; rows have their files. The hazards, each at its line, with the
properties that watch it, are in `PROJECT.json`.

## 2. Modules

| Module | What it is |
|---|---|
| `LedgerState` | the rows, `_payment_progress`, `_reconcile_order_payment`, the tables of allowed actions |
| `Ledger` | every handler that locks the order before it writes money, one action each; the safety claims |
| `PaymentHistory` | extends `Ledger`: bulk commands, hiding, what owners and organizers are shown (history, invoice, reports), the payment e-mail |
| `HostedCheckout` | extends `Ledger`: hosted checkout composed with DOKU and the network |
| `SingleBill` | the abstract promise of hosted checkout, implemented by `HostedCheckout` |
| `MidtransRail` | extends `Ledger`: the Midtrans checkout and webhook composed with Midtrans |
| `SnapRails` | extends `Ledger`: virtual account, QRIS, card and direct debit checkouts composed with DOKU |
| `RowLocks` | the row locks of the handlers, in the order they take them |
| `WebhookInbox` | capture of a webhook, its handling and its mark, with crashes and repetitions |
| `EmailDelivery` | templates, the log and delivery tasks, with crashes |
| `Accounts` | one address: registration, password, reset tokens |
| `Store` | cart, checkout, orders of a user, registering from an order, exhibitor registration |
| `PurchaseTracking` | extends `Store`: the purchase state a user is told |
| `Packages` | a delegate package, its rates, the products copied from them |
| `Admission` | tickets, QR tokens, gates, the attendance report |
| `Meetings` | requests, recommendations, slots and resources |
| `Conversations` | messages, blocks, read marks and sockets |
| `Networking` | profiles, blocks, discovery and the notification center |
| `Drafts` | the registration's form, its documents, and the exhibitor's booth |
| `Content` | a speaker, committee member or own profile with photo and translations |
| `LedgerProofs`, `HistoryProofs`, `HostedProofs`, `MidtransProofs`, `SnapProofs` | the theorems of the payment modules, section 4 |
| `StoreProofs` | of `Store`, `PurchaseTracking` and `Packages` |
| `ServiceProofs` | of `RowLocks`, `EmailDelivery`, `WebhookInbox`, `Accounts` and `Admission` |
| `PeopleProofs` | of `Meetings`, `Conversations`, `Networking`, `Drafts` and `Content` |
| `MCLedger`, `MCHosted`, `MCMidtrans`, `MCRowLocks`, `MCMeetings` | values of the constants for TLC |
| `MCSales`, `MCPeople` | several modules side by side, with the values of their constants |

### State

`ord`, `pay`, `reg` and `sel` are the tables `orders`, `payments`, `registrations.status` and the
additional rows of `delegate_registration_package_selections`. Row identifiers of the ledger are
naturals in creation order, so "latest" is the largest. An order's registration, kind, total and
items never change after insertion and are constants of its identifier. A payment row keeps its
order, rail, status, amount, sequence (0 for NULL) and `deleted_at`. Statuses no handler tells
apart share a name: the two spellings of canceled; in `Ledger` the registration statuses no
modelled command enters; in `Store` the statuses of an order that can still be paid (`pending`)
and of a registration neither confirmed nor cancelled (`open`). The manual providers are one rail,
`manual`; cash and card desks are `cash`. An order of kind `legacy` is one that `create_order`
makes for a registration.

Money is counted in abstract units. `Paid` is the cardinality of the units of the counted rows,
cut at the order's total: a set of units rather than a recursive sum, so that it can be proved
about. `SegmentLimit` is the effective limit, `QRIS_SEGMENT_LIMIT_IDR` cut at 9,000,000; the
Midtrans plan does not cut it, which is the same for every setting up to that cap.

Outside the ledger, rows are model values and a request under way is a record of the step it is at
and of what it has read (`visit`, `req`, `chat`, `net`, `form`, `editor`, `desk`, `gate`, `task`,
`handler`). A few variables record history for a claim: the sets `met`, `mixed` and `crossed`
say which kinds of requests were under way together, `reopened` on an order that a
settlement came after its cancellation, `urlGiven` that an update named a photo itself.

### Actions and atomicity

A handler is one action when it locks its rows before its first read that matters and keeps the
locks to its only commit: then no other handler sees or makes a state in between. It is split where
it is not so:

- `create_doku_checkout` commits its reservation, calls DOKU, then re-reads the row under lock:
  `HostedReserve`, then `HostedAnswer` or `HostedNoAnswer` (timeout, error, crash).
- `handle_doku_notification` looks up its row, waits for the order's lock, refreshes the row:
  `DokuFind`, `DokuApply`.
- the legacy entry by `registration_id`: `create_order` commits, then reads and reserves unlocked:
  `LegacyCreate`, `LegacyLook`, `LegacyReserve`.
- `create_midtrans_checkout` reads, calls Midtrans, commits: `CheckoutRead`, `CheckoutCommit`,
  `CheckoutFail`. Continuing with Midtrans runs the same code under the order's lock and is one
  action, `ContinueMidtrans`. `handle_midtrans_notification` asks Midtrans, then locks: `Verify`, `Apply`.
- the SNAP checkouts ask and answer in two steps (`ChooseMethod`, `AskQris`, `AskVa`, `AskDebit`;
  `Answer`, `AnswerLost`), with the bill opened, paid and ended at DOKU in between.
- the user's `cancel_registration` reads and writes unlocked: `RegCancelRead`, `RegCancelWrite`.
- a participant's command on a meeting reads the row, then locks it and decides on what it had
  read: `Look`, then `Command` or `Confirm`; only the changed columns are written (`Update`).
- every handler of `Store`, `Packages`, `Networking`, `Drafts`, `Content`, `Admission`, `Accounts`,
  `EmailDelivery` and `WebhookInbox` that reads before it waits is a `Look` and a `Commit` step, or
  more where it commits in between; `Leave`, `GiveUp`, `Abandon`, `ProcessStops` and their kin are
  its refusal or its loss in a crash.

Refusals that change nothing are not actions; those that commit first are (`ContinueSettled`,
`Reissue`). In `Ledger` a gateway may notify anything about any of its rows, any number of times;
the composed modules restrict that to what the gateway has really issued.

Openings: the checkouts of Midtrans and SNAP are not actions of `Ledger`, so a behaviour may start
from a ledger in which such a checkout has written its first row. `LegalOpenings` states what an
opening must satisfy: linked rows, no paid order and no settled money.

## 3. Runs

| Run | Shows | Bounds |
|---|---|---|
| `ledger` (`HistorySpec`) | orders are paid exactly when covered; settled money keeps an order open; paid registrations are backed; paid additional orders grant their packages; closed orders reopen only with money; hosted success stays; credit shrinks only by a reversal or by a smaller earlier attempt of a sequence; counted money is shown to everyone who looks; the last notice to an owner is still true | orders of 3 (two segments), 1 (additional), 1 (legacy) units on one registration, a free exhibitor order; two payment rows; six openings (170,757 states) |
| `hosted` | hosted checkout implements `SingleBill`; a processed settlement is counted | one order, three rows: both segments and a repeated bill (125,065 states) |
| `hosted_live` | every settlement is eventually recorded | legacy entry, two rows (42,203 states) |
| `midtrans` | credit is real, is whole segments, never above the total | one order, two rows, one unlocked checkout beside the locked one, two waiting notifications (492,422 states) |
| `rowlocks` | no circle of waiters, and every request finishes, among handlers that lock the order first | three requests, eight handlers (7,725 states) |
| `sales` | `SnapRails`: one undecided bill, real credit, honest inquiry. `EmailDelivery`: a message is repeated only by overlapping tasks. `WebhookInbox`: an event is applied once. `Accounts`: a token is used once, and two are usable only after overlapping requests. `Store`: a package is sold once, one current registration, packages held were ordered. `PurchaseTracking`: the state shown agrees with the rules. `Admission`: one entry unless gates overlap, the report counts every guest once. `Packages`: products agree with rates unless edits overlap | about 660,000 states, below |
| `people` | `Meetings`: confirmed meetings are placed, consent comes first, a confirmation on a fresh row books nobody twice. `Conversations`: a view misses nothing, deleted stays deleted. `Networking`: found on one's own terms. `Drafts`: form and rows agree unless patches overlap, a document has its file. `Content`: what is shown is found, a photo has its file | about 699,000 states, below |
| `deleted_row`, `legacy_entry`, `stale_verification`, `webhook_locks`, `double_booking` | one disagreement each between a document and the code, section 5 | as above, smaller |

Why the ledger bounds are enough. Two rows on one order are the least with which one settlement
can meet another open attempt, a duplicate sequence, a receipt beside a gateway bill, or a refund
of one of two; a third row in `hosted` lets both segments be paid and a voided bill be replaced. A
total of 3 with segments of 2 and 1 has an unequal last segment. Two orders on one registration
let one order's reconciliation meet the other's. Bounds in the modules: the size of the payment
table, at most one waiting DOKU notification per row, one DOKU notification per row and status
(repetitions are redeliveries), `MaxWaiting` verified Midtrans notifications. What the bounds cut
off is what the proofs cover, section 4.

`sales` and `people` put modules side by side that share no rows. Their interleavings would only
multiply states, so a behaviour follows one of them, chosen at the start, while the others rest in
an initial state (`Follow`, `StandStill`); each service is explored in full. In both, row
identifiers of the services are the same few model values, permuted together (`MCSymmetry`).

- `sales`: one order of 3 units, untouched or with an expired hosted bill, three rows, two bills at
  DOKU; one message, two logs and two tasks; two captures and two events; two tokens and two
  requests; packages of three types in two catalogues, two orders, two registrations, two requests;
  two guests, check-ins and gates; two rates and two editors. `AddsAlone` (state constraint): a
  request that adds to the cart meets no other, since the claims do not read the cart.
  `EditsStopAfterMeeting` (action constraint): once edits of a package have met, which the claim
  forgives, no more are started.
- `people`: three meetings among three participants, each two of which share one participant, two
  slots and two resources, one request beside the organizer; two participants, one reader, two
  conversations, one message, one socket and two handlers; two people with three kinds of terms,
  two registrations each at most (`LastRegistration`), two requests; two categories, one document,
  two requests; two texts, three photos and two editors. `NoticesAlone`: notifications, which no
  request reads, are looked at while none is under way. `FormsOrPapers`: the form is not patched
  once there are papers or a booth, which are other rows. `TextsOrPhotos`: a member has
  translations or photos, which are other fields. `SavesStopAfterCrossing` (action constraint):
  once profile saves have crossed, which the claim forgives, no more are started.

Two requests are the least that can overlap, and each claim about an overlap speaks of two; two
rows are the least that can be told apart. Three meetings are needed because two meetings of
different pairs can share one participant or none.

`CHECK_DEADLOCK FALSE` in all configurations but those of `RowLocks`: with every row used and
every bill closed these systems really stop. `RowLocks` never stops and is checked.

Fairness. `hosted_live` assumes `WF(Find(p))`, DOKU repeats a notification until it is
acknowledged, and `SF(Apply(p, "SUCCESS"))` for each row, a delivery that keeps finding its row
gets the locks it waits for while other notifications of the row come and go: PostgreSQL queues
the waiters of a row. Nothing is assumed of customers, users, the organizer or the HTTP answer.
`rowlocks` assumes strong fairness of granting a lock (the same queue) and weak fairness of a
commit; rolling back is never assumed, so no abort is needed to finish.

Claims that speak of an overlap ("unless two patches were under way together") are exact: where
the code gives no more, the claim says under which interleaving it gives up, and TLC shows that
nothing else breaks it. The stronger claims fail, and section 5 says where a document makes one.

Every property has a mutant in `PROJECT.json`: a plausible slip in the mapped code, kept as an
operator beside the original, under which the run must fail.

## 4. Proofs

The provers check the following for all values of the constants that satisfy the named
assumptions of the modules, which TLC evaluates on its instances; further assumptions are in the
theorems themselves and hold in the runs `hosted`, `midtrans` and `rowlocks`.

**Ledger** (`LedgerProofs`; assumptions `RowIds`, `OrderConstants`,
`AdditionalOrders`, `LegalOpenings`). Types, `PaidIffCovered`, `MoneyKeepsOrderOpen`,
`RegPaidIsBacked`, `PaidEntitles` and `HostedSuccessStays`, for any finite payment table, any
orders, totals, limit and openings. The inductive invariant `LedgerInv` is the types, `RowsLinked`
(every used row has its order, rows named by a pending call or notification exist, manual rows
carry no sequence) and the four claims together. They need each other: `RegPaidIsBacked` survives
the reconciliation of another order only because that order's status is exactly what its rows say,
and an order's status stays right in steps that do not reconcile only if they change no counted
row. The lemmas split as the code does. `OrderKeeps` and `ReconcileKeeps` say a reconciled order
is right and others keep what they had (`OtherOrders`, `SameSettled`). Steps that do not reconcile
do not touch settled money (`UnsettledTouch`); the exception is `SubmitProof`, which may demote a
settled manual row. There the invariant survives because such a row has no sequence, so every
other counted row still counts (`DroppingUnsequenced`), and because a partially paid order that
loses money is still not covered. That is why `RowsLinked` speaks of manual rows.

**History, bulk commands, notices** (`HistoryProofs`; also `LegacyOrders`). `LedgerInv` survives
`PaymentHistory`: a bulk command on a set of rows of one order is, for every other order,
invisible, and its own order is reconciled at the end whatever the intermediate states were. On
top of it: `MoneyIsShown`; `NoticeIsCurrent`, by `NoticeInv`, which adds the type of `told` and
rests on the fact that each step either leaves what every order has and lacks, or sends a notice;
`ReopensOnlyWithMoney`; `HostedSuccessStays`; and `PaidShrinksOnlyByReversal`, where the counted
units of the old table are mapped into those of the new one unless a settled row has lost its
success or a sequence has got an earlier, smaller settled attempt.

**Hosted checkout implements `SingleBill`** (`HostedProofs`, assuming `LegacyEntry = {}`: the legacy
entry breaks the promise, section 5). `HostedInv` extends `LedgerInv` by what the application and
DOKU know of one another: an invoice belongs to a committed row (`Requested`), notifications and
statuses are true of the invoice (`SentTrue`, `StatusTrue`, `EventsDone`), at most one bill of an
order is outstanding (`OneOutstanding`), a canceled row whose bill DOKU may still collect belongs
to an order its owner or the organizer has closed (`CanceledOutstanding`; without it a second bill could be
issued beside it), and bills never share a sequence with another live bill or a settled row
(`SequencesDiffer`; without it a settlement might not be counted, or be counted in place of
another). From it: `TypeOKHosted`, `SettledIsCounted`, the refinement `OneBillAtATime` step by
step, `Overcharge` of the abstract module, and their composition `HostedNeverOvercharges`: what a
participant has paid and is asked to pay never exceeds the order's total.

**Midtrans** (`MidtransProofs`, assuming `MidtransOnly`: no rows at the opening, positive totals).
`MidtransInv`: every row is a segment of its order's plan, every checkout under way is about one
and the outdated attempt it will write exists, Midtrans knows only committed rows, and a verified
settlement is one Midtrans made. `CreditIsReal` is part of it. `CreditIsWholeSegments` follows from
arithmetic that needs no history: `Places` maps each counted currency unit to its place in the
total, start of its segment plus offset; it is injective because a sequence is counted once and
segments do not overlap (`SegmentsApart`), and onto exactly when all segments are settled
(`SegmentsCover`). So the unlocked checkouts can repeat and overwrite one another without ever
giving an order more credit than its total.

**SNAP rails** (`SnapProofs`; assumptions `BillIds`, `SnapOpenings`). `SnapInv`: a bill's row exists and
is its order's (`BillRows`), a bill waits for one answer and is late only after it (`CallsOnce`), a
row names a bill that has that row (`NamedRows`), nothing asks for more than its order's total
(`WithinTotal`), a settled row has a told bill of its own for at least as much (`SettledTold`), and
`OneInvoice`, which is inductive with these: two undecided rows of the checkout after a step were so before
it, or the answer that reopened one was late. `CreditIsSettled` then counts: each unit of a settled
row is mapped to a unit of that row's told bill, and rows have different bills.

`InquiryIsOwed` needs a second invariant, `InquiryInv`, because a row that was right when it was
written may ask for too much after another row of its order has settled. For an order none of whose
answers came late (`PromptOrders`) it says that the status is what settled money says (`OrderTells`),
that a row's rail is its bill's (`RailsMatch`), that a told bill's row is settled (`ToldArePaid`),
and how the rows that can still be paid compare with what remains (`RowsFit`): an undecided row that
a bank may be asked about asks for no more than that, and every other row that could be paid, or be
taken over by a direct debit, for at least that, so its settlement closes the order. Later rows ask
for everything unless the earlier ones do or they carry no sequence, a decided row asks for
everything or its order is canceled, and a row with the sequence of a settled one can settle only when
nothing is left; without these clauses a settlement might take off less than its amount, or
nothing, and leave the numbered row too large. The rest holds of every table: rows are numbered in
the order of their insertion (`RowsInOrder`), a segment has an amount (`SegmentsCharge`), and a
chosen row names its bill before the answer (`BillsNamed`). Steps are grouped by what they do to a row:
it stays or closes (`FitFalls`), it settles (`SettleFits`), or it joins the payable ones (`JoinFits`).

**Row locks** (`ServiceProofs`). `RankedLocksAreSafe`: if the lock scripts of all jobs ascend in
one ranking that conflicting locks of a row share, no set of requests waits in a circle, for any number
of requests: a blocker that waits does so for a higher lock, so the highest wanted lock has no
blocker in the set. `OrderFirstIsSafe`: order, payment, registration, user is such a ranking for the
eight handlers of the `rowlocks` run.

**Store** (`StoreProofs`; `StoreConstants`). `PackageSoldOnce`, `OneCurrentRegistration`,
`PackagesAreOrdered`, for any catalogues, orders, registrations and requests. `StoreInv` is the
tables, what the requests under way have read (`VisitsRead`: a checkout that passed its check still
finds no overlapping live order that a settlement has not reopened, because it holds the user's
lock, `OneBuyer`), and `MainOrdersDiffer`: two orders with a main package never share a
registration, so that a late settlement cannot make two registrations current.

`TrackingAgrees` follows from `StoreInv` for every state of the registration's form. **Packages**
(`RateFormsAreValid`): `PackageInv` says that a rate being edited is locked by one request
(`RowsLocked`), and that without another edit of the package, or of another rate, that request has
read the rows and products as they are (`DeskReads`) and unsets every other default
(`DefaultsApart`). Hence `CatalogueNeedsOverlap`.

**E-mail, webhook capture, accounts, admission** (`ServiceProofs`; `PasswordsDiffer`,
`AdmissionRows`). The claims all say "this happens only by overlap" or "once", and so do the
invariants: each row that a task is about to insert has been compared with every other row, or the
two were under way together. `MailInv` (`TasksHold`, `RowsTell`, `RowsMeet`) gives
`RepetitionNeedsOverlap`; `TokenInv` (`ResetsHold`, `InsertsApart`, `Overlaps`) gives `TokensOverlap`
and, as an action property, `ResetNeedsUnusedToken`; `AdmissionInv` (`ScansApart`, `ScansOverlap`)
gives `EntriesOverlap`. `InboxInv` says that the table of events holds exactly what some capture has
applied, whence `EventAppliedOnce` through any crash. `ReportCountsGuests` holds in every state of the
right types: the report has one line for each ticket.

**Meetings** (`PeopleProofs`; `MeetingConstants`). `ConfirmedIsPlaced`, `ConsentBeforeMeeting`
and `FreshConfirmIsFree` for any participants, meetings, slots, resources and requests. `MeetingInv`
adds `ReadStays`: a place in the row a request has read is still a place in the row, since no handler
clears one; without it a confirmation that writes only the status could confirm a meeting without
a place.

**Conversations, networking, drafts, content** (`PeopleProofs`; `TermSetsAreTerms`,
`MissingIsNone`). `ChatInv`: a change is of a message that is there (`ChangesFollow`), sockets are of
conversations that exist (`SocketsJoin`), and what a loaded client does not show is still to be
announced (`NewsComes`): `ViewIsComplete`, and `DeletedStaysDeleted` as an action property. `NetInv`:
the only save of a participant has read the row as it is, and the row says what was saved last
(`SavesRead`); a block answered with success has its row (`AskedAreBlocked`): `FoundOnOwnTerms`.
`DraftInv`: without an overlap a patch finds the categories it has read in both places (`PatchesApart`)
and a request the registration it has seen (`RequestsAlone`); a document's file is written for a row
of its own and goes after the row (`PapersFollow`): `LinksNeedOverlap`, `RowHasFile`. `ContentInv`:
a photo being uploaded is nobody's yet, one being removed is no longer the row's (`UploadsApart`):
`ContentIsServed`.

Not proved, by the nature of the prover: liveness (`SettlementArrives`, `RequestsFinish`). Every
other property of a passing run is proved. The type definition `TypeOKMidtrans` documents shapes; the
other types are part of the proved invariants.

## 5. Where documents and code disagree

With a run that exhibits it:

1. **A deleted row is settled** (`deleted_row`). The DOKU webhook finds its row, the organizer
   deletes it, the webhook settles it: a `success` row that is soft-deleted and not counted.
   `docs/API_REFERENCE.md` says success rows cannot be deleted.
2. **The legacy entry is not serialized** (`legacy_entry`): `create_order` commits and so releases the
   lock that `docs/DOKU_CHECKOUT_HARDENING.md` describes.
3. **A stale verification takes a success back** (`stale_verification`) on Midtrans.
4. **Midtrans and SNAP webhooks lock the payment first** (`webhook_locks`), so they can deadlock with
   cancel, continue and the DOKU webhook. PostgreSQL aborts one of them; gateways retry.
5. **Double booking** (`double_booking`). A confirmation writes only the status of a row that has
   been moved to another slot since it was read.

Seen in the model and in the code, without a run of their own (quoted in `PROJECT.json`):

6. A DOKU failure notified after an expiry reopens the expired row, which blocks the order.
7. A settled Midtrans sequence can be charged again through another transaction of it that is
   still payable; the second payment is not counted.
8. The notification of a QRIS payment by `create_doku_qris_checkout` finds no row.
9. The per-method DOKU checkout writes its late answer over a settlement, until the next
   notification.
10. Two concurrent reset requests leave two live tokens.
11. A draft's form or papers are saved after it was submitted.
12. A block is dropped when the other side has blocked first, and is not there after its unblock.
13. `translation_fallback` is false for a Mandarin reader served in English.
14. Reissuing a ticket revokes it, commits, and then refuses to issue another.

Seen while modelling, with no document to hold them against: a proof resubmitted on a settled
manual row leaves a `partially_paid` order without settled money; a confirmed registration can be
overwritten by its owner's concurrent cancellation; a canceled registration is set back by the next
reconciliation of its order; an unknown DOKU status strands its row; a smaller, earlier attempt of a
sequence that settles late takes the place of the later one in the counted sum; a pending attempt hidden by
its owner still blocks continuing the payment after a refund; `tickets_sold` of the revenue report
counts every segment payment; a direct debit binding without a token refuses the payment; the direct debit webhook compares the amount with the order's total; a second delegate
registration takes over the order of a cancelled one.

## 6. Limits and what is not modelled

- `HostedCheckout` leaves out the organizer's commands and other rails (both in `Ledger`);
  `MidtransRail` leaves out everything but Midtrans and the user's cancellation; `SnapRails` has of the
  other rails only the rows it takes over. `MidtransRail` gives Midtrans the statuses settlement, pending,
  expire, deny and refund; capture, cancel, failure and partial refund are treated by the code as one of these.
- `HostedSuccessStays` speaks of the rows of `create_doku_checkout`; the per-method checkout, which
  does take a success back, is in `SnapRails`.
- `sales` and `people` compose modules side by side, not through shared rows. Where a module needs
  another's outcome it has an action for it: `OrderPaid`, `OrderRefunded`, `OrderChanges`,
  `MoneyMoves`, `SeatConfirmed`, `RegistrationChanges`.
- `WebhookInbox` and `EmailDelivery` do not restart lost work because the code does not.
- `RowLocks` has the scripts of all handlers that meet on one order, but the runs leave out those for
  which no claim is made; bulk commands and tickets are not among them.
- Ties of `created_at`, the clock behind `orders.expires_at` and the unique index on active
  registrations are not modelled.
- Signatures, headers, currency, amount formats and permissions only refuse a request; a refused
  request is no step.

Not modelled, and why:

- the HTTP shell (routing, error envelopes, settings, security headers) and the schema migrations and
  seed scripts: no state of two actors, run once;
- log-in, token refresh, hashing and JWT: library code and pure functions;
- the invoice's document, spreadsheets, exports, statistics and the score of a recommendation: functions
  of rows without an effect on them;
- sessions, events, pages and other single rows that one editor reads and writes, of the same shape
  as `Content`;
- the table of interface texts and the choice of a locale from headers.

## 7. What could follow

A module for the older endpoints of `registrations/service.py`, and the tickets' locks in
`RowLocks`, would complete the components marked partly.
