# MyFreeApps in TLA+

MyFreeApps is a monorepo of small web apps over one shared backend package and
one shared mobile client. This project models the parts of it where the
difficulty is in the order of events: work that is handed to a service that may
not answer, tokens that two sides must agree on, rows that several requests
change at once.

## 1. Inventory

### The apps

| Part | Keeps | Operations | What is hard |
|---|---|---|---|
| MyBookkeeper: rent receipts | `pending_rent_receipts`, receipt numbers, PDFs, `signed_lease_attachments`, `email_filter_logs` | send, settle an earlier attempt, dismiss, delete the document, (re)connect Gmail, sync the mailbox | a mailbox that may not answer, two requests at once, a crash after the email left |
| MyBookkeeper: inquiry replies | `inquiry_reply_sends`, messages, the stage of an inquiry | send, settle, record | the same, with an inserted claim and a replayed request |
| MyBookkeeper: document extraction | document status, retries, extractions, transactions, links | upload, claim, extract, deduplicate, retry, re-extract, delete, mark paid from escrow | one worker against many requests, timeouts after a commit, deduplication across users |
| MyBookkeeper: rent reminders | one row per plan, due date and channel | tick, deliver, watchdog, phone confirmation, retry by hand, alert | a watchdog racing the delivery it watches, confirmations out of order |
| MyBookkeeper: email sync | fetched messages and their queue | discover, fetch, extract | interleaving with mail the app itself sends |
| MyBookkeeper: rent ledger | `rent_schedules`, `rent_charges` | save a schedule, read the ledger (which generates charges), waive, delete, allocate payments | reads that write, from rows read without a lock; proration; settlement order |
| MyBookkeeper: leases, attribution, calendar, tax, insurance, ... | rows edited by one request at a time | forms, imports, computations | mostly data |
| MyJobHunter | upload jobs, refinement sessions, discoveries | two polling workers, model calls | claims, retries, a reaper |
| MyGamingAssistant | lineups, clips, raids | media ingestion, Discord commands | external tools |
| MyLanguageTutor | tutor sessions, quotas | a turn: reserve, call the model, settle | slots and quotas under concurrent turns |
| MyPizzaTracker | drops, slots, orders | order, move, serve | capacity of a slot; today its routes never commit |
| MyRecipes | recipes and their versions | edit, extract from a photo | little |
| shared-backend | users, lockouts, refresh sessions, quotas, storage | sign in, refresh, revoke, lock out | tokens that rotate while answers get lost |
| shared-core, shared-mobile | the session of a phone | restore, refresh, sign in, sign out | asynchronous storage, requests that overtake each other |

### How they interact

An app's API, its workers and its schedulers share one PostgreSQL database and
talk through rows: a request commits a claim, calls a service without holding a
transaction, and commits the outcome. Every such call can time out with the
work done, and every process can stop between two commits. The apps share the
sign-in code of `packages/shared-backend`; the phones talk to it through
`packages/shared-core` and `packages/shared-mobile`.

### What makes each part correct

* Receipts and replies: mailed at most once; confirmed only when mailed; never
  offered again while a mail may be out; nothing left behind by an attempt that
  failed; a receipt that reads sent is not read back as income by a later sync.
* Documents: each payment becomes one live transaction; a document's status
  tells whether its transactions exist; no document is claimed twice, none is
  left claimed for ever.
* Reminders: one delivery per plan, due date and channel, unless the operator
  asks for another; a failed one is reported.
* Device sessions: a device stays signed in through lost answers and unreadable
  storage; signing out is final; what the phone shows is what it holds.
* Ledger: every day of a tenancy is charged once, at its share of the rent; what
  the host waived stays waived; payments settle charges oldest first, to the cent.

## 2. Plan

1. `SendOnce`, `ReceiptSend`: the abstract promise and rent receipts. **Done.**
2. `DeviceSession`: refresh sessions and the mobile client. **Done.**
3. `DocumentExtraction`: the worker, the requests, deduplication. **Done.**
4. `ReplySend`: inquiry replies, refining `SendOnce` as well. **Done.**
5. `RentReminders`: claim, watchdog, confirmations. **Done.**
6. `RentLedger`: generation of charges, proration, allocation. **Done.**
7. Next: lockout and quota counters of shared-backend; the workers of
   MyJobHunter; the turns of MyLanguageTutor; the queue of the email sync.

Each of the six has a run that checks it and a module of proofs, named after it
with `Proofs`; the ledger has a second one, `RentSettlementProofs`, about the
settlement of its charges. Every safety invariant and every action property that a
passing run checks is proved; liveness is checked only (section 9).

## 3. Rent receipts: `ReceiptSend`, `SendOnce`

### What the code does

`send_receipt` (`receipt_send_service.py`) loads the row, refuses or settles an
earlier attempt, claims the row under a fresh Message-ID
(`UPDATE ... WHERE status = 'pending'`), renders and stores the PDF, files it
with the lease, asks Gmail to send, records the message for the Gmail sync, and
marks the row sent. If Gmail's answer is lost the row stays `sending`, and
after a window of minutes (`GMAIL_SEND_CLAIM_STALE_AFTER`) the next request may
settle it by searching the mailbox for the Message-ID and the file name.

### How the model corresponds

* `row[r]` is the row of `pending_rent_receipts`: its status, the Message-ID of
  the claim, the sender's address and the attachment.
* An attempt is one call. It stands for the Message-ID it generates, its PDF
  and its attachment row. `pc[a]` is where it is between two commits or two
  calls out; `ctx[a]` is its `ReceiptSendContext`, read once and used later.
* Each action is one database transaction, or one call to Gmail or to storage,
  with everything the code does in it. A conditional `UPDATE` is an action with
  two outcomes: one row, or none.
* `inflight` and `mailbox` are Gmail: a request may be lost, may be accepted
  with its answer lost, may be accepted after the caller has given up.
* `aged` is the clock: a claim in it is past the stale window. It contains only
  what the code can tell, so time needs no counter.
* `lastNumber` and `number` are the receipt sequence; `attachments` and `pdfs`
  are the lease's documents and the stored files; `appSent` and `ingested` are
  the filter log and what the Gmail sync picked up; `conn` is the integration row.
* `tenant[r]` is the address the receipt goes to as of now: the host edits the
  inquiry or gives the payment to another tenant (`ChangeTenantEmail`). Each call
  reads it when it loads (`ctx[a].to`), and a call that settles an earlier attempt
  searches with the address *it* has read: by Message-ID first, then for that
  address and the attempt's file name (`FoundInGmail`). A tenant without an
  address is a refusal to load and is left out.
* `sync[s]` is a run of the Gmail sync: one transaction that reads the connection
  and the ids it knows, lists the mailbox, and queues what was listed, three
  steps between which receipts are sent and recorded. `sync[s].sent` is history:
  the emails that read sent when the run began.
* `EndUnsettled` is a call that stops where it is: an answer that never came, an
  error nobody handles, a crash. Nothing is lost but the call.

Dismissing is one action although the code reads the row in a transaction of
its own before it writes: the write carries the Message-ID that was read, so
any change between the two makes it a refusal.

Constants switch the assumptions the properties depend on. `FilingIsBounded`
says a claim does not go stale before Gmail's answer, `HeaderKept` that Gmail
leaves the Message-ID alone, `DocumentsStay` that the host deletes no receipt
document, and `AddressesStay` that no tenant's address changes, while the receipt
is being sent (from the loading of a request until its claim is settled),
`LogNeverFails` that recording an app-sent
email succeeds. `Legacy` are attempts from before the sender's address was
recorded.

### Runs

Three attempts cover one that is stuck, one that settles it and one that races
the settling; two accounts cover a reconnection and the way back.
`MaxConnections` bounds the number of times Gmail is connected. Receipts do not
interact but through the number sequence, and a number is handed out in one
step with the claim, so one receipt with three attempts, each of which takes
a number of its own, shows what the sequence does.

| Run | Question |
|---|---|
| `receipt_send` | Three attempts, two accounts, two addresses, every failure, and a Gmail that replaces the Message-ID header (the search by address and file name must then do), a host who edits addresses and deletes documents of whatever is not being sent: one email at most, numbers are not shared, no document left behind, refinement of `SendOnce`, sent and dismissed are final, a fresh claim is its owner's alone, and the inductive invariant of the proofs (which contains that an email out keeps its claim). |
| `receipt_live` | One account, one attempt from before sender addresses were recorded, a run of the Gmail sync beside the sending, again and again: a stuck claim is settled under fairness, what reads sent was emailed, is in the filter log, and is found by no sync that begins later. |

Counterexamples met, each with one assumption dropped, and not kept as runs:

* `FilingIsBounded = FALSE`: two emails (`AtMostOneEmail`), against the docstring
  of `send_receipt`, "Never emails the tenant twice." (`receipt_send_service.py:208`).
  The stale window starts at the claim (line 243), the PDF is rendered and
  uploaded after it (line 280), and filing does not renew it (line 295).
* The sync reads a receipt between Gmail accepting it and the app-sent record,
  and ingests it as somebody's payment. And one that was under way before the
  record was made ingests it later still, when the receipt has long read sent:
  it looks at the filter log once, before it lists the mailbox
  (`email_discovery_service.py:94`, 100, 219-231). So the comment that the record
  means a sync "never re-ingests" it (`receipt_send_service.py:361-364`) holds of
  syncs that begin after it, and `SentIsFiltered` says no more.
* A Gmail that replaces the header (`HeaderKept = FALSE`) together with a host who
  deletes the document of an unconfirmed send (`DocumentsStay = FALSE`), or who
  changes the tenant's address before the retry (`AddressesStay = FALSE`): the
  search by address and file name finds nothing, the retry emails again.
* A stuck claim whose account is gone is dismissed from `sending`, a transition
  the list in `pending_rent_receipt.py:7-11` doesn't have.

Deadlock is not checked in these runs: when every attempt is used up and no
connection is left, the system stops.

Fairness (`receipt_live` only): a running call takes its next step, the Gmail
request ends one way or the other (it carries a timeout), time passes, and the
host retries a stuck receipt as long as that is possible. Settling steps are
strongly fair because they need Gmail connected, which comes and goes. The
property lets go of a claim whose account is not the connected one: the code
can then only be unstuck by reconnecting it or by dismissing.

### Proofs: `ReceiptSendProofs`

`ClaimDiscipline` is the inductive invariant. Its parts say that an attempt
leaves no trace before it claims; that from its claim to Gmail's answer it holds
the row and is not stale; that an email that is out is still the row's and lies
in the mailbox of the account it was sent through; that a row names the attempt
its columns describe; and that a request which settles an earlier attempt does
so once that attempt's fate is decided. The last is what the code's stale window
is for, and is where `FilingIsBounded` is used. `AtMostOneEmail` alone is not
inductive: it says nothing of a request still on the wire.

Proved for any number of receipts, attempts and accounts, from `FilingIsBounded`,
no legacy claims, and a search that finds what was sent (`HeaderKept`, or
`DocumentsStay` and `AddressesStay`: by Message-ID, or by address and file name;
`DocumentKept` and `AddressKept` are the parts of the invariant that say the
settling call searches for what the earlier one sent): the invariant, one email at
most, the claim is kept, each filed document belongs to the attempt that holds the
row or was sent (`DocumentsBelong`), and every step is a step of `SendOnce` or a
stutter.

Proved without any of these: the type invariant, `FinishedIsFinal`,
`FreshClaimIsExclusive`, `NumbersUnique` and `SentMeansEmailed`. The last holds
without them because a row is marked sent only by a call that has Gmail's answer
or has found the email of the attempt in the row: when claims go stale too early
there may be two emails, never none. `NumbersUnique` needs to know of the
numbers calls carry: each was handed out, none to two calls.

Proved from `LogNeverFails` alone: what reads sent is in the filter log, and a
sync that began when it did finds nothing of it.

## 4. Device sessions: `DeviceSession`

### What the code does

A login makes a row of `refresh_sessions`. A refresh (`RefreshSessionService.rotate`)
replaces the row's secret and keeps the one before for a day, because the answer
may be lost; a secret that is neither ends the session: two parties must be
holding it. The phone (`createMobileSession`) keeps the session in memory and in
secure storage, whose calls are asynchronous and queued (`enqueueWrite`), reads
it back at launch (`restore`), and lets one refresh run at a time
(`refreshSessionOnce`). A generation counter tells a call that was overtaken by
a sign-in, a sign-out or the end of the session.

### How the model corresponds

* `sessions[s]` is the row of a login: whether it exists, the number of the
  current and of the previous secret, whether the previous one is still within
  its day, and whether `_is_usable` would say yes. Secrets are numbered in the
  order the server makes them; only equality of hashes matters.
* `stored`, `access`, `status`, `notice` are the phone's memory; `disk` and
  `queue` its secure storage and the calls to it that have not landed; the
  call at the head may land or fail at any time, and what waited for it goes on.
* `restore`, `refresh`, `signIn`, `signOut` are the one call of each kind that
  may run. `generation` is only ever compared with the value it had when a call
  began, so each call has a flag `fresh` instead, which moving the counter on
  clears.
* `logouts` and `late` are the network: sign-outs on their way and a refresh
  the phone has stopped waiting for. A refresh still waited for is
  `refresh.pc`: asked, then accepted or refused by the server, then received.
* `pending` is a request of a screen whose answer ends the session in memory:
  a step-up that asks for a new sign-in, or the deletion of the account.
* `signedOutOf` is a history variable: the sessions the user signed out of here.

`rotate` holds a row lock, so it is one action. Between an `await` and the next
the client is one action.

`Faults` lists what may go wrong or come in between; every run names its set, so
a reader sees under which circumstances a property holds. The eviction of the
oldest session, the expiry of others and their deletion with the user are all
`Revoke`; a disabled user, an idle limit, a cut-off are `SetUsable`; rate limits,
outages and lost answers are `RefreshUnanswered`, since the client treats them
alike.

### Runs

| Run | Question | Circumstances left out, and why |
|---|---|---|
| `device_session` | One phone is never taken for two; what storage will hold is what memory holds. Deletes may fail. | Late requests and failed writes break the first, a sign-in beside an unreadable session the second (see below). The end of the grace needs a phone that stays away for a day. |
| `device_ends` | While the app runs, nothing on its way brings back a session the user signed out of; no live session on the server is one the phone has lost; "you have been signed out" is true of the session it drops; a phone whose session was ended finds out. With late requests, lost answers, failed writes, revocations, a link and the end of the grace. | Kills and failed deletes undo a sign-out (see below), and a phone killed for ever learns nothing. Lost logins and sign-outs, a user disabled for a while and a step-up that drops a session without telling the server each leave one behind, which the code accepts: the list of devices shows it. |

Bounds. Two sessions: one held, one that replaces it; the client never handles
more than two at once (`signIn.replaced` and the new one), and sessions do not
interact on the server. Three secrets: current, previous and one that is
neither. One late request, one read of storage and
one pending screen request at a time. The queue needs no
bound: a refresh and a sign-in wait for their calls, and a delete is only made
by whatever drops a session from memory. TLC explores every instance completely.
When the secrets and sessions of an instance are used up the phone may still
act, so deadlock is checked.

A second `retryRestore` while the first still reads is left out, as are several
requests waiting for one shared refresh (they get the same answer).

Fairness (`device_ends`): the phone keeps running, its storage answers and
its continuations run; requests of the app are rejected once the access token
has expired, so a refresh starts again; no refresh is waited for longer than
`AUTH_REQUEST_TIMEOUT_MS`. The server's answer and its reception are strongly
fair: the network may lose any number of answers but not all of them for ever.

### Counterexamples

With one more circumstance TLC refutes the properties; none is kept as a run.

* `NeverMistakenForTheft` with `late` or `writeFails`: the server's memory of one
  previous secret assumes that the phone is never more than one step behind. A
  request that arrives after its retry, or a storage that refuses a write before
  the app is killed, makes it two, and the phone is taken for two.
* A phone that reads as signed in and holds nothing, in eleven steps: the
  generation counter, which `completeSignIn` does not look at after its write
  (`createMobileSession.ts:162`).
* `StorageFollows` with both `unreadable` and `link`: a link opens the sign-in
  screen over a session that couldn't be read, and a retried read, which is not
  queued behind the writes, overtakes the write of the new session and puts the
  old one back in memory.
* A sign-out whose delete is refused, or which a kill forestalls, with the server
  not told either, is undone by the next launch: the code logs it.

### Proofs: `DeviceSessionProofs`

For any number of sessions and secrets and a queue of any length:

* `TypeCorrect`. A sign-in whose write fails tells the server of its session, so
  typing needs `SignInWaits`: a sign-in's write is queued only while it waits.
* `OnePhoneIsNotMistaken`: `NeverMistakenForTheft` from `Gentle`, no late
  requests, failed writes and end of the grace. `replayed = {}` says nothing of
  tokens the phone may present later, so `SafeInv` speaks of every token the
  phone has anywhere (`Kept`: memory, storage, the queue, a read under way). The
  server would accept each (`KeptAccepted`); all tokens of a session agree but
  while a new one is being written (`KeptAgree`), so that when a refresh starts,
  all of them equal the one it presents and become the previous one together
  (`InFlight`); what is queued behind the write of a new token is not older
  (`BeingWritten`). `BrandNew` keeps logins apart and `RestoreApart` keeps reads
  away from renewals. `MilderStep` covers every step that makes no token.
* `StorageFollowsMemory`: `StorageFollows` from `Orderly`, no failed writes and
  not both a link and unreadable storage. `ReadsAlone` says why `restore` may
  set the session without a call to storage: while its result counts, nothing
  is queued and nothing is held.

* `ToldTheTruth`: `ToldOnlyIfEnded` from `OnlyEndsRefuse`: no user is disabled for
  a while and no step-up asks for a new sign-in. Both have the server refuse a
  session it keeps. A refusal on its way must then be of a session that has ended,
  and the session it drops must be the one it was asked for.
* `SignedOutIsForgotten`: `SignedOutStaysOut` from `Forgetting`: no kill between
  leaving memory and the delete, no delete that fails. What was signed out of may
  still be in storage, in a read under way or in a queued write; the invariant says
  that behind each there is a delete in the queue, or a flag `fresh` already cleared.
* `NothingLeftBehind`: `NoSessionLeftBehind` from `EveryEndIsTold`: no kills, no
  lost logins or sign-outs, no disabled users, step-ups or deletions of the
  account, and not both a link and unreadable storage. Each of these makes the
  phone drop, or never learn of, a session the server keeps.

These are the circumstances `device_ends` leaves out; late requests, lost
answers, failed writes, revocations and the end of the grace are in. Only
model-checked: liveness.

## 5. Inquiry replies: `ReplySend`, `SendOnce`

### What the code does

`send_reply` (`inquiry_reply_service.py`) is the second user of the claim
protocol, with differences that matter: the claim is a row of
`inquiry_reply_sends` *inserted* under the `client_request_id` of the app, not an
update; a released claim is deleted; the same id with another text is refused;
after the email, `record_reply` stores the message, confirms the claim and
advances the stage of the inquiry in one transaction; and the body depends on
what the listing says of pets when the request is loaded. An app too old to send
an id has no claim at all.

### How the model corresponds

* `claim[k]` is the row for an id, `ctx[a]` what a call has loaded. A call that
  ends before its claim has generated nothing, so its attempt may be used again.
* `messages` are the recorded replies: whose email, recorded by whom, and whether
  the record tells of the pets. `appSent` is the filter log.
* `Load` reads the listing: the pets it finds are any the host may have
  entered by then (`Pets`). Templates and wording are abstracted to whether the
  reply tells of the pets.
* `FoundInGmail` asks for the Message-ID of the earlier attempt and nothing else:
  replies have no attachment to look for. Whether Gmail keeps the header it is
  given is the constant `HeaderKept`; `gmail_attachment_send_service.py:77-80`
  allows that it does not.
* `UpdateInquiry` sets any stage, `new` included, as the PATCH does; the stages
  are `new`, `replied` and `later`, which stands for all others. `inquiry.reopened`
  is history: the host has set it to new. The other fields the PATCH changes are
  read by no step modelled, but for the listing (`Pets`) and the address, of which
  only a missing one matters: such a request raises at loading.
* Deleting an inquiry is a soft delete: its claims stay. (`reply_recording.py:141-142`
  says that the claim went with the inquiry; the transaction that finds the
  inquiry gone rolls back and leaves the claim `sending`.)
* A claim does not go stale between its insert and Gmail's answer: nothing is
  rendered or uploaded in between, unlike with receipts. Claims from before sender
  addresses were recorded are modelled for receipts only.

| Run | Question |
|---|---|
| `reply_send` | Three attempts, one id or none, two texts, two accounts, a host who sets the stage or deletes the inquiry (`MaxEdits` 1), a Gmail that keeps its header: one email per id; claim, message and filter log agree, and an inquiry with a recorded reply is new only by the host's order; the host is never told of a text that was not sent; the inquirer hears of the pets; refinement of `SendOnce`. |
| `reply_told` | *Violated:* what is recorded as told was told. |

The finding: a claim is settled with the context of the *settling* request, whose
body was computed from the listing as it is now. If pets were entered in
between, the record has a disclosure the email lacks, and later replies leave it
out. Not kept as runs:

* With `HeaderKept` FALSE `AtMostOneEmail` and `SendsOnce` fail: Gmail accepts a
  reply under another Message-ID, its answer is lost, the next request of the
  same id finds nothing, releases the claim and sends the reply again. Receipts
  have a second search for this case, replies have none. The other properties
  hold without the header.
* The stage is read without a lock and written as a constant, so a host who moves
  the inquiry on in between finds it pulled back to replied; one who sets it back
  to new in between finds it new although a reply is recorded, which is why
  `RecordedTogether` excepts `reopened`.

### Proofs: `ReplySendProofs`

The claim protocol is that of the receipts and so is its invariant,
`ClaimDiscipline`: no trace before the claim, a call holds its claim until Gmail
answers, an email that is out has the claim of its key, a claim names the text and
the account of its call, and who settles a call does so once its fate is decided.
A reply without a key has no claim, so each part speaks of keyed calls where it
must. Two parts hold only with `HeaderKept` and say so: that an email that is out
has its claim, and that what is about to be released is not out. So one email per
key and the refinement of `SendOnce` are proved from `HeaderKept`, true answers
from nothing: nothing is rendered between claim and answer, and no sender is
unknown. `RecordedTogether` adds `OneMessage`, `MessageIsOut`, `LoggedFirst` and
`StageMoves` (what a call has done of its bookkeeping when it stops), and needs
`LogNeverFails`. `HeardOfPets` is proved for listings that have pets throughout
(`FALSE \notin Pets`, as in `reply_send`): with pets entered between a reply and
its settling it fails like the property of `reply_told`.

## 6. Document extraction: `DocumentExtraction`

### What the code does

Requests create `documents` rows in `processing`. The worker
(`upload_processor_worker.py`) looks at who has something to do, handles one
document at a time for each of these users at once, and looks again when all are
done. A document is claimed (`extracting`), read by the language model, and
stored in one transaction: for each item the transactions of the organization are
searched (`evaluate_dedup`) and the item is created, dropped, replaces an older
row, or is created for review. The recomputation of tax returns follows the
commit, inside the same timeout. A failure is retried if it looks transient.

### How the model corresponds

* `doc[d]` is the row, `txns`, `flagged`, `reviewed`, `severed`, `changed`, `links`
  the transactions and what is known of them; a transaction is named by the document,
  file and item it was made from, and numbered among those of that item, as a
  document without a vendor may be extracted twice. `worker[u]` and `tx[u]` are the task of a user
  and its uncommitted writes, so two tasks interleave item by item and see only
  what is committed, and their own writes.
* What the model finds in a file is a constant (`Items`, `Rank`, `Vague`,
  `Unnamed`, `Confirmations`). Faults decide whether it answers at all.
* Every operation of the host on documents and their transactions is an action;
  `Ops` says which a run has, `MaxActs` bounds them. Row locks are guards.
* `changed` holds the rows whose vendor, date, amount or property is no longer what
  their document says. The host may set any of these (`UPDATABLE_FIELDS`), merging
  takes fields of both rows, a corrected property is written to other rows of that
  vendor (`_retroactive_property_fix`), and with `"rules"` a row is born with the
  property a rule of the host gives it, after it was searched by another. The
  searches compare these fields, so a changed row is found, found as a doubtful
  match, or not found: each is a disjunct of `PersistItem`.
* `doubtful` is history: payments that may be recorded twice because a review was
  asked for, two users' transactions overlapped, the document names no vendor to
  compare by, or the row was made while there was another of that payment that had
  been changed (`BesideChanged`).

| Run | Question |
|---|---|
| `documents` | One user, an invoice and a statement which list one payment, all operations (two of them), timeouts, crashes, unreadable answers: a payment is recorded twice only after a review was asked for or beside a changed row, a document paid from escrow is not billed. |
| `documents_two` | Two users at once, a rule that gives rows another property, a letter with an enclosure, a vague slip, a note without a vendor; an unavailable model, crashes: as above, every listed payment is recorded at the commit, and no document waits for ever. The hosts only upload. |
| `documents_again` | *Violated:* a document that was read is not failed by reading it again. |

Bounds: two documents suffice for a pair of duplicates, and the second user's
documents need ids of their own for enclosures (`Spare`). `MAX_RETRIES` is 3 in the
code and in `documents_two`; `documents` has 2, one retry of each document after a
timeout, as every read after the first meets the same rows. The system may stop when all is handled, so deadlock is not checked.
Fairness (`documents_two`): the worker is scheduled, every started task goes on or
times out, and a retry falls due.

What the runs leave out because it fails: with `escrowRace` (the host marks a
document as paid from escrow while it is being read) `EscrowIsNotBilled` fails;
with `deleteRace` (a row is deleted that an open transaction relies on) and one
`deleteTransaction` in `documents_two`, `NothingIsDropped`. Re-extraction beside a
second user is left to the theorems, and in `documents` to one user. An edit that
makes a row look like one of another payment is not modelled, nor any other
likeness of two payments: `RecordedOnce` is about one payment's rows. Without
`BesideChanged` TLC finds the second record in a few steps: a document is read, the
host corrects the date, and a timeout after the commit or a re-extraction has it
read again; `dedup_service.py:55-64` says so of a copy that was attributed to a
property. Nothing in a row tells that it was changed, and a better document that
does find it replaces it. What a reader of the code may not expect, and the model has:

* `clean_re_extract` deletes no transaction: the extractions go first, and with
  them the link by which the transactions are looked for (`severed`).
* `re_extract_document` finds its own transactions and fails on `uq_txn_doc`
  (the finding); so does a document with two identical items.
* A payment confirmation violates `chk_ext_doc_type` and fails.
* A spreadsheet whose first row is known is soft-deleted as a duplicate;
  `replace_file` keeps the old hash; `cancel_batch` removes re-extracted
  documents for good; taking the escrow mark off does not extract again; a claim
  takes deleted documents too.
* A crash strands a document in `extracting`; the property excepts it by name.

### Proofs: `DocumentExtractionProofs`

For any number of users, documents, files, items and operations of the host.
`PersistItemPersists` says what the storing of one item may do to an open
transaction (roll back, skip, create, mark or replace), and `StepIs` that every
step stores an item, commits, or makes nothing and leaves open transactions be.
The invariants build on these two.

* `TypeCorrect` needs `TypeInv`: a worker handles a document that existed, has a
  transaction open only while it stores items, and makes its rows from listed
  payments of that document's file. What a commit flags, cuts off and links is
  then among the rows it leaves.
* `PaymentsOnce`: `RecordedOnce`, without assumptions, for any edits, merges and
  rules of the host. It says nothing of uncommitted rows; `OnceForEach` states it of
  what each worker *sees*, excusing what that worker has marked or not compared, and
  each pair of which it made one beside a changed other (`Beside`). Such a pair stays
  one, as a row that was changed is so until it is removed; that needs `Apart`: no
  worker makes a row that is stored. What two workers have made of one payment is
  exactly what `Overlaps` notes at the first commit of the two.
* `EscrowIsLeftOut`: `EscrowIsNotBilled` from `NoEscrowRace`. `ReadIsBilled` says
  that what is being read is not paid from escrow; only marking it meanwhile
  breaks it.
* `AllIsRecorded`: `NothingIsDropped` from `NoDeleteRace`. The invariant (`DropInv`)
  says that of each item passed, a row was made, or a row of the same payment is
  visible and relied on; that what is replaced comes from another file and is made
  anew in the same transaction; and that no worker replaces what another has not
  committed. That is why the row an item was dropped for may be replaced by another
  worker, but its replacement is there after that worker's commit.

An earlier version of the model named transactions by item alone. Looking for the
invariant showed that a document without a vendor, extracted again, then ran into
the id of its own first row and failed, where the code makes a second row.

## 7. Rent reminders: `RentReminders`

### What the code does

A sweep and the operator's "send now" queue one row per channel of a plan and a
due date (`insert ... on conflict`, or requeue a failed row), hand it to a mail
or text provider, and mark it. The phone reports by webhook. The watchdog fails
rows nobody has reported on for an hour.

### How the model corresponds

* `row[c]` is the row of a channel; `pass[p]` a sweep or a send now, which stands
  for the message it sends. Reading and writing a row are steps of their own:
  only the insert and the requeue look again when they write.
* `phone` and `events` are texts the phone has not tried yet and its reports, each
  delivered never, once or often; a report names the row, not the try.
* `out` is what has really left; `doubted` the tries given up though they may be
  out: failed by the watchdog, by an error that may hide a success, by a report
  about another try, or by another pass. The last is `MarkOutcome`, which writes an
  error by the id of the row, whoever has requeued it in between.

| Run | Question |
|---|---|
| `reminders` | Two passes of either kind on both channels, crashes, lost answers, a plan that changes: a reminder goes out again only after a try in doubt, what reads sent was sent, and every reminder comes to rest. |
| `reminder_twice` | *Violated:* only the operator's retry sends a reminder that may be out already. |

Bounds: two passes; three on the text channel alone (3.3 million states) and two
with every plan were checked by hand. The deadline of an hour never passes during
one delivery, whose requests time out in seconds. The system stops when the passes
are used up, so deadlock is not checked. Fairness: a live process takes its next
step, time passes, the watchdog's hourly job runs.

Not kept as runs: with two sweeps at once, or a plan that loses a channel
meanwhile, the channels of one reminder go out in different passes; two webhooks
at once, which are not modelled, can step a delivered text back to sent. One step
back is in the model and no property forbids it, as nothing in the code does: the
mark of a delivery that read its row as queued sets a text the phone has confirmed
meanwhile back to `sent_to_phone`. The
alerts to the operator, the computation of due dates and the editing of plans are
not modelled.

### Proofs: `RentRemindersProofs`

`TypeCorrect`, `AgainOnlyInDoubt` (`TwiceOnlyInDoubt`) and `SentReallyWent`
(`SentIsOut`), for any number of passes and without assumptions. A message is
handed over once and reports tell of it truly (`ReportsAreTrue`); an error ends
the try that got it or the try was given up (`ErrorsEndTries`); and only the owner
of a row that has not failed may have its message out, or yet to send, without
having been given up (`OthersGivenUp`). The proof of `ErrorsEndTries` failed at
first, and for a good reason: with four passes the error of one try is written to
the row another pass has requeued and sent (TLC confirms it, in 19 steps). The
property held with the two passes of the run because the model did not count that
try as given up; now it does.

## 8. Rent ledger: `RentLedger`

### What the code does

A tenant's `rent_schedules` bill a whole period, cut to the days of the tenancy
and prorated. Reading the ledger, or saving a schedule, reconciles the
`rent_charges` with the schedules (`_generate_charges_for_schedule`): periods
begun by the date asked for are inserted, changed ones re-truncated, those past
the end removed, waived ones left alone. `allocate` then settles charges with
payments, oldest first, and stores nothing.

### How the model corresponds

* `schedules`, `charges` are the rows; a soft-deleted charge is gone, a
  soft-deleted schedule stays as `deleted`. `Key` tells charges apart: those of a
  schedule by their first day, as the unique index has it, those added by hand by
  a `number` that stands for the id. The index leaves the latter out on purpose,
  and a day may have several that are alike.
* A one-off is given a due date and an amount; the span a host may give it besides
  serves the display only.
* A call is one transaction in its steps: it reads the schedules (`CreateSchedule`,
  `UpdateSchedule` with its `UPDATE` in `UpdateTerms`, `GetLedger`), then their
  charges (`ListForSchedule`), and writes what it decided from both (`Commit`, or
  `RollBack` on the unique index). Others commit in between. The row lock of an
  `UPDATE` serialises saves of one schedule. Reading the charges of all schedules
  is one step; schedules committed after the first read are left to the calls
  that saved them.
* Days, months and amounts are numbers; `NaturalBounds`, `BilledPeriods`,
  `ProratedAmount`, `Allocate` are the code's functions, named by a day of the
  period instead of its index.
* `alone` says that nothing was committed since a call began, `raced` that a
  schedule was saved after the rows it was checked against had changed.

The properties state the ledger day by day and payment by payment, not by the
code's formulas: every billed day is covered by exactly one charge, to the
nearest cent; the charges a ledger shows are listed once each, oldest first, and
the sum of the payments fills them in this order, though the code handles them one
by one and never looks back behind its cursor (`StopsAt`).

`ledger` has two schedules (a monthly and a weekly one, with months of two and
three days and a "week" of two), three end dates, a late fee that may be entered
any number of times, two lists of payments, two calls at once and four edits on
top of the reads. This has a move-in and a move-out inside a
month, an end that moves there and back, a read as of a past date and two saves
at once. Deadlock is checked: a ledger can always be read.

Exceptions the properties name, each of which TLC finds when it is left out:

* Two schedules saved at once pass `_assert_no_overlap` both, and their days are
  charged twice; the comment in `rent_schedule.py:129-140` says why the database
  does not forbid it.
* A deleted schedule keeps its charges *and their* `schedule_id`: it is soft-deleted,
  so the `SET NULL` the docstring of `delete_schedule` relies on never happens. A
  new schedule over the same days charges them again.
* A waiver committed between a save's read of the charges and its write is lost:
  the charge is deleted, and extending the schedule later charges it again.

### Proofs: `RentLedgerProofs`

For any calendar (`MonthFirsts`, `CadenceDays`), any schedules, requests, charges by
hand and amounts, from `ConstantsAssumption` alone:

* The calendar first: every day lies in one period of a cadence, the billed part of
  a period has the days the tenancy has in it, and `ProratedAmount` is their share
  to the nearest cent. Minimal and maximal days are found by
  well-foundedness of `<` on naturals (`LeastOf`, `GreatestOf`), so no
  induction over an operator is needed.
* Then one reconciliation, as a function of the rows read: what it leaves is right
  (`ReconciledIsRight`), covers what is billed (`ReconciledCovers`), is billed
  (`ReconciledIsBilled`), and charges of one schedule don't share a day
  (`RightChargesApart`).
* The inductive invariant: `RowsKept`, what a request has read is still so unless
  it was disturbed; `Plans`, what a request will write is the reconciliation of
  what it read; `Booking`, schedules that were saved undisturbed are apart.
* The theorems: `TypeCorrect`; `LedgerHeals` (an undisturbed request is never
  refused by the unique index, and leaves every schedule billed as it stands);
  `NoDayTwice`; `HistoryIsKept`; `WaivedChargesStay`.

The proofs made one assumption explicit: no request has the name that stands for
"no request" (`None \notin Calls`).

### Proofs: `RentSettlementProofs`

That payments settle the charges oldest first and to the cent (`SettledRight`), for
any number of charges and payments. `SettlementOrder`, `ApplyPayment`, `Allocate` and
the sums are recursive functions, and the library's induction theorems take an
operator as a parameter, which no installed prover instantiates. The proof does
without them:

* `EveryNumber` and `EverySubset` state induction for a *set* `Good` of numbers, or of
  subsets of a finite set. They are proved by way of the least exception
  (`LeastOf`), and a proof that needs them defines its own `Good`.
* `SubsetRecursion` shows that a function defined by removing one element at a time
  exists; without it the `CHOOSE` behind a recursive function says nothing. From it
  follow `OrderIs` (the order lists each charge once, oldest first) and `SumToIs`
  (a sum up to `i` is the sum up to `i - 1` and one more), whichever element the
  definition picks first.
* `Filled` and `Credit` say in closed form what all payments together come to. Applying
  one more payment takes `Filled(order, paid)` to `Filled(order, paid + amount)`
  (`OneCharge` for one charge, `ApplyIs` for all of them), and the cursor from
  `LastPaid(order, paid)`, before which all is full, to
  `LastPaid(order, paid + amount)`, so `AllocateIs` follows
  payment by payment; `Determined` identifies two functions with one recursion.
* `FewEntered` is the invariant the theorem needs: `Schedules` may be infinite, but
  only finitely many have been entered. With `TypeOK` (no two charges of a schedule
  share a first day, and one-offs are numbered up to `MaxEdits`) and `ChargesKept`
  (a charge's schedule has been entered) there are finitely many charges to sort.

`EveryCentPlaced` adds, for any charges and payments, that what the charges have
taken and the credit sum up to what was paid.

Not modelled, as nothing is changed by them: overdue display, labels, the current
period, grace days and notes, and the query that picks the payments.

## 9. What is proved, what is only checked

| | Proved for every value of the constants | Only model-checked |
|---|---|---|
| `ReceiptSend` | type, `ClaimDiscipline`, one email, claim kept, sent means emailed, numbers, documents, filter log, refinement of `SendOnce`, finished is final, fresh claims | a stuck claim is settled |
| `DeviceSession` | type, no phone mistaken, storage follows memory, told the truth, signed out stays out, no session left behind | an ended session is noticed |
| `DocumentExtraction` | type, recorded once, escrow not billed, nothing dropped | every document is handled |
| `ReplySend` | type, one email, true answers, recorded together, heard of the pets, refinement of `SendOnce` | |
| `RentReminders` | type, twice only in doubt, sent is out | every reminder comes to rest |
| `RentLedger` | type, reads heal, days billed once, reads keep history, waivers stand, settled oldest first | |

The right-hand column is liveness under fairness, which is out of the prover's
reach. The three violated properties are shown by TLC.

An assumption in the middle column is a condition on constants, named where the
theorem is stated and given above; each is met by the run that checks the property,
and for each that can fail in practice the text says what happens without it.

## 10. Not modelled

Section 2 lists what comes next. The repository holds some 2 700 implementation
files of ten apps; the modules above cover those subsystems where order,
failure and concurrency decide. Most of the rest edits one row in one
transaction, renders, or computes data, and has no protocol to check. Left out
for good: rendering of PDFs and emails, parsing of feeds and statements, prompts
and answers of the language model, the web frontends, deployment. `PROJECT.json`
lists every part with the reason, and the hazards no property covers.
