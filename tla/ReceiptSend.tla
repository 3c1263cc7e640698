---------------------------- MODULE ReceiptSend ----------------------------
(***************************************************************************)
(* Emailing rent receipts (MyBookkeeper): the pending_rent_receipts row,   *)
(* the requests that run send_receipt on it, and the world they race with: *)
(* the Gmail request on the wire, the mailbox it lands in, the clock that  *)
(* makes a claim stale, the host who dismisses receipts, deletes PDFs,     *)
(* edits addresses and reconnects Gmail, the Gmail sync, and crashes.      *)
(*                                                                         *)
(* An attempt is one call of send_receipt. It generates one Message-ID, so *)
(* the attempt also stands for that Message-ID, for its PDF and for the    *)
(* attachment row of that PDF. A call that ends before it claims the row   *)
(* has generated nothing and its attempt is free to be used again.         *)
(***************************************************************************)
EXTENDS Naturals, FiniteSets

CONSTANTS
    Receipts,         \* rows of pending_rent_receipts, one per transaction
    Attempts,         \* calls of send_receipt that may claim a row
    Accounts,         \* Gmail accounts the organization may connect
    Addresses,        \* email addresses of tenants
    Syncs,            \* runs of the Gmail sync
    Series,           \* (user, year) pairs receipts are numbered in
    SeriesOf,         \* the series of each receipt
    None,             \* SQL NULL
    Legacy,           \* attempts made before sender_gmail_address existed
    FilingIsBounded,  \* TRUE: claim to Gmail's answer fits the stale window
    HeaderKept,       \* TRUE: Gmail leaves the Message-ID header alone
    LogNeverFails,    \* TRUE: record_app_sent_email reaches its commit
    DocumentsStay,    \* TRUE: no receipt is deleted while it is being sent
    AddressesStay,    \* TRUE: no address changes while a receipt goes to it
    MaxConnections    \* bound on the host's (re)connections of Gmail

ASSUME ConstantsAssumption ==
    /\ SeriesOf \in [Receipts -> Series]
    /\ None \notin Receipts \union Attempts \union Accounts \union Addresses
    /\ Legacy \subseteq Attempts
    /\ FilingIsBounded \in BOOLEAN
    /\ HeaderKept \in BOOLEAN
    /\ LogNeverFails \in BOOLEAN
    /\ DocumentsStay \in BOOLEAN
    /\ AddressesStay \in BOOLEAN
    /\ MaxConnections \in Nat

VARIABLES
    row,          \* row[r]: the columns of r that sending reads and writes
    pc,           \* pc[a]: where the call is
    ctx,          \* ctx[a]: its ReceiptSendContext
    aged,         \* Message-IDs whose claim is past the stale window
    number,       \* number[a]: the receipt number a took, 0 before it has one
    lastNumber,   \* rent_receipt_sequences.last_number
    inflight,     \* send requests on their way to Gmail
    mailbox,      \* mailbox[a]: the account a's email is filed in, or None
    attachments,  \* signed_lease_attachments rows of kind rent_receipt
    pdfs,         \* receipt PDFs in storage
    appSent,      \* app-sent messages in email_filter_logs
    ingested,     \* app-sent messages the Gmail sync queued for extraction
    sync,         \* sync[s]: where a run of the Gmail sync is, what it has read
    tenant,       \* tenant[r]: the address r goes to, as of now
    conn          \* the organization's Gmail integration row

vars == <<row, pc, ctx, aged, number, lastNumber, inflight, mailbox,
          attachments, pdfs, appSent, ingested, sync, tenant, conn>>

mailVars == <<inflight, mailbox>>
fileVars == <<attachments, pdfs>>
syncVars == <<appSent, ingested, sync>>
hostVars == <<tenant, conn>>
numberVars == <<number, lastNumber>>

-----------------------------------------------------------------------------
(* The row, its transitions and the calls.                                 *)

Statuses == {"absent", "pending", "sending", "sent", "dismissed"}

RowType == [status : Statuses,
            message : Attempts \union {None},
            sender : Accounts \union {None},
            attachment : Attempts \union {None}]

CtxType == [receipt : Receipts \union {None},
            account : Accounts \union {None},
            to : Addresses \union {None},
            earlier : Attempts \union {None},
            earlierAttachment : Attempts \union {None}]

(* Positions before the claim: the call has generated no Message-ID.       *)
BeforeClaim == {"settling", "recordFound", "markFound", "discarding", "claiming"}

(* Positions from the claim until Gmail's answer.                          *)
Working == {"claimed", "uploaded", "filed", "posting"}

AfterAnswer == {"abandon", "refused", "recording", "marking"}

PCs == {"idle", "done"} \union BeforeClaim \union Working \union AfterAnswer

(* A run of the sync: the connection and the ids it read when it began,    *)
(* what it found in Gmail; sent is history, the emails whose receipts read *)
(* sent when it began.                                                     *)
SyncType == [at : {"idle", "listing", "queueing"},
             account : Accounts \union {None},
             known : SUBSET Attempts,
             found : SUBSET Attempts,
             sent : SUBSET Attempts]

NoSync == [at |-> "idle", account |-> None, known |-> {}, found |-> {}, sent |-> {}]

Context(r, g, e, m, x) == [receipt |-> r, account |-> g, to |-> e,
                           earlier |-> m, earlierAttachment |-> x]

NoContext == Context(None, None, None, None, None)

(* Wrong on purpose: a release writes a status the CHECK constraint lacks. *)
UnclaimedAsOpen(status) ==
    [status |-> IF status = "pending" THEN "open" ELSE status,
     message |-> None, sender |-> None, attachment |-> None]

Unclaimed(status) == [status |-> status, message |-> None,
                      sender |-> None, attachment |-> None]

ClaimedBy(a) == [status |-> "sending", message |-> a,
                 sender |-> ctx[a].account, attachment |-> None]

Emailed(m) == mailbox[m] # None

(* Wrong on purpose: any claim on the row will do. *)
HeldByAnyone(r, m) == row[r].status = "sending"

(* The WHERE clause every write of a claim holder carries.                 *)
HeldBy(r, m) == row[r].status = "sending" /\ row[r].message = m

(* Wrong on purpose: every claim may be settled at once. *)
StaleAtOnce(r) == TRUE

IsSendClaimStale(r) == row[r].message \in aged

(* Wrong on purpose: the connected mailbox answers for every account. *)
AnyGmailAddress(r, g) == TRUE

(* May mailbox g answer for the claim? A claim without an address is       *)
(* settled against whatever account is connected.                          *)
SameGmailAddress(r, g) == row[r].sender \in {None, g}

(* Wrong on purpose: the sequence's upsert always inserts. *)
NextNumberInserted(s) == 1

NextNumber(s) == lastNumber[s] + 1

(* Release a claim whose email did not go out, and with it the attachment  *)
(* row x and its PDF: the rows in one transaction, the stored file after.  *)
(* Deleting the file is best effort.                                       *)
DiscardAttempt(r, m, x) ==
    \/ /\ HeldBy(r, m)
       /\ row' = [row EXCEPT ![r] = Unclaimed("pending")]
       /\ attachments' = attachments \ {x}
       /\ pdfs' \in {pdfs, IF x \in attachments THEN pdfs \ {x} ELSE pdfs}
    \/ /\ ~ HeldBy(r, m)
       /\ UNCHANGED <<row, fileVars>>

(* Wrong on purpose: marks the row sent whoever holds it. *)
MarkSentAnyway(r, m) == row' = [row EXCEPT ![r].status = "sent"]

MarkSentIfClaimed(r, m) ==
    row' = IF HeldBy(r, m) THEN [row EXCEPT ![r].status = "sent"] ELSE row

(* Best effort: a failure is logged and swallowed.                         *)
RecordAppSent(m) ==
    /\ \/ appSent' = appSent \union {m}
       \/ (~ LogNeverFails) /\ UNCHANGED appSent
    /\ UNCHANGED <<ingested, sync>>

(* Wrong on purpose: any answer reads as "found". *)
AlwaysFoundInGmail(a) == TRUE

(* Wrong on purpose: no second search by the attachment's filename. *)
FoundByMessageIdOnly(a) ==
    /\ Emailed(ctx[a].earlier)
    /\ mailbox[ctx[a].earlier] = ctx[a].account
    /\ HeaderKept

(* What a search of the connected mailbox answers for the earlier attempt: *)
(* by Message-ID, else by the filename of its attachment row among the     *)
(* emails to the address this call has read.                               *)
FoundInGmail(a) ==
    LET m == ctx[a].earlier IN
    /\ Emailed(m)
    /\ mailbox[m] = ctx[a].account
    /\ \/ HeaderKept
       \/ /\ ctx[a].earlierAttachment \in attachments
          /\ ctx[a].to = ctx[m].to

Goto(a, where) == pc' = [pc EXCEPT ![a] = where]

(* The call returns, or raises, having claimed nothing.                    *)
Return(a) ==
    /\ Goto(a, "idle")
    /\ ctx' = [ctx EXCEPT ![a] = NoContext]

-----------------------------------------------------------------------------
(* A legacy claim was taken before the sender's address was recorded, by a *)
(* call long gone; its email is out or not.                                *)
LegacyRow(m) == [status |-> "sending", message |-> m,
                 sender |-> None, attachment |-> None]

Init ==
    /\ row \in [Receipts -> {Unclaimed("absent")} \union {LegacyRow(m) : m \in Legacy}]
    /\ \A r, s \in Receipts : row[r] = row[s] /\ row[r].status = "sending" => r = s
    /\ tenant \in [Receipts -> Addresses]
    /\ ctx = [a \in Attempts |->
                IF \E r \in Receipts : row[r].message = a
                  THEN LET r == CHOOSE r \in Receipts : row[r].message = a
                       IN  Context(r, None, tenant[r], None, None)
                  ELSE NoContext]
    /\ pc = [a \in Attempts |-> IF a \in Legacy THEN "done" ELSE "idle"]
    /\ aged = Legacy
    /\ number = [a \in Attempts |-> 0]
    /\ lastNumber = [s \in Series |-> 0]
    /\ inflight = {}
    /\ mailbox \in [Attempts -> Accounts \union {None}]
    /\ \A a \in Attempts : Emailed(a) => \E r \in Receipts : row[r].message = a
    /\ attachments = {}
    /\ pdfs = {}
    /\ appSent = {}
    /\ ingested = {}
    /\ sync = [s \in Syncs |-> NoSync]
    /\ conn = [account |-> None, ready |-> FALSE, made |-> 0]

-----------------------------------------------------------------------------
(* send_receipt: load and settle.                                          *)

(* Load the row, the tenant's address and the Gmail connection. A row      *)
(* already sent or dismissed, a claim not yet stale, a claim that went     *)
(* through another account, a connection that is missing or refused: all   *)
(* raise and change nothing.                                               *)
LoadContext(a, r) ==
    /\ pc[a] = "idle"
    /\ conn.account # None /\ conn.ready
    /\ \/ /\ row[r].status = "pending"
          /\ ctx' = [ctx EXCEPT ![a] = Context(r, conn.account, tenant[r], None, None)]
          /\ Goto(a, "claiming")
       \/ /\ row[r].status = "sending"
          /\ IsSendClaimStale(r)
          /\ SameGmailAddress(r, conn.account)
          /\ ctx' = [ctx EXCEPT ![a] = Context(r, conn.account, tenant[r],
                                                row[r].message, row[r].attachment)]
          /\ Goto(a, "settling")
    /\ UNCHANGED <<row, aged, numberVars, mailVars, fileVars, syncVars, hostVars>>

SearchGmail(a) ==
    /\ pc[a] = "settling"
    /\ Goto(a, IF FoundInGmail(a) THEN "recordFound" ELSE "discarding")
    /\ UNCHANGED <<row, ctx, aged, numberVars, mailVars, fileVars, syncVars, hostVars>>

(* Wrong on purpose: a found email is marked sent without the app-sent record. *)
RecordFoundSkipped(a) ==
    /\ pc[a] = "recordFound"
    /\ Goto(a, "markFound")
    /\ UNCHANGED <<row, ctx, aged, numberVars, mailVars, fileVars, syncVars, hostVars>>

RecordFound(a) ==
    /\ pc[a] = "recordFound"
    /\ RecordAppSent(ctx[a].earlier)
    /\ Goto(a, "markFound")
    /\ UNCHANGED <<row, ctx, aged, numberVars, mailVars, fileVars, hostVars>>

MarkFound(a) ==
    /\ pc[a] = "markFound"
    /\ MarkSentIfClaimed(ctx[a].receipt, ctx[a].earlier)
    /\ Return(a)
    /\ UNCHANGED <<aged, numberVars, mailVars, fileVars, syncVars, hostVars>>

(* Wrong on purpose: goes on to claim without releasing. *)
DiscardEarlierForgotten(a) ==
    /\ pc[a] = "discarding"
    /\ Goto(a, "claiming")
    /\ UNCHANGED <<row, ctx, aged, numberVars, mailVars, fileVars, syncVars, hostVars>>

(* Not in Gmail: release the stale claim and go on to claim the row, even  *)
(* when the claim was released or settled by someone else meanwhile.       *)
DiscardEarlier(a) ==
    /\ pc[a] = "discarding"
    /\ DiscardAttempt(ctx[a].receipt, ctx[a].earlier, ctx[a].earlierAttachment)
    /\ Goto(a, "claiming")
    /\ UNCHANGED <<ctx, aged, numberVars, mailVars, syncVars, hostVars>>

(* Any failure before the claim: Gmail can't be asked, the database is     *)
(* away, the transaction row is gone, the process dies.                    *)
FailBeforeClaim(a) ==
    /\ pc[a] \in BeforeClaim
    /\ Return(a)
    /\ UNCHANGED <<row, aged, numberVars, mailVars, fileVars, syncVars, hostVars>>

-----------------------------------------------------------------------------
(* send_receipt: claim, file, send, record.                                *)

(* One transaction: the conditional UPDATE and the receipt number.         *)
ClaimForSend(a) ==
    LET r == ctx[a].receipt
        s == SeriesOf[r]
    IN  /\ pc[a] = "claiming"
        /\ row[r].status = "pending"
        /\ row' = [row EXCEPT ![r] = ClaimedBy(a)]
        /\ lastNumber' = [lastNumber EXCEPT ![s] = NextNumber(s)]
        /\ number' = [number EXCEPT ![a] = NextNumber(s)]
        /\ Goto(a, "claimed")
        /\ UNCHANGED <<ctx, aged, mailVars, fileVars, syncVars, hostVars>>

ClaimRefused(a) ==
    /\ pc[a] = "claiming"
    /\ row[ctx[a].receipt].status # "pending"
    /\ Return(a)
    /\ UNCHANGED <<row, aged, numberVars, mailVars, fileVars, syncVars, hostVars>>

UploadPdf(a) ==
    /\ pc[a] = "claimed"
    /\ pdfs' = pdfs \union {a}
    /\ Goto(a, "uploaded")
    /\ UNCHANGED <<row, ctx, aged, numberVars, mailVars, attachments, syncVars, hostVars>>

(* One transaction: the attachment row, and its id on the row if this      *)
(* attempt still holds the claim. A lost claim rolls the insert back.      *)
SetAttemptAttachment(a) ==
    LET r == ctx[a].receipt IN
    /\ pc[a] = "uploaded"
    /\ \/ /\ HeldBy(r, a)
          /\ row' = [row EXCEPT ![r].attachment = a]
          /\ attachments' = attachments \union {a}
          /\ Goto(a, "filed")
       \/ /\ ~ HeldBy(r, a)
          /\ Goto(a, "abandon")
          /\ UNCHANGED <<row, attachments>>
    /\ UNCHANGED <<ctx, aged, numberVars, mailVars, pdfs, syncVars, hostVars>>

(* Rendering, uploading or filing raises (cancellation too).               *)
FilingFails(a) ==
    /\ pc[a] \in {"claimed", "uploaded"}
    /\ Goto(a, "abandon")
    /\ UNCHANGED <<row, ctx, aged, numberVars, mailVars, fileVars, syncVars, hostVars>>

(* Release the claim, then delete the PDF even if releasing failed.        *)
AbandonFiling(a) ==
    /\ pc[a] = "abandon"
    /\ row' \in {row, IF HeldBy(ctx[a].receipt, a)
                        THEN [row EXCEPT ![ctx[a].receipt] = Unclaimed("pending")]
                        ELSE row}
    /\ pdfs' \in {pdfs, pdfs \ {a}}
    /\ Goto(a, "done")
    /\ UNCHANGED <<ctx, aged, numberVars, mailVars, attachments, syncVars, hostVars>>

PostMessage(a) ==
    /\ pc[a] = "filed"
    /\ inflight' = inflight \union {a}
    /\ Goto(a, "posting")
    /\ UNCHANGED <<row, ctx, aged, numberVars, mailbox, fileVars, syncVars, hostVars>>

(* Gmail's answer is the accepted message's id.                            *)
ReceiveSentId(a) ==
    /\ pc[a] = "posting"
    /\ Emailed(a)
    /\ Goto(a, "recording")
    /\ UNCHANGED <<row, ctx, aged, numberVars, mailVars, fileVars, syncVars, hostVars>>

(* 401, 403, another 4xx, a dead refresh token, or no access token at all. *)
SendRefused(a) ==
    /\ pc[a] \in {"filed", "posting"}
    /\ pc[a] = "posting" => a \in inflight
    /\ inflight' = inflight \ {a}
    /\ Goto(a, "refused")
    /\ UNCHANGED <<row, ctx, aged, numberVars, mailbox, fileVars, syncVars, hostVars>>

(* Wrong on purpose: releases the claim but leaves the document. *)
DiscardRefusedKeepingPdf(a) ==
    /\ pc[a] = "refused"
    /\ DiscardAttempt(ctx[a].receipt, a, None)
    /\ Goto(a, "done")
    /\ UNCHANGED <<ctx, aged, numberVars, mailVars, syncVars, hostVars>>

DiscardRefused(a) ==
    /\ pc[a] = "refused"
    /\ DiscardAttempt(ctx[a].receipt, a, a)
    /\ Goto(a, "done")
    /\ UNCHANGED <<ctx, aged, numberVars, mailVars, syncVars, hostVars>>

RecordSent(a) ==
    /\ pc[a] = "recording"
    /\ RecordAppSent(a)
    /\ Goto(a, "marking")
    /\ UNCHANGED <<row, ctx, aged, numberVars, mailVars, fileVars, hostVars>>

MarkSent(a) ==
    /\ pc[a] = "marking"
    /\ MarkSentIfClaimed(ctx[a].receipt, a)
    /\ Goto(a, "done")
    /\ UNCHANGED <<ctx, aged, numberVars, mailVars, fileVars, syncVars, hostVars>>

(* The call ends and leaves the row as it is: Gmail's answer is unknown    *)
(* (5xx, timeout, no id; the request may still be on the wire), a release  *)
(* or the mark fails, or the process dies.                                 *)
EndUnsettled(a) ==
    /\ pc[a] \in Working \union AfterAnswer
    /\ Goto(a, "done")
    /\ UNCHANGED <<row, ctx, aged, numberVars, mailVars, fileVars, syncVars, hostVars>>

-----------------------------------------------------------------------------
(* Gmail (external): a sent message is filed under Sent as it is sent.     *)

GmailAccepts(a) ==
    /\ a \in inflight
    /\ inflight' = inflight \ {a}
    /\ mailbox' = [mailbox EXCEPT ![a] = ctx[a].account]
    /\ UNCHANGED <<row, pc, ctx, aged, numberVars, fileVars, syncVars, hostVars>>

RequestLost(a) ==
    /\ a \in inflight
    /\ inflight' = inflight \ {a}
    /\ UNCHANGED <<row, pc, ctx, aged, numberVars, mailbox, fileVars, syncVars, hostVars>>

(* GMAIL_SEND_CLAIM_STALE_AFTER has passed since m's claim.                *)
ClaimAges(m) ==
    /\ m \notin aged
    /\ \E r \in Receipts : HeldBy(r, m)
    /\ FilingIsBounded => pc[m] \notin Working /\ m \notin inflight
    /\ aged' = aged \union {m}
    /\ UNCHANGED <<row, pc, ctx, numberVars, mailVars, fileVars, syncVars, hostVars>>

-----------------------------------------------------------------------------
(* The host, and the Gmail sync.                                           *)

(* A transaction is attributed to a tenant.                                *)
CreateIdempotent(r) ==
    /\ row[r].status = "absent"
    /\ row' = [row EXCEPT ![r] = Unclaimed("pending")]
    /\ UNCHANGED <<pc, ctx, aged, numberVars, mailVars, fileVars, syncVars, hostVars>>

(* Sending can't settle r: its claim is stale and its mailbox is not the   *)
(* connected one.                                                          *)
SentFromOtherGmail(r) ==
    /\ row[r].status = "sending"
    /\ row[r].sender # None
    /\ IsSendClaimStale(r)
    /\ conn.account # row[r].sender

DismissPendingReceipt(r) ==
    /\ row[r].status = "pending" \/ SentFromOtherGmail(r)
    /\ row' = [row EXCEPT ![r].status = "dismissed"]
    /\ UNCHANGED <<pc, ctx, aged, numberVars, mailVars, fileVars, syncVars, hostVars>>

(* From the load of a request until its claim is settled.                  *)
BeingSent(r) ==
    \/ row[r].status = "sending"
    \/ \E a \in Attempts : ctx[a].receipt = r /\ pc[a] \in BeforeClaim

(* Deleting a lease document; the row's reference is SET NULL.             *)
DeleteAttachment(a) ==
    /\ a \in attachments
    /\ DocumentsStay => ~ BeingSent(ctx[a].receipt)
    /\ attachments' = attachments \ {a}
    /\ pdfs' \in {pdfs, pdfs \ {a}}
    /\ row' = [r \in Receipts |->
                 IF row[r].attachment = a THEN [row[r] EXCEPT !.attachment = None] ELSE row[r]]
    /\ UNCHANGED <<pc, ctx, aged, numberVars, mailVars, syncVars, hostVars>>

UpsertGmail(g) ==
    /\ conn.made < MaxConnections
    /\ conn' = [account |-> g, ready |-> TRUE, made |-> conn.made + 1]
    /\ UNCHANGED <<row, pc, ctx, aged, numberVars, mailVars, fileVars, syncVars, tenant>>

DisconnectGmail ==
    /\ conn.account # None
    /\ conn' = [conn EXCEPT !.account = None, !.ready = FALSE]
    /\ UNCHANGED <<row, pc, ctx, aged, numberVars, mailVars, fileVars, syncVars, tenant>>

(* Google refuses the stored token to any caller, here or elsewhere.       *)
MarkNeedsReauth ==
    /\ conn.ready
    /\ conn' = [conn EXCEPT !.ready = FALSE]
    /\ UNCHANGED <<row, pc, ctx, aged, numberVars, mailVars, fileVars, syncVars, tenant>>

(* What resolve_tenant_email answers for r becomes e: the inquiry the      *)
(* tenant came from is edited, or the payment is given to another tenant.  *)
ChangeTenantEmail(r, e) ==
    /\ tenant[r] # e
    /\ AddressesStay => ~ BeingSent(r)
    /\ tenant' = [tenant EXCEPT ![r] = e]
    /\ UNCHANGED <<row, pc, ctx, aged, numberVars, mailVars, fileVars, syncVars, conn>>

(* The ids the sync passes over: queued before, or in the filter log.      *)
ReadKnownIds == appSent \union ingested

(* One transaction of the sync: it reads the connection and the ids it     *)
(* knows, lists the mailbox, and queues what was listed at its end. A rent *)
(* receipt matches its query.                                              *)
BeginSync(s) ==
    /\ sync[s].at = "idle"
    /\ conn.account # None
    /\ sync' = [sync EXCEPT ![s] =
                  [at |-> "listing", account |-> conn.account, known |-> ReadKnownIds,
                   found |-> {},
                   sent |-> {row[r].message : r \in {q \in Receipts : row[q].status = "sent"}}]]
    /\ UNCHANGED <<row, pc, ctx, aged, numberVars, mailVars, fileVars, appSent, ingested, hostVars>>

ListNewEmails(s) ==
    /\ sync[s].at = "listing"
    /\ sync' = [sync EXCEPT ![s].at = "queueing",
                            ![s].found = {m \in Attempts \ sync[s].known :
                                             mailbox[m] = sync[s].account}]
    /\ UNCHANGED <<row, pc, ctx, aged, numberVars, mailVars, fileVars, appSent, ingested, hostVars>>

(* A message whose parts cannot be fetched is skipped.                     *)
QueueEmails(s) ==
    /\ sync[s].at = "queueing"
    /\ \E S \in SUBSET sync[s].found : ingested' = ingested \union S
    /\ sync' = [sync EXCEPT ![s] = NoSync]
    /\ UNCHANGED <<row, pc, ctx, aged, numberVars, mailVars, fileVars, appSent, hostVars>>

(* Gmail refuses the token, or the process dies: nothing is committed.     *)
SyncFails(s) ==
    /\ sync[s].at \in {"listing", "queueing"}
    /\ sync' = [sync EXCEPT ![s] = NoSync]
    /\ UNCHANGED <<row, pc, ctx, aged, numberVars, mailVars, fileVars, appSent, ingested, hostVars>>

-----------------------------------------------------------------------------
Settle(a) == SearchGmail(a) \/ RecordFound(a) \/ MarkFound(a) \/ DiscardEarlier(a)

Claim(a) == ClaimForSend(a) \/ ClaimRefused(a)

File(a) == UploadPdf(a) \/ SetAttemptAttachment(a) \/ FilingFails(a) \/ AbandonFiling(a)

Send(a) == PostMessage(a) \/ ReceiveSentId(a) \/ SendRefused(a) \/ DiscardRefused(a)

Record(a) == RecordSent(a) \/ MarkSent(a)

Call(a) ==
    \/ \E r \in Receipts : LoadContext(a, r)
    \/ Settle(a) \/ Claim(a) \/ File(a) \/ Send(a) \/ Record(a)
    \/ FailBeforeClaim(a) \/ EndUnsettled(a)

Discover(s) == BeginSync(s) \/ ListNewEmails(s) \/ QueueEmails(s) \/ SyncFails(s)

World ==
    \/ \E a \in Attempts :
         GmailAccepts(a) \/ RequestLost(a) \/ ClaimAges(a) \/ DeleteAttachment(a)
    \/ \E s \in Syncs : Discover(s)
    \/ \E r \in Receipts : CreateIdempotent(r) \/ DismissPendingReceipt(r)
    \/ \E r \in Receipts, e \in Addresses : ChangeTenantEmail(r, e)
    \/ \E g \in Accounts : UpsertGmail(g)
    \/ DisconnectGmail
    \/ MarkNeedsReauth

Next == (\E a \in Attempts : Call(a)) \/ World

Spec == Init /\ [][Next]_vars

-----------------------------------------------------------------------------
(* Properties.                                                             *)

TypeOK ==
    /\ row \in [Receipts -> RowType]
    /\ pc \in [Attempts -> PCs]
    /\ ctx \in [Attempts -> CtxType]
    /\ aged \in SUBSET Attempts
    /\ number \in [Attempts -> Nat]
    /\ lastNumber \in [Series -> Nat]
    /\ inflight \in SUBSET Attempts
    /\ mailbox \in [Attempts -> Accounts \union {None}]
    /\ attachments \in SUBSET Attempts
    /\ pdfs \in SUBSET Attempts
    /\ appSent \in SUBSET Attempts
    /\ ingested \in SUBSET Attempts
    /\ sync \in [Syncs -> SyncType]
    /\ tenant \in [Receipts -> Addresses]
    /\ conn \in [account : Accounts \union {None}, ready : BOOLEAN, made : Nat]

(* send_receipt "never emails the tenant twice": of all the attempts at a  *)
(* receipt, over every retry, crash and late answer, one email at most is  *)
(* in any mailbox.                                                         *)
AtMostOneEmail ==
    \A a, b \in Attempts :
        Emailed(a) /\ Emailed(b) /\ ctx[a].receipt = ctx[b].receipt => a = b

(* An email that is out, or may yet be, keeps its claim: the row still     *)
(* names that attempt, so nothing offers the receipt for sending again     *)
(* before Gmail has been asked about this very email.                      *)
EmailKeepsItsClaim ==
    \A a \in Attempts :
        /\ a \in inflight => HeldBy(ctx[a].receipt, a)
        /\ Emailed(a) => /\ row[ctx[a].receipt].message = a
                         /\ row[ctx[a].receipt].status \in {"sending", "sent", "dismissed"}

(* A receipt reads "sent" only when its email is in the mailbox, whether   *)
(* its own attempt or a later one settling it wrote the status.            *)
SentMeansEmailed ==
    \A r \in Receipts : row[r].status = "sent" => Emailed(row[r].message)

(* No two attempts of a series share a receipt number, released or not     *)
(* ("rather than risk two receipts sharing a number").                     *)
NumbersUnique ==
    \A a, b \in Attempts :
        /\ a # b
        /\ number[a] # 0
        /\ number[a] = number[b]
        => SeriesOf[ctx[a].receipt] # SeriesOf[ctx[b].receipt]

(* A receipt listed among the lease's documents is the one its row points  *)
(* at, and its PDF is stored: no attempt that was abandoned, refused or    *)
(* settled as unsent leaves a document behind.                             *)
DocumentsBelong ==
    \A a \in attachments :
        a \in pdfs /\ row[ctx[a].receipt].attachment = a

(* The app-sent record comes before the row is marked sent, and the sync   *)
(* reads the log before it asks Gmail: a receipt that reads "sent" is not  *)
(* among what a sync that begins from then on finds to queue. One that had *)
(* begun may still queue it.                                               *)
SentIsFiltered ==
    /\ \A r \in Receipts : row[r].status = "sent" => row[r].message \in appSent
    /\ \A s \in Syncs : sync[s].sent \intersect sync[s].found = {}

(* The discipline the claim imposes, and what makes the rest true. An      *)
(* attempt that has not claimed has left no trace; one that is working     *)
(* toward Gmail's answer, or whose request is on the wire, holds its row   *)
(* and is not stale; an email that is out is still the row's; and a        *)
(* request that settles an earlier attempt does so in the mailbox that     *)
(* attempt went through, after its fate is known for good.                 *)
NoTraceBeforeClaim ==
    \A a \in Attempts :
        pc[a] \in {"idle"} \union BeforeClaim =>
            /\ a \notin aged \union inflight
            /\ ~ Emailed(a)
            /\ \A r \in Receipts : row[r].message # a

ContextLoaded ==
    \A a \in Attempts :
        pc[a] # "idle" => ctx[a].receipt \in Receipts /\ ctx[a].account \in Accounts

WorkingHolds ==
    \A a \in Attempts :
        /\ pc[a] \in Working => a \notin aged /\ HeldBy(ctx[a].receipt, a)
        /\ a \in inflight => /\ pc[a] \in {"posting", "done"}
                             /\ a \notin aged
                             /\ ~ Emailed(a)
                             /\ HeldBy(ctx[a].receipt, a)

EmailIsClaimed ==
    \A a \in Attempts :
        Emailed(a) => /\ pc[a] \in {"posting", "recording", "marking", "done"}
                      /\ mailbox[a] = ctx[a].account
                      /\ row[ctx[a].receipt].message = a
                      /\ row[ctx[a].receipt].status \in {"sending", "sent", "dismissed"}

RowNamesItsAttempt ==
    \A r \in Receipts :
        /\ row[r].status \in {"absent", "pending"} => row[r].message = None
        /\ row[r].status \in {"sending", "sent"} => row[r].message \in Attempts
        /\ row[r].message # None =>
              /\ ctx[row[r].message].receipt = r
              /\ ctx[row[r].message].account = row[r].sender
        /\ row[r].status = "sent" => Emailed(row[r].message)

SettlingIsDecided ==
    \A a \in Attempts :
        /\ pc[a] \in BeforeClaim \ {"claiming"} =>
              /\ ctx[a].earlier \in aged
              /\ ctx[ctx[a].earlier].receipt = ctx[a].receipt
              /\ ctx[ctx[a].earlier].account = ctx[a].account
        /\ pc[a] = "discarding" => ~ Emailed(ctx[a].earlier)
        /\ pc[a] \in {"recordFound", "markFound"} => Emailed(ctx[a].earlier)
        /\ pc[a] \in {"recording", "marking"} => Emailed(a)

(* The address a claim's email goes to is the one a settling call reads.   *)
AddressKept ==
    AddressesStay =>
        /\ \A r \in Receipts :
             row[r].status = "sending" => ctx[row[r].message].to = tenant[r]
        /\ \A a \in Attempts :
             pc[a] \in BeforeClaim =>
                 /\ ctx[a].to = tenant[ctx[a].receipt]
                 /\ pc[a] # "claiming" => ctx[ctx[a].earlier].to = ctx[a].to

ClaimDiscipline ==
    /\ NoTraceBeforeClaim
    /\ ContextLoaded
    /\ WorkingHolds
    /\ EmailIsClaimed
    /\ RowNamesItsAttempt
    /\ SettlingIsDecided
    /\ AddressKept

(* A receipt that was sent or dismissed stays so, with the Message-ID it   *)
(* was sent under, whatever requests that read it earlier do next.         *)
FinishedIsFinal ==
    [][\A r \in Receipts :
         row[r].status \in {"sent", "dismissed"} =>
             /\ row'[r].status = row[r].status
             /\ row'[r].message = row[r].message]_vars

(* Until a claim is stale only the attempt that took it ends it.           *)
FreshClaimIsExclusive ==
    [][\A r \in Receipts, m \in Attempts :
         HeldBy(r, m) /\ m \notin aged /\ ~ HeldBy(r, m)' => pc'[m] # pc[m]]_vars

-----------------------------------------------------------------------------
(* Each receipt is sent once, in the sense of SendOnce.                    *)
AbstractState(r) ==
    CASE row[r].status = "absent"    -> "absent"
      [] row[r].status = "pending"   -> "open"
      [] row[r].status = "sending"   -> "trying"
      [] row[r].status = "sent"      -> "sent"
      [] row[r].status = "dismissed" -> "dropped"

AbstractMail(r) == {a \in Attempts : Emailed(a) /\ ctx[a].receipt = r}

Once == INSTANCE SendOnce WITH
            Items <- Receipts,
            Messages <- Attempts,
            state <- [r \in Receipts |-> AbstractState(r)],
            mail <- [r \in Receipts |-> AbstractMail(r)]

SendsOnce == Once!Spec

-----------------------------------------------------------------------------
(* What the scheduler and the host owe: a running call takes its next step *)
(* and is not always unlucky, Gmail answers or the request times out, time *)
(* passes, and the host retries a stuck receipt.                           *)
Fairness ==
    /\ \A a \in Attempts \ Legacy :
         /\ WF_vars(Claim(a) \/ File(a) \/ Send(a) \/ Record(a) \/ EndUnsettled(a))
         /\ SF_vars(SearchGmail(a)) /\ SF_vars(RecordFound(a) \/ DiscardEarlier(a))
         /\ SF_vars(MarkFound(a))
    /\ WF_vars(\E a \in Attempts : ClaimAges(a) \/ GmailAccepts(a) \/ RequestLost(a))
    /\ \A r \in Receipts : SF_vars(\E a \in Attempts : LoadContext(a, r) /\ row[r].status = "sending")

FairSpec == Spec /\ Fairness

(* A claim no attempt is working on any more does not stay: while the host *)
(* keeps retrying through the account that took it, it becomes sent or is  *)
(* released.                                                               *)
StuckIsSettled ==
    \A r \in Receipts :
        row[r].status = "sending" ~> \/ row[r].status # "sending"
                                    \/ \A a \in Attempts : pc[a] = "done"
                                    \/ ~ SameGmailAddress(r, conn.account) \/ ~ conn.ready
=============================================================================
