------------------------- MODULE ReceiptSendProofs -------------------------
(***************************************************************************)
(* What TLAPS proves of ReceiptSend, for any number of receipts, attempts, *)
(* accounts and reconnects.                                                *)
(***************************************************************************)
EXTENDS ReceiptSend, TLAPS

-----------------------------------------------------------------------------
(* Types.  TypeOK is not inductive alone: a call that records or settles   *)
(* reads its context, so the context has to be loaded by then, and a claim *)
(* that is settled has to name an attempt.                                 *)

Busy == BeforeClaim \union Working \union AfterAnswer

RowsTyped ==
    /\ row \in [Receipts -> RowType]
    /\ \A r \in Receipts :
         row[r].status \in {"sending", "sent"} => row[r].message \in Attempts

CallsTyped ==
    /\ pc \in [Attempts -> PCs]
    /\ ctx \in [Attempts -> CtxType]
    /\ \A a \in Attempts :
         /\ pc[a] \in Busy => ctx[a].receipt \in Receipts /\ ctx[a].account \in Accounts
         /\ pc[a] \in BeforeClaim \ {"claiming"} => ctx[a].earlier \in Attempts

TypeInv == TypeOK /\ RowsTyped /\ CallsTyped

LEMMA TypeInit == Init => TypeInv
<1> SUFFICES ASSUME Init PROVE TypeInv
  OBVIOUS
<1> USE ConstantsAssumption
<1>1. row \in [Receipts -> RowType]
  <2>1. Unclaimed("absent") \in RowType
    BY DEF Unclaimed, RowType, Statuses
  <2>2. \A m \in Legacy : LegacyRow(m) \in RowType
    BY DEF LegacyRow, RowType, Statuses
  <2> QED
    BY <2>1, <2>2 DEF Init
<1>2. ctx \in [Attempts -> CtxType]
  <2>1. /\ \A r \in Receipts : Context(r, None, tenant[r], None, None) \in CtxType
        /\ NoContext \in CtxType
    BY DEF Init, NoContext, Context, CtxType
  <2>2. ASSUME NEW a \in Attempts, \E r \in Receipts : row[r].message = a
        PROVE  (CHOOSE r \in Receipts : row[r].message = a) \in Receipts
    BY <2>2
  <2> QED
    BY <2>1, <2>2 DEF Init
<1>3. \A a \in Attempts : pc[a] \in {"idle", "done"}
  BY DEF Init
<1>4. \A r \in Receipts : row[r].status \in {"sending", "sent"} => row[r].message \in Attempts
  BY DEF Init, Unclaimed, LegacyRow
<1>5. TypeOK
  <2>1. NoSync \in SyncType
    BY DEF NoSync, SyncType
  <2> QED
    BY <1>1, <1>2, <2>1 DEF Init, TypeOK, PCs
<1> QED
  BY <1>1, <1>2, <1>3, <1>4, <1>5
  DEF TypeInv, TypeOK, RowsTyped, CallsTyped, Busy, BeforeClaim, Working, AfterAnswer

(* What a claim holder may write to a row keeps the row's type, and a row  *)
(* that is "sending" afterwards names an attempt.                          *)
LEMMA RowWrites ==
    ASSUME RowsTyped, NEW r \in Receipts, NEW m
    PROVE  /\ MarkSentIfClaimed(r, m) => RowsTyped'
           /\ row' = [row EXCEPT ![r] = Unclaimed("pending")] => RowsTyped'
           /\ row' = [row EXCEPT ![r].status = "dismissed"] => RowsTyped'
           /\ UNCHANGED row => RowsTyped'
<1> USE DEF RowsTyped
<1>1. ASSUME NEW status \in {"sent", "dismissed"}, row' = [row EXCEPT ![r].status = status],
             status = "sent" => row[r].status = "sending"
      PROVE  RowsTyped'
  BY <1>1 DEF RowType, Statuses
<1>2. ASSUME row' = [row EXCEPT ![r] = Unclaimed("pending")] PROVE RowsTyped'
  BY <1>2 DEF RowType, Statuses, Unclaimed
<1>3. ASSUME UNCHANGED row PROVE RowsTyped'
  BY <1>3
<1> QED
  BY <1>1, <1>2, <1>3 DEF MarkSentIfClaimed, HeldBy

(* How a call moves: to another position with its context as it was, or    *)
(* back to "idle" without one.                                             *)
LEMMA CallMoves ==
    ASSUME CallsTyped, NEW a \in Attempts
    PROVE  /\ \A to \in PCs :
                /\ to \in BeforeClaim \ {"claiming"} => pc[a] \in BeforeClaim \ {"claiming"}
                /\ to \in Busy => pc[a] \in Busy
                /\ Goto(a, to)
                /\ UNCHANGED ctx
                => CallsTyped'
           /\ Return(a) => CallsTyped'
<1> USE DEF CallsTyped, Goto
<1>1. ASSUME NEW to \in PCs, Goto(a, to), UNCHANGED ctx,
             to \in BeforeClaim \ {"claiming"} => pc[a] \in BeforeClaim \ {"claiming"},
             to \in Busy => pc[a] \in Busy
      PROVE  CallsTyped'
  BY <1>1
<1>2. ASSUME Return(a) PROVE CallsTyped'
  <2>1. NoContext \in CtxType
    BY DEF NoContext, Context, CtxType
  <2>2. "idle" \in PCs \ Busy /\ "idle" \notin BeforeClaim
    BY DEF PCs, Busy, BeforeClaim, Working, AfterAnswer
  <2> QED
    BY <1>2, <2>1, <2>2 DEF Return
<1> QED
  BY <1>1, <1>2

LEMMA TypeCall ==
    ASSUME TypeInv, NEW a \in Attempts, Call(a)
    PROVE  TypeInv'
<1> USE ConstantsAssumption
<1> USE DEF TypeInv, TypeOK, numberVars, mailVars, fileVars, syncVars, hostVars
<1>a. /\ PCs = {"idle", "done"} \union Busy
      /\ BeforeClaim = {"settling", "recordFound", "markFound", "discarding", "claiming"}
      /\ Busy = BeforeClaim \union {"claimed", "uploaded", "filed", "posting",
                                    "abandon", "refused", "recording", "marking"}
  BY DEF PCs, Busy, BeforeClaim, Working, AfterAnswer
<1>b. pc[a] \in Busy => ctx[a].receipt \in Receipts
  BY DEF CallsTyped
<1>1. ASSUME NEW r \in Receipts, LoadContext(a, r) PROVE TypeInv'
  <2>1. Context(r, conn.account, tenant[r], None, None) \in CtxType
    BY DEF Context, CtxType
  <2>2. row[r].status = "sending" =>
            Context(r, conn.account, tenant[r], row[r].message, row[r].attachment) \in CtxType
    BY DEF Context, CtxType, RowType
  <2>3. CallsTyped'
    BY <1>1, <1>a, <2>1, <2>2 DEF LoadContext, CallsTyped, RowsTyped, Goto, Context
  <2> QED
    BY <1>1, <2>3 DEF LoadContext, CallsTyped, RowsTyped
<1>2. CASE SearchGmail(a)
  <2>1. CallsTyped'
    BY <1>2, <1>a, CallMoves DEF SearchGmail
  <2> QED
    BY <1>2, <2>1 DEF SearchGmail, CallsTyped, RowsTyped
<1>3. CASE RecordFound(a)
  <2>1. CallsTyped' /\ ctx[a].earlier \in Attempts
    BY <1>3, <1>a, CallMoves DEF RecordFound, CallsTyped
  <2> QED
    BY <1>3, <2>1 DEF RecordFound, RecordAppSent, CallsTyped, RowsTyped
<1>4. CASE MarkFound(a)
  <2>1. CallsTyped' /\ RowsTyped'
    BY <1>4, <1>a, <1>b, CallMoves, RowWrites DEF MarkFound
  <2> QED
    BY <1>4, <2>1 DEF MarkFound, CallsTyped, RowsTyped
<1>5. CASE DiscardEarlier(a)
  <2>1. CallsTyped' /\ RowsTyped'
    BY <1>5, <1>a, <1>b, CallMoves, RowWrites DEF DiscardEarlier, DiscardAttempt
  <2> QED
    BY <1>5, <2>1 DEF DiscardEarlier, DiscardAttempt, CallsTyped, RowsTyped
<1>6. CASE ClaimForSend(a)
  <2>1. CallsTyped' /\ ctx[a].receipt \in Receipts /\ ctx[a].account \in Accounts
    BY <1>6, <1>a, CallMoves DEF ClaimForSend, CallsTyped
  <2>2. ClaimedBy(a) \in RowType /\ ClaimedBy(a).message = a
    BY <2>1 DEF ClaimedBy, RowType, Statuses
  <2>3. RowsTyped'
    BY <1>6, <2>1, <2>2 DEF ClaimForSend, RowsTyped
  <2>4. lastNumber' \in [Series -> Nat] /\ number' \in [Attempts -> Nat]
    <3>1. SeriesOf[ctx[a].receipt] \in Series
      BY <2>1 DEF ConstantsAssumption
    <3>2. NextNumber(SeriesOf[ctx[a].receipt]) \in Nat
      BY <3>1 DEF NextNumber
    <3> QED
      BY <1>6, <3>1, <3>2 DEF ClaimForSend
  <2> QED
    BY <1>6, <2>1, <2>3, <2>4 DEF ClaimForSend, CallsTyped, RowsTyped
<1>7. CASE ClaimRefused(a) \/ FailBeforeClaim(a)
  <2>1. CallsTyped' /\ UNCHANGED row
    BY <1>7, CallMoves DEF ClaimRefused, FailBeforeClaim
  <2> QED
    BY <1>7, <2>1 DEF ClaimRefused, FailBeforeClaim, CallsTyped, RowsTyped
<1>8. CASE UploadPdf(a) \/ FilingFails(a)
  <2>1. CallsTyped' /\ UNCHANGED row
    BY <1>8, <1>a, CallMoves DEF UploadPdf, FilingFails
  <2> QED
    BY <1>8, <2>1 DEF UploadPdf, FilingFails, CallsTyped, RowsTyped
<1>9. CASE SetAttemptAttachment(a)
  <2>1. CallsTyped'
    BY <1>9, <1>a, CallMoves DEF SetAttemptAttachment
  <2>2. RowsTyped'
    <3>1. ctx[a].receipt \in Receipts
      BY <1>9, <1>a, <1>b DEF SetAttemptAttachment
    <3> DEFINE filed == [row[ctx[a].receipt] EXCEPT !.attachment = a]
    <3>2. /\ filed \in RowType
          /\ filed.message = row[ctx[a].receipt].message
          /\ filed.status = row[ctx[a].receipt].status
      BY <3>1 DEF RowType, RowsTyped
    <3>3. row' = row \/ row' = [row EXCEPT ![ctx[a].receipt] = filed]
      BY <1>9 DEF SetAttemptAttachment
    <3> HIDE DEF filed
    <3> QED
      BY <3>1, <3>2, <3>3 DEF RowsTyped
  <2> QED
    BY <1>9, <2>1, <2>2 DEF SetAttemptAttachment, CallsTyped, RowsTyped
<1>10. CASE AbandonFiling(a)
  <2>1. CallsTyped' /\ RowsTyped'
    BY <1>10, <1>a, <1>b, CallMoves, RowWrites DEF AbandonFiling
  <2> QED
    BY <1>10, <2>1 DEF AbandonFiling, CallsTyped, RowsTyped
<1>11. CASE PostMessage(a) \/ ReceiveSentId(a) \/ SendRefused(a) \/ EndUnsettled(a)
  <2>1. CallsTyped' /\ UNCHANGED row
    BY <1>11, <1>a, CallMoves DEF PostMessage, ReceiveSentId, SendRefused, EndUnsettled, Working, AfterAnswer
  <2> QED
    BY <1>11, <2>1 DEF PostMessage, ReceiveSentId, SendRefused, EndUnsettled, CallsTyped, RowsTyped
<1>12. CASE DiscardRefused(a)
  <2>1. CallsTyped' /\ RowsTyped'
    BY <1>12, <1>a, <1>b, CallMoves, RowWrites DEF DiscardRefused, DiscardAttempt
  <2> QED
    BY <1>12, <2>1 DEF DiscardRefused, DiscardAttempt, CallsTyped, RowsTyped
<1>13. CASE RecordSent(a)
  <2>1. CallsTyped' /\ UNCHANGED row
    BY <1>13, <1>a, CallMoves DEF RecordSent
  <2> QED
    BY <1>13, <2>1 DEF RecordSent, RecordAppSent, CallsTyped, RowsTyped
<1>14. CASE MarkSent(a)
  <2>1. CallsTyped' /\ RowsTyped'
    BY <1>14, <1>a, <1>b, CallMoves, RowWrites DEF MarkSent
  <2> QED
    BY <1>14, <2>1 DEF MarkSent, CallsTyped, RowsTyped
<1> QED
  BY <1>1, <1>2, <1>3, <1>4, <1>5, <1>6, <1>7, <1>8, <1>9, <1>10, <1>11, <1>12, <1>13, <1>14
  DEF Call, Settle, Claim, File, Send, Record

(* The sync's runs keep their type, and a run touches nothing else of the  *)
(* system than the queue.                                                  *)
LEMMA SyncTypes ==
    ASSUME TypeInv, NEW s \in Syncs, Discover(s)
    PROVE  sync' \in [Syncs -> SyncType] /\ ingested' \in SUBSET Attempts
<1> USE ConstantsAssumption
<1> USE DEF TypeInv, TypeOK, SyncType
<1>1. CASE BeginSync(s)
  <2>1. {row[r].message : r \in {q \in Receipts : row[q].status = "sent"}} \in SUBSET Attempts
    BY DEF RowsTyped
  <2> QED
    BY <1>1, <2>1 DEF BeginSync, ReadKnownIds
<1>2. CASE ListNewEmails(s)
  <2> DEFINE found == {m \in Attempts \ sync[s].known : mailbox[m] = sync[s].account}
  <2>1. found \in SUBSET Attempts
    OBVIOUS
  <2>2. /\ sync' = [sync EXCEPT ![s] = [sync[s] EXCEPT !.at = "queueing", !.found = found]]
        /\ UNCHANGED ingested
    BY <1>2 DEF ListNewEmails
  <2>3. [sync[s] EXCEPT !.at = "queueing", !.found = found] \in SyncType
    <3> HIDE DEF found, TypeInv, TypeOK
    <3>1. sync[s] \in SyncType
      BY DEF TypeInv, TypeOK
    <3> QED
      BY <2>1, <3>1
  <2> HIDE DEF found, SyncType
  <2> QED
    BY <2>2, <2>3
<1>3. CASE QueueEmails(s) \/ SyncFails(s)
  BY <1>3 DEF QueueEmails, SyncFails, NoSync
<1> QED
  BY <1>1, <1>2, <1>3 DEF Discover

LEMMA DiscoverKeeps ==
    ASSUME NEW s \in Syncs, Discover(s)
    PROVE  UNCHANGED <<row, pc, ctx, aged, numberVars, mailVars, fileVars, appSent, hostVars>>
BY DEF Discover, BeginSync, ListNewEmails, QueueEmails, SyncFails

LEMMA TypeWorld ==
    ASSUME TypeInv, World
    PROVE  TypeInv'
<1> USE DEF TypeInv, TypeOK, numberVars, mailVars, fileVars, syncVars, hostVars
<1>1. ASSUME NEW a \in Attempts, GmailAccepts(a) \/ RequestLost(a) PROVE TypeInv'
  BY <1>1 DEF GmailAccepts, RequestLost, CtxType, RowsTyped, CallsTyped
<1>2. ASSUME NEW a \in Attempts, ClaimAges(a) PROVE TypeInv'
  BY <1>2 DEF ClaimAges, RowsTyped, CallsTyped
<1>3. ASSUME NEW a \in Attempts, DeleteAttachment(a) PROVE TypeInv'
  <2>1. RowsTyped'
    BY <1>3 DEF DeleteAttachment, RowsTyped, RowType
  <2> QED
    BY <1>3, <2>1 DEF DeleteAttachment, RowsTyped, CallsTyped
<1>4. ASSUME NEW r \in Receipts, CreateIdempotent(r) \/ DismissPendingReceipt(r) PROVE TypeInv'
  <2>1. RowsTyped'
    BY <1>4, RowWrites DEF CreateIdempotent, DismissPendingReceipt
  <2> QED
    BY <1>4, <2>1 DEF CreateIdempotent, DismissPendingReceipt, RowsTyped, CallsTyped
<1>5. ASSUME NEW g \in Accounts, UpsertGmail(g) PROVE TypeInv'
  BY <1>5 DEF UpsertGmail, RowsTyped, CallsTyped
<1>6. CASE DisconnectGmail \/ MarkNeedsReauth
  BY <1>6 DEF DisconnectGmail, MarkNeedsReauth, RowsTyped, CallsTyped
<1>7. ASSUME NEW r \in Receipts, NEW e \in Addresses, ChangeTenantEmail(r, e) PROVE TypeInv'
  BY <1>7 DEF ChangeTenantEmail, RowsTyped, CallsTyped
<1>8. ASSUME NEW s \in Syncs, Discover(s) PROVE TypeInv'
  <2>1. sync' \in [Syncs -> SyncType] /\ ingested' \in SUBSET Attempts
    BY <1>8, SyncTypes
  <2>2. UNCHANGED <<row, pc, ctx, aged, numberVars, mailVars, fileVars, appSent, hostVars>>
    BY <1>8, DiscoverKeeps
  <2> QED
    BY <2>1, <2>2 DEF RowsTyped, CallsTyped
<1> QED
  BY <1>1, <1>2, <1>3, <1>4, <1>5, <1>6, <1>7, <1>8 DEF World

LEMMA TypeStep == TypeInv /\ [Next]_vars => TypeInv'
<1> SUFFICES ASSUME TypeInv, [Next]_vars PROVE TypeInv'
  OBVIOUS
<1>1. CASE UNCHANGED vars
  BY <1>1 DEF TypeInv, TypeOK, RowsTyped, CallsTyped, vars, numberVars, mailVars, fileVars, syncVars, hostVars
<1> QED
  BY <1>1, TypeCall, TypeWorld DEF Next

(* Every variable keeps its type, for every value of the constants.        *)
THEOREM TypeCorrect == Spec => []TypeOK
<1>1. TypeInv => TypeOK
  BY DEF TypeInv
<1> QED
  BY TypeInit, TypeStep, <1>1, PTL DEF Spec

-----------------------------------------------------------------------------
(* Steps of a call are its own, and a call past its claim stays past it    *)
(* with the context it claimed in.                                         *)
LEMMA OnlyItsCall ==
    ASSUME TypeInv, [Next]_vars, NEW a \in Attempts
    PROVE  Call(a) \/ (pc'[a] = pc[a] /\ ctx'[a] = ctx[a])
<1> USE DEF TypeInv, TypeOK, Goto
<1>1. ASSUME NEW b \in Attempts, b # a, Call(b) PROVE pc'[a] = pc[a] /\ ctx'[a] = ctx[a]
  <2>1. ASSUME NEW r \in Receipts, LoadContext(b, r) PROVE pc'[a] = pc[a] /\ ctx'[a] = ctx[a]
    BY <1>1, <2>1 DEF LoadContext
  <2>2. CASE SearchGmail(b) \/ RecordFound(b) \/ DiscardEarlier(b) \/ ClaimForSend(b)
    BY <1>1, <2>2 DEF SearchGmail, RecordFound, DiscardEarlier, ClaimForSend
  <2>3. CASE MarkFound(b) \/ ClaimRefused(b) \/ FailBeforeClaim(b)
    BY <1>1, <2>3 DEF MarkFound, ClaimRefused, FailBeforeClaim, Return
  <2>4. CASE UploadPdf(b) \/ SetAttemptAttachment(b) \/ FilingFails(b) \/ AbandonFiling(b)
    BY <1>1, <2>4 DEF UploadPdf, SetAttemptAttachment, FilingFails, AbandonFiling
  <2>5. CASE PostMessage(b) \/ ReceiveSentId(b) \/ SendRefused(b) \/ DiscardRefused(b)
             \/ RecordSent(b) \/ MarkSent(b) \/ EndUnsettled(b)
    BY <1>1, <2>5 DEF PostMessage, ReceiveSentId, SendRefused, DiscardRefused, RecordSent,
                      MarkSent, EndUnsettled
  <2> QED
    BY <1>1, <2>1, <2>2, <2>3, <2>4, <2>5 DEF Call, Settle, Claim, File, Send, Record
<1>2. CASE World \/ UNCHANGED vars
  BY <1>2 DEF World, vars, GmailAccepts, RequestLost, ClaimAges, DeleteAttachment, ChangeTenantEmail,
              Discover, BeginSync, ListNewEmails, QueueEmails, SyncFails,
              CreateIdempotent, DismissPendingReceipt, UpsertGmail, DisconnectGmail, MarkNeedsReauth
<1> QED
  BY <1>1, <1>2 DEF Next

PastClaim(a) == pc[a] \notin {"idle"} \union BeforeClaim

LEMMA PastClaimStays ==
    ASSUME TypeInv, [Next]_vars, NEW a \in Attempts, PastClaim(a)
    PROVE  PastClaim(a)' /\ ctx'[a] = ctx[a]
<1> USE DEF TypeInv, TypeOK, Goto, PastClaim, BeforeClaim
<1>1. CASE Call(a)
  <2>1. CASE UploadPdf(a) \/ SetAttemptAttachment(a) \/ FilingFails(a) \/ AbandonFiling(a)
    BY <2>1 DEF UploadPdf, SetAttemptAttachment, FilingFails, AbandonFiling
  <2>2. CASE PostMessage(a) \/ ReceiveSentId(a) \/ SendRefused(a) \/ DiscardRefused(a)
             \/ RecordSent(a) \/ MarkSent(a) \/ EndUnsettled(a)
    BY <2>2 DEF PostMessage, ReceiveSentId, SendRefused, DiscardRefused, RecordSent,
                MarkSent, EndUnsettled
  <2> QED
    BY <1>1, <2>1, <2>2
    DEF Call, Settle, Claim, File, Send, Record, LoadContext, SearchGmail, RecordFound,
        DiscardEarlier, ClaimForSend, MarkFound, ClaimRefused, FailBeforeClaim
<1> QED
  BY <1>1, OnlyItsCall

-----------------------------------------------------------------------------
(* The claim discipline.  Three assumptions on the world: filing and the   *)
(* Gmail request end inside the stale window; a sent email can be found,   *)
(* because Gmail leaves its Message-ID alone or because its document and   *)
(* its address stay what they were until the claim is settled; and every   *)
(* claim on record names the account it went through.                      *)
Assumptions ==
    /\ FilingIsBounded
    /\ HeaderKept \/ (DocumentsStay /\ AddressesStay)
    /\ Legacy = {}

(* The documents.  The claim discipline needs them where an email is found *)
(* by its attachment's name, and they need the claim discipline, so the    *)
(* two are proved together.                                                *)

(* The document of a row is its claim's.                                   *)
DocumentIsClaims ==
    \A r \in Receipts : row[r].attachment # None => row[r].attachment = row[r].message

(* A document is filed after its PDF is stored, and before the request.    *)
FiledInOrder ==
    \A a \in Attempts :
        /\ pc[a] \in {"idle"} \union BeforeClaim \union {"claimed", "uploaded", "abandon"} =>
               a \notin attachments
        /\ pc[a] = "uploaded" => a \in pdfs

(* A call that settles has loaded the earlier attempt's document.          *)
EarlierFiled ==
    \A a \in Attempts :
        pc[a] \in BeforeClaim \ {"claiming"} =>
            /\ ctx[a].earlierAttachment \in {None, ctx[a].earlier}
            /\ ctx[a].earlier \in attachments => ctx[a].earlierAttachment = ctx[a].earlier

(* The document of an email that is out, or may yet be, stays.             *)
MayBeOut(a) == Emailed(a) \/ a \in inflight \/ pc[a] \in {"filed", "posting"}

DocumentKept ==
    DocumentsStay =>
        \A a \in Attempts :
            MayBeOut(a) /\ BeingSent(ctx[a].receipt) => a \in attachments

DocumentsHeld ==
    /\ DocumentIsClaims
    /\ DocumentsBelong
    /\ FiledInOrder
    /\ EarlierFiled

DocumentsFiled == DocumentsHeld /\ DocumentKept

LEMMA DisciplineInit ==
    ASSUME Assumptions, Init
    PROVE  ClaimDiscipline
<1> USE ConstantsAssumption
<1>1. \A r \in Receipts : row[r] = Unclaimed("absent")
  BY DEF Init, Assumptions
<1>2. \A r \in Receipts : row[r].status = "absent" /\ row[r].message = None
  BY <1>1 DEF Unclaimed
<1>3. \A a \in Attempts : pc[a] = "idle" /\ ~ Emailed(a)
  BY <1>2 DEF Init, Assumptions
<1>4. aged = {} /\ inflight = {}
  BY DEF Init, Assumptions
<1>5. NoTraceBeforeClaim
  BY <1>2, <1>3, <1>4 DEF NoTraceBeforeClaim
<1>6. ContextLoaded /\ EmailIsClaimed
  BY <1>3 DEF ContextLoaded, EmailIsClaimed
<1>7. WorkingHolds /\ SettlingIsDecided
  BY <1>3, <1>4 DEF WorkingHolds, SettlingIsDecided, Working, BeforeClaim
<1>8. RowNamesItsAttempt
  BY <1>2 DEF RowNamesItsAttempt
<1>9. AddressKept
  BY <1>2, <1>3 DEF AddressKept, BeforeClaim
<1> QED
  BY <1>5, <1>6, <1>7, <1>8, <1>9 DEF ClaimDiscipline

(* What a step may do to the rows without touching the claims on them.     *)
SameClaims ==
    \A r \in Receipts : /\ row'[r].status = row[r].status
                        /\ row'[r].message = row[r].message
                        /\ row'[r].sender = row[r].sender

(* Changes of a row by its claim's holder m, or none at all.               *)
ClaimEnds(r, m, status) ==
    \/ /\ HeldBy(r, m)
       /\ row'[r].status = status
       /\ row'[r].message = IF status = "pending" THEN None ELSE m
       /\ row'[r].sender = IF status = "pending" THEN None ELSE row[r].sender
       /\ \A q \in Receipts \ {r} : row'[q] = row[q]
    \/ /\ ~ HeldBy(r, m)
       /\ UNCHANGED row

LEMMA Releases ==
    ASSUME RowsTyped, NEW r \in Receipts, NEW m
    PROVE  /\ MarkSentIfClaimed(r, m) => ClaimEnds(r, m, "sent")
           /\ \A x : DiscardAttempt(r, m, x) => ClaimEnds(r, m, "pending")
<1>1. ASSUME HeldBy(r, m), row' = [row EXCEPT ![r].status = "sent"]
      PROVE  ClaimEnds(r, m, "sent")
  BY <1>1 DEF ClaimEnds, HeldBy, RowsTyped, RowType
<1>2. ASSUME HeldBy(r, m), row' = [row EXCEPT ![r] = Unclaimed("pending")]
      PROVE  ClaimEnds(r, m, "pending")
  BY <1>2 DEF ClaimEnds, HeldBy, RowsTyped, Unclaimed
<1> QED
  BY <1>1, <1>2 DEF MarkSentIfClaimed, DiscardAttempt, ClaimEnds

(* A call's own moves: everything else about the protocol stays.           *)
(* The discipline but for the addresses, which have a proof of their own.  *)
ClaimsHeld ==
    /\ NoTraceBeforeClaim
    /\ ContextLoaded
    /\ WorkingHolds
    /\ EmailIsClaimed
    /\ RowNamesItsAttempt
    /\ SettlingIsDecided

LEMMA DisciplineMove ==
    ASSUME TypeInv, ClaimDiscipline, DocumentsFiled, NEW a \in Attempts,
           SearchGmail(a) \/ RecordFound(a) \/ UploadPdf(a) \/ FilingFails(a)
             \/ ReceiveSentId(a) \/ RecordSent(a) \/ EndUnsettled(a),
           Assumptions
    PROVE  ClaimsHeld'
<1> USE DEF TypeInv, CallsTyped, Goto, ClaimDiscipline, ClaimsHeld, numberVars, mailVars, fileVars, syncVars, hostVars
<1> USE DEF BeforeClaim, Working, AfterAnswer, Emailed, HeldBy
<1> USE DEF SearchGmail, RecordFound, UploadPdf, FilingFails, ReceiveSentId, RecordSent, EndUnsettled
<1>1. NoTraceBeforeClaim'
  BY DEF NoTraceBeforeClaim
<1>2. ContextLoaded'
  BY DEF ContextLoaded
<1>3. WorkingHolds'
  BY DEF WorkingHolds
<1>4. EmailIsClaimed'
  BY DEF EmailIsClaimed, WorkingHolds
<1>5. RowNamesItsAttempt'
  BY DEF RowNamesItsAttempt
<1>6. SettlingIsDecided'
  <2>1. CASE SearchGmail(a)
    <3>1. /\ ctx[a].earlier \in Attempts /\ ctx[a].earlier \in aged
          /\ ctx[ctx[a].earlier].receipt = ctx[a].receipt
          /\ ctx[ctx[a].earlier].account = ctx[a].account
      BY <2>1 DEF SettlingIsDecided
    <3>a. AddressesStay => ctx[a].to = ctx[ctx[a].earlier].to
      BY <2>1 DEF AddressKept
    <3>b. ASSUME DocumentsStay, Emailed(ctx[a].earlier)
          PROVE  ctx[a].earlierAttachment \in attachments
      <4>1. BeingSent(ctx[ctx[a].earlier].receipt)
        BY <2>1, <3>1 DEF BeingSent
      <4>2. ctx[a].earlier \in attachments
        BY <3>1, <3>b, <4>1 DEF DocumentsFiled, DocumentKept, MayBeOut
      <4> QED
        BY <2>1, <4>2 DEF DocumentsFiled, DocumentsHeld, EarlierFiled
    <3>2. Emailed(ctx[a].earlier) => FoundInGmail(a)
      BY <3>1, <3>a, <3>b DEF FoundInGmail, Assumptions, EmailIsClaimed
    <3> QED
      BY <2>1, <3>1, <3>2 DEF SettlingIsDecided, FoundInGmail
  <2>2. CASE ~ SearchGmail(a)
    BY <2>2 DEF SettlingIsDecided
  <2> QED
    BY <2>1, <2>2
<1> QED
  BY <1>1, <1>2, <1>3, <1>4, <1>5, <1>6

(* Loading: a fresh attempt takes the context it will keep.                *)
LEMMA DisciplineLoad ==
    ASSUME TypeInv, ClaimDiscipline,
           NEW a \in Attempts, NEW r \in Receipts, LoadContext(a, r),
           Assumptions
    PROVE  ClaimsHeld'
<1> USE DEF TypeInv, CallsTyped, Goto, ClaimDiscipline, ClaimsHeld, numberVars, mailVars, fileVars, syncVars, hostVars
<1> USE DEF BeforeClaim, Working, AfterAnswer, Emailed, HeldBy
<1> USE DEF LoadContext, Context, SameGmailAddress, IsSendClaimStale
<1>1. NoTraceBeforeClaim'
  BY DEF NoTraceBeforeClaim, RowNamesItsAttempt
<1>2. ContextLoaded'
  BY DEF ContextLoaded, TypeOK
<1>3. WorkingHolds'
  BY DEF WorkingHolds, NoTraceBeforeClaim
<1>4. EmailIsClaimed'
  BY DEF EmailIsClaimed, NoTraceBeforeClaim
<1>5. RowNamesItsAttempt'
  BY DEF RowNamesItsAttempt, NoTraceBeforeClaim, RowsTyped, RowType
<1>6. SettlingIsDecided'
  <2>1. pc'[a] = "settling" =>
          /\ row[r].message \in Attempts /\ row[r].message \in aged
          /\ ctx[row[r].message].receipt = r
          /\ ctx[row[r].message].account = conn.account
    BY ConstantsAssumption DEF RowNamesItsAttempt, RowsTyped, ContextLoaded, NoTraceBeforeClaim
  <2>2. pc'[a] = "claiming" \/ pc'[a] = "settling"
    OBVIOUS
  <2> QED
    BY <2>1, <2>2 DEF SettlingIsDecided, NoTraceBeforeClaim
<1> QED
  BY <1>1, <1>2, <1>3, <1>4, <1>5, <1>6

(* Returning before the claim.                                            *)
LEMMA DisciplineReturn ==
    ASSUME TypeInv, ClaimDiscipline,
           NEW a \in Attempts, FailBeforeClaim(a) \/ ClaimRefused(a)
    PROVE  ClaimsHeld'
<1> USE DEF TypeInv, CallsTyped, Goto, ClaimDiscipline, ClaimsHeld, numberVars, mailVars, fileVars, syncVars, hostVars
<1> USE DEF BeforeClaim, Working, AfterAnswer, Emailed, HeldBy
<1> USE DEF FailBeforeClaim, ClaimRefused, Return
<1>1. NoTraceBeforeClaim'
  BY DEF NoTraceBeforeClaim
<1>2. ContextLoaded'
  BY DEF ContextLoaded
<1>3. WorkingHolds'
  BY DEF WorkingHolds, NoTraceBeforeClaim
<1>4. EmailIsClaimed'
  BY DEF EmailIsClaimed, NoTraceBeforeClaim
<1>5. RowNamesItsAttempt'
  BY DEF RowNamesItsAttempt, NoTraceBeforeClaim, RowsTyped, RowType
<1>6. SettlingIsDecided'
  BY DEF SettlingIsDecided, NoTraceBeforeClaim
<1> QED
  BY <1>1, <1>2, <1>3, <1>4, <1>5, <1>6

(* Claiming: the row was pending, so nobody else names it.                 *)
LEMMA DisciplineClaim ==
    ASSUME TypeInv, ClaimDiscipline,
           NEW a \in Attempts, ClaimForSend(a)
    PROVE  ClaimsHeld'
<1> USE DEF TypeInv, CallsTyped, Goto, ClaimDiscipline, ClaimsHeld, numberVars, mailVars, fileVars, syncVars, hostVars
<1> USE DEF BeforeClaim, Working, AfterAnswer, Emailed, HeldBy
<1> USE DEF ClaimForSend, ClaimedBy, RowsTyped
<1>1. NoTraceBeforeClaim'
  BY DEF NoTraceBeforeClaim, ContextLoaded
<1>2. ContextLoaded'
  BY DEF ContextLoaded
<1>3. WorkingHolds'
  BY DEF WorkingHolds, NoTraceBeforeClaim, ContextLoaded
<1>4. EmailIsClaimed'
  BY DEF EmailIsClaimed, NoTraceBeforeClaim, ContextLoaded
<1>5. RowNamesItsAttempt'
  BY DEF RowNamesItsAttempt, NoTraceBeforeClaim, ContextLoaded
<1>6. SettlingIsDecided'
  BY DEF SettlingIsDecided
<1> QED
  BY <1>1, <1>2, <1>3, <1>4, <1>5, <1>6

(* The request on the wire, until it is refused or lost.                   *)
LEMMA DisciplineWire ==
    ASSUME TypeInv, ClaimDiscipline,
           NEW a \in Attempts,
           PostMessage(a) \/ SendRefused(a) \/ RequestLost(a)
    PROVE  ClaimsHeld'
<1> USE DEF TypeInv, CallsTyped, Goto, ClaimDiscipline, ClaimsHeld, numberVars, mailVars, fileVars, syncVars, hostVars
<1> USE DEF BeforeClaim, Working, AfterAnswer, Emailed, HeldBy
<1> USE DEF PostMessage, SendRefused, RequestLost
<1>1. NoTraceBeforeClaim'
  BY DEF NoTraceBeforeClaim, WorkingHolds, EmailIsClaimed
<1>2. ContextLoaded'
  BY DEF ContextLoaded
<1>3. WorkingHolds'
  BY DEF WorkingHolds, EmailIsClaimed
<1>4. EmailIsClaimed'
  BY DEF EmailIsClaimed, WorkingHolds
<1>5. RowNamesItsAttempt'
  BY DEF RowNamesItsAttempt, WorkingHolds
<1>6. SettlingIsDecided'
  BY DEF SettlingIsDecided, WorkingHolds, NoTraceBeforeClaim
<1> QED
  BY <1>1, <1>2, <1>3, <1>4, <1>5, <1>6

(* Gmail accepts the message of an attempt that still holds its row.       *)
LEMMA DisciplineAccept ==
    ASSUME TypeInv, ClaimDiscipline,
           NEW a \in Attempts,
           GmailAccepts(a)
    PROVE  ClaimsHeld'
<1> USE DEF TypeInv, CallsTyped, Goto, ClaimDiscipline, ClaimsHeld, numberVars, mailVars, fileVars, syncVars, hostVars
<1> USE DEF BeforeClaim, Working, AfterAnswer, Emailed, HeldBy
<1> USE DEF GmailAccepts
<1>a. /\ pc[a] \in {"posting", "done"} /\ a \notin aged
      /\ ctx[a].account \in Accounts /\ ctx[a].account # None
      /\ mailbox' = [mailbox EXCEPT ![a] = ctx[a].account]
      /\ mailbox \in [Attempts -> Accounts \union {None}]
      /\ row[ctx[a].receipt].status = "sending" /\ row[ctx[a].receipt].message = a
  BY ConstantsAssumption DEF WorkingHolds, ContextLoaded, TypeOK
<1>1. NoTraceBeforeClaim'
  BY <1>a DEF NoTraceBeforeClaim, WorkingHolds, EmailIsClaimed
<1>2. ContextLoaded'
  BY <1>a DEF ContextLoaded
<1>3. WorkingHolds'
  BY <1>a DEF WorkingHolds, EmailIsClaimed
<1>4. EmailIsClaimed'
  BY <1>a DEF EmailIsClaimed, WorkingHolds
<1>5. RowNamesItsAttempt'
  BY <1>a DEF RowNamesItsAttempt, WorkingHolds
<1>6. SettlingIsDecided'
  BY <1>a DEF SettlingIsDecided, WorkingHolds, NoTraceBeforeClaim
<1> QED
  BY <1>1, <1>2, <1>3, <1>4, <1>5, <1>6

(* Time passes: only a claim nobody works on goes stale.                   *)
LEMMA DisciplineAge ==
    ASSUME TypeInv, ClaimDiscipline,
           NEW a \in Attempts, ClaimAges(a), Assumptions
    PROVE  ClaimsHeld'
<1> USE DEF TypeInv, CallsTyped, Goto, ClaimDiscipline, ClaimsHeld, numberVars, mailVars, fileVars, syncVars, hostVars
<1> USE DEF BeforeClaim, Working, AfterAnswer, Emailed, HeldBy
<1> USE DEF ClaimAges
<1>1. NoTraceBeforeClaim'
  BY DEF NoTraceBeforeClaim, RowNamesItsAttempt
<1>2. ContextLoaded'
  BY DEF ContextLoaded
<1>3. WorkingHolds'
  BY DEF WorkingHolds, Assumptions
<1>4. EmailIsClaimed'
  BY DEF EmailIsClaimed
<1>5. RowNamesItsAttempt'
  BY DEF RowNamesItsAttempt
<1>6. SettlingIsDecided'
  BY DEF SettlingIsDecided
<1> QED
  BY <1>1, <1>2, <1>3, <1>4, <1>5, <1>6

(* Filing writes the attachment column only.                               *)
LEMMA DisciplineFile ==
    ASSUME TypeInv, ClaimDiscipline,
           NEW a \in Attempts, SetAttemptAttachment(a)
    PROVE  ClaimsHeld'
<1> USE DEF TypeInv, CallsTyped, Goto, ClaimDiscipline, ClaimsHeld, numberVars, mailVars, fileVars, syncVars, hostVars
<1> USE DEF BeforeClaim, Working, AfterAnswer, Emailed, HeldBy
<1> USE DEF SetAttemptAttachment
<1>a. SameClaims
  BY DEF SameClaims, RowsTyped, RowType
<1>1. NoTraceBeforeClaim'
  BY <1>a DEF NoTraceBeforeClaim, SameClaims
<1>2. ContextLoaded'
  BY <1>a DEF ContextLoaded
<1>3. WorkingHolds'
  BY <1>a DEF WorkingHolds, SameClaims, ContextLoaded
<1>4. EmailIsClaimed'
  BY <1>a DEF EmailIsClaimed, SameClaims, ContextLoaded
<1>5. RowNamesItsAttempt'
  BY <1>a DEF RowNamesItsAttempt, SameClaims
<1>6. SettlingIsDecided'
  BY <1>a DEF SettlingIsDecided
<1> QED
  BY <1>1, <1>2, <1>3, <1>4, <1>5, <1>6

(* So does deleting a document.                                            *)
LEMMA DisciplineDelete ==
    ASSUME TypeInv, ClaimDiscipline,
           NEW a \in Attempts, DeleteAttachment(a)
    PROVE  ClaimsHeld'
<1> USE DEF TypeInv, CallsTyped, Goto, ClaimDiscipline, ClaimsHeld, numberVars, mailVars, fileVars, syncVars, hostVars
<1> USE DEF BeforeClaim, Working, AfterAnswer, Emailed, HeldBy
<1> USE DEF DeleteAttachment
<1>a. SameClaims
  BY DEF SameClaims, RowsTyped, RowType
<1>1. NoTraceBeforeClaim'
  BY <1>a DEF NoTraceBeforeClaim, SameClaims
<1>2. ContextLoaded'
  BY <1>a DEF ContextLoaded
<1>3. WorkingHolds'
  BY <1>a DEF WorkingHolds, SameClaims, ContextLoaded
<1>4. EmailIsClaimed'
  BY <1>a DEF EmailIsClaimed, SameClaims, ContextLoaded
<1>5. RowNamesItsAttempt'
  BY <1>a DEF RowNamesItsAttempt, SameClaims
<1>6. SettlingIsDecided'
  BY <1>a DEF SettlingIsDecided
<1> QED
  BY <1>1, <1>2, <1>3, <1>4, <1>5, <1>6

(* Releasing a claim that was settled as unsent: its email is not out and  *)
(* never will be.                                                          *)
LEMMA DisciplineDiscard ==
    ASSUME TypeInv, ClaimDiscipline,
           NEW a \in Attempts, DiscardEarlier(a), Assumptions
    PROVE  ClaimsHeld'
<1> USE DEF TypeInv, CallsTyped, Goto, ClaimDiscipline, ClaimsHeld, numberVars, mailVars, fileVars, syncVars, hostVars
<1> USE DEF BeforeClaim, Working, AfterAnswer, Emailed, HeldBy
<1> USE DEF DiscardEarlier
<1>a. ctx[a].receipt \in Receipts /\ ClaimEnds(ctx[a].receipt, ctx[a].earlier, "pending")
  BY Releases DEF Busy, ClaimEnds
<1> USE DEF ClaimEnds
<1>1. NoTraceBeforeClaim'
  BY <1>a, ConstantsAssumption DEF NoTraceBeforeClaim, RowsTyped
<1>2. ContextLoaded'
  BY <1>a, ConstantsAssumption DEF ContextLoaded
<1>3. WorkingHolds'
  BY <1>a, ConstantsAssumption DEF SettlingIsDecided, WorkingHolds, ContextLoaded, RowNamesItsAttempt, RowsTyped
<1>4. EmailIsClaimed'
  BY <1>a, ConstantsAssumption DEF SettlingIsDecided, EmailIsClaimed, ContextLoaded, WorkingHolds
<1>5. RowNamesItsAttempt'
  BY <1>a, ConstantsAssumption DEF RowNamesItsAttempt, RowsTyped, RowType, WorkingHolds, EmailIsClaimed
<1>6. SettlingIsDecided'
  BY <1>a, ConstantsAssumption DEF SettlingIsDecided, NoTraceBeforeClaim
<1> QED
  BY <1>1, <1>2, <1>3, <1>4, <1>5, <1>6

(* Releasing a claim Gmail refused to send for.                            *)
LEMMA DisciplineRefused ==
    ASSUME TypeInv, ClaimDiscipline,
           NEW a \in Attempts, DiscardRefused(a)
    PROVE  ClaimsHeld'
<1> USE DEF TypeInv, CallsTyped, Goto, ClaimDiscipline, ClaimsHeld, numberVars, mailVars, fileVars, syncVars, hostVars
<1> USE DEF BeforeClaim, Working, AfterAnswer, Emailed, HeldBy
<1> USE DEF DiscardRefused
<1>a. ctx[a].receipt \in Receipts /\ ClaimEnds(ctx[a].receipt, a, "pending")
  BY Releases DEF Busy, ClaimEnds
<1> USE DEF ClaimEnds
<1>1. NoTraceBeforeClaim'
  BY <1>a, ConstantsAssumption DEF NoTraceBeforeClaim, RowsTyped
<1>2. ContextLoaded'
  BY <1>a, ConstantsAssumption DEF ContextLoaded
<1>3. WorkingHolds'
  BY <1>a, ConstantsAssumption DEF WorkingHolds, ContextLoaded, RowNamesItsAttempt, RowsTyped
<1>4. EmailIsClaimed'
  BY <1>a, ConstantsAssumption DEF EmailIsClaimed, ContextLoaded, WorkingHolds
<1>5. RowNamesItsAttempt'
  BY <1>a, ConstantsAssumption DEF RowNamesItsAttempt, RowsTyped, RowType, WorkingHolds, EmailIsClaimed
<1>6. SettlingIsDecided'
  BY <1>a, ConstantsAssumption DEF SettlingIsDecided, NoTraceBeforeClaim
<1> QED
  BY <1>1, <1>2, <1>3, <1>4, <1>5, <1>6

(* Releasing a claim whose filing failed.                                  *)
LEMMA DisciplineAbandon ==
    ASSUME TypeInv, ClaimDiscipline,
           NEW a \in Attempts, AbandonFiling(a)
    PROVE  ClaimsHeld'
<1> USE DEF TypeInv, CallsTyped, Goto, ClaimDiscipline, ClaimsHeld, numberVars, mailVars, fileVars, syncVars, hostVars
<1> USE DEF BeforeClaim, Working, AfterAnswer, Emailed, HeldBy
<1> USE DEF AbandonFiling
<1>a. ctx[a].receipt \in Receipts /\ (ClaimEnds(ctx[a].receipt, a, "pending") \/ UNCHANGED row)
  BY DEF Busy, ClaimEnds, RowsTyped, Unclaimed
<1> USE DEF ClaimEnds
<1>1. NoTraceBeforeClaim'
  BY <1>a, ConstantsAssumption DEF NoTraceBeforeClaim, RowsTyped
<1>2. ContextLoaded'
  BY <1>a, ConstantsAssumption DEF ContextLoaded
<1>3. WorkingHolds'
  BY <1>a, ConstantsAssumption DEF WorkingHolds, ContextLoaded, RowNamesItsAttempt, RowsTyped
<1>4. EmailIsClaimed'
  BY <1>a, ConstantsAssumption DEF EmailIsClaimed, ContextLoaded, WorkingHolds
<1>5. RowNamesItsAttempt'
  BY <1>a, ConstantsAssumption DEF RowNamesItsAttempt, RowsTyped, RowType, WorkingHolds, EmailIsClaimed
<1>6. SettlingIsDecided'
  BY <1>a, ConstantsAssumption DEF SettlingIsDecided, NoTraceBeforeClaim
<1> QED
  BY <1>1, <1>2, <1>3, <1>4, <1>5, <1>6

(* Marking one's own email sent.                                           *)
LEMMA DisciplineMark ==
    ASSUME TypeInv, ClaimDiscipline,
           NEW a \in Attempts, MarkSent(a)
    PROVE  ClaimsHeld'
<1> USE DEF TypeInv, CallsTyped, Goto, ClaimDiscipline, ClaimsHeld, numberVars, mailVars, fileVars, syncVars, hostVars
<1> USE DEF BeforeClaim, Working, AfterAnswer, Emailed, HeldBy
<1> USE DEF MarkSent
<1>a. ctx[a].receipt \in Receipts /\ ClaimEnds(ctx[a].receipt, a, "sent")
  BY Releases DEF Busy, ClaimEnds
<1> USE DEF ClaimEnds
<1>1. NoTraceBeforeClaim'
  BY <1>a, ConstantsAssumption DEF NoTraceBeforeClaim, RowsTyped
<1>2. ContextLoaded'
  BY <1>a, ConstantsAssumption DEF ContextLoaded
<1>3. WorkingHolds'
  BY <1>a, ConstantsAssumption DEF WorkingHolds, ContextLoaded, RowNamesItsAttempt, RowsTyped
<1>4. EmailIsClaimed'
  BY <1>a, ConstantsAssumption DEF EmailIsClaimed, ContextLoaded, WorkingHolds
<1>5. RowNamesItsAttempt'
  BY <1>a, ConstantsAssumption DEF SettlingIsDecided, RowNamesItsAttempt, RowsTyped, RowType, WorkingHolds, EmailIsClaimed
<1>6. SettlingIsDecided'
  BY <1>a, ConstantsAssumption DEF SettlingIsDecided, NoTraceBeforeClaim
<1> QED
  BY <1>1, <1>2, <1>3, <1>4, <1>5, <1>6

(* Marking an earlier attempt's email sent.                                *)
LEMMA DisciplineMarkFound ==
    ASSUME TypeInv, ClaimDiscipline,
           NEW a \in Attempts, MarkFound(a)
    PROVE  ClaimsHeld'
<1> USE DEF TypeInv, CallsTyped, Goto, ClaimDiscipline, ClaimsHeld, numberVars, mailVars, fileVars, syncVars, hostVars
<1> USE DEF BeforeClaim, Working, AfterAnswer, Emailed, HeldBy
<1> USE DEF MarkFound, Return
<1>a. ctx[a].receipt \in Receipts /\ ClaimEnds(ctx[a].receipt, ctx[a].earlier, "sent")
  BY Releases DEF Busy, ClaimEnds
<1> USE DEF ClaimEnds
<1>1. NoTraceBeforeClaim'
  BY <1>a, ConstantsAssumption DEF NoTraceBeforeClaim, RowsTyped
<1>2. ContextLoaded'
  BY <1>a, ConstantsAssumption DEF ContextLoaded
<1>3. WorkingHolds'
  BY <1>a, ConstantsAssumption DEF SettlingIsDecided, NoTraceBeforeClaim, WorkingHolds, ContextLoaded, RowNamesItsAttempt, RowsTyped
<1>4. EmailIsClaimed'
  BY <1>a, ConstantsAssumption DEF EmailIsClaimed, ContextLoaded, WorkingHolds
<1>5. RowNamesItsAttempt'
  BY <1>a, ConstantsAssumption DEF SettlingIsDecided, NoTraceBeforeClaim, RowNamesItsAttempt, RowsTyped, RowType, WorkingHolds, EmailIsClaimed
<1>6. SettlingIsDecided'
  BY <1>a, ConstantsAssumption DEF SettlingIsDecided, NoTraceBeforeClaim
<1> QED
  BY <1>1, <1>2, <1>3, <1>4, <1>5, <1>6

(* The host attributes a transaction, or dismisses a receipt.              *)
LEMMA DisciplineHost ==
    ASSUME TypeInv, ClaimDiscipline,
           NEW r \in Receipts, CreateIdempotent(r) \/ DismissPendingReceipt(r)
    PROVE  ClaimsHeld'
<1> USE DEF TypeInv, CallsTyped, Goto, ClaimDiscipline, ClaimsHeld, numberVars, mailVars, fileVars, syncVars, hostVars
<1> USE DEF BeforeClaim, Working, AfterAnswer, Emailed, HeldBy
<1> USE DEF CreateIdempotent, DismissPendingReceipt, SentFromOtherGmail, IsSendClaimStale
<1>a. \A q \in Receipts : row'[q] # row[q] =>
          /\ q = r
          /\ row[r].status \in {"absent", "pending"} \/ row[r].message \in aged
          /\ row[r].status # "sent"
          /\ row'[r].status \in {"pending", "dismissed"}
          /\ row[r].status \in {"pending", "sending"} => row'[r].status = "dismissed"
          /\ row[r].status = "absent" => row'[r].status = "pending"
          /\ row[r].message = None => row'[r].message = None
          /\ row[r].message # None => row'[r].message = row[r].message /\ row'[r].sender = row[r].sender
  BY DEF RowsTyped, RowType, Unclaimed, RowNamesItsAttempt
<1>1. NoTraceBeforeClaim'
  BY <1>a DEF NoTraceBeforeClaim
<1>2. ContextLoaded'
  BY <1>a DEF ContextLoaded
<1>3. WorkingHolds'
  BY <1>a DEF WorkingHolds, RowsTyped, RowType, ContextLoaded, RowNamesItsAttempt
<1>4. EmailIsClaimed'
  BY <1>a DEF EmailIsClaimed, RowsTyped, RowType, ContextLoaded, RowNamesItsAttempt
<1>5. RowNamesItsAttempt'
  BY <1>a DEF RowNamesItsAttempt
<1>6. SettlingIsDecided'
  BY <1>a DEF SettlingIsDecided
<1> QED
  BY <1>1, <1>2, <1>3, <1>4, <1>5, <1>6

LEMMA ClaimsStep ==
    ASSUME Assumptions, TypeInv, ClaimDiscipline, DocumentsFiled, [Next]_vars
    PROVE  ClaimsHeld'
<1>1. ASSUME NEW a \in Attempts, Call(a) PROVE ClaimsHeld'
  BY <1>1, DisciplineMove, DisciplineLoad, DisciplineReturn, DisciplineClaim, DisciplineWire,
     DisciplineFile, DisciplineDiscard, DisciplineRefused, DisciplineAbandon, DisciplineMark,
     DisciplineMarkFound
  DEF Call, Settle, Claim, File, Send, Record
<1>2. ASSUME NEW a \in Attempts,
             GmailAccepts(a) \/ RequestLost(a) \/ ClaimAges(a) \/ DeleteAttachment(a)
      PROVE  ClaimsHeld'
  BY <1>2, DisciplineAccept, DisciplineWire, DisciplineAge, DisciplineDelete
<1>3. ASSUME NEW r \in Receipts, CreateIdempotent(r) \/ DismissPendingReceipt(r)
      PROVE  ClaimsHeld'
  BY <1>3, DisciplineHost
<1>4. ASSUME UNCHANGED <<row, pc, ctx, aged, mailVars>> PROVE ClaimsHeld'
  BY <1>4
  DEF mailVars, ClaimDiscipline, ClaimsHeld, NoTraceBeforeClaim, ContextLoaded, WorkingHolds, EmailIsClaimed,
      RowNamesItsAttempt, SettlingIsDecided, Emailed, HeldBy
<1>5. ASSUME NEW s \in Syncs, Discover(s) PROVE ClaimsHeld'
  BY <1>5, <1>4, DiscoverKeeps
<1>6. ASSUME NEW g \in Accounts, UpsertGmail(g) PROVE ClaimsHeld'
  BY <1>6, <1>4 DEF UpsertGmail
<1>7. CASE DisconnectGmail \/ MarkNeedsReauth
  BY <1>7, <1>4 DEF DisconnectGmail, MarkNeedsReauth
<1>8. CASE UNCHANGED vars
  BY <1>8, <1>4 DEF vars, mailVars
<1>9. ASSUME NEW r \in Receipts, NEW e \in Addresses, ChangeTenantEmail(r, e)
      PROVE  ClaimsHeld'
  BY <1>9, <1>4 DEF ChangeTenantEmail
<1> QED
  BY <1>1, <1>2, <1>3, <1>5, <1>6, <1>7, <1>8, <1>9 DEF Next, World

(* The addresses.  A row comes to "sending" by the claim of a call that    *)
(* has read its address, and a call comes to settle by a load.             *)
LEMMA SendingBy ==
    ASSUME TypeInv, [Next]_vars, NEW r \in Receipts, row'[r].status = "sending"
    PROVE  \/ row[r].status = "sending" /\ row'[r].message = row[r].message
           \/ \E a \in Attempts : /\ ClaimForSend(a)
                                  /\ ctx[a].receipt = r
                                  /\ row'[r].message = a
<1> USE DEF TypeInv, RowsTyped
<1>1. ASSUME NEW q \in Receipts, NEW m, NEW status \in {"pending", "sent"}, ClaimEnds(q, m, status)
      PROVE  row[r].status = "sending" /\ row'[r].message = row[r].message
  BY <1>1 DEF ClaimEnds
<1>2. CASE row' = row
  BY <1>2
<1>3. ASSUME NEW a \in Attempts, Call(a)
      PROVE  \/ row[r].status = "sending" /\ row'[r].message = row[r].message
             \/ ClaimForSend(a) /\ ctx[a].receipt = r /\ row'[r].message = a
  <2>1. pc[a] \in Busy => ctx[a].receipt \in Receipts
    BY DEF CallsTyped
  <2>2. CASE ClaimForSend(a)
    BY <2>2 DEF ClaimForSend, ClaimedBy
  <2>3. CASE SetAttemptAttachment(a)
    BY <2>3 DEF SetAttemptAttachment, RowType
  <2>4. CASE AbandonFiling(a)
    BY <2>4 DEF AbandonFiling, Unclaimed
  <2>5. CASE DiscardRefused(a) \/ MarkSent(a)
    <3>1. \E status \in {"pending", "sent"} : ClaimEnds(ctx[a].receipt, a, status)
      BY <2>1, <2>5, Releases DEF DiscardRefused, MarkSent, Busy, AfterAnswer
    <3> QED
      BY <1>1, <2>1, <2>5, <3>1 DEF DiscardRefused, MarkSent, Busy, AfterAnswer
  <2>6. CASE DiscardEarlier(a) \/ MarkFound(a)
    <3>1. \E status \in {"pending", "sent"} : ClaimEnds(ctx[a].receipt, ctx[a].earlier, status)
      BY <2>1, <2>6, Releases DEF DiscardEarlier, MarkFound, Busy, BeforeClaim
    <3> QED
      BY <1>1, <2>1, <2>6, <3>1 DEF DiscardEarlier, MarkFound, Busy, BeforeClaim
  <2> QED
    BY <1>2, <1>3, <2>2, <2>3, <2>4, <2>5, <2>6
    DEF Call, Settle, Claim, File, Send, Record, LoadContext, SearchGmail, RecordFound,
        ClaimRefused, FailBeforeClaim, UploadPdf, FilingFails, PostMessage, ReceiveSentId,
        SendRefused, RecordSent, EndUnsettled
<1>4. ASSUME NEW a \in Attempts, DeleteAttachment(a)
      PROVE  row[r].status = "sending" /\ row'[r].message = row[r].message
  BY <1>4 DEF DeleteAttachment, RowType
<1>5. ASSUME NEW q \in Receipts, CreateIdempotent(q) \/ DismissPendingReceipt(q)
      PROVE  row[r].status = "sending" /\ row'[r].message = row[r].message
  BY <1>5 DEF CreateIdempotent, DismissPendingReceipt, Unclaimed, RowType, Statuses
<1>6. ASSUME NEW q \in Syncs, Discover(q) PROVE row' = row
  BY <1>6, DiscoverKeeps
<1> QED
  BY <1>2, <1>3, <1>4, <1>5, <1>6
  DEF Next, World, vars, GmailAccepts, RequestLost, ClaimAges, UpsertGmail, ChangeTenantEmail,
      DisconnectGmail, MarkNeedsReauth

LEMMA BeforeClaimBy ==
    ASSUME TypeInv, NEW a \in Attempts, Call(a), pc'[a] \in BeforeClaim
    PROVE  \/ /\ pc[a] \in BeforeClaim
              /\ ctx'[a] = ctx[a]
              /\ pc'[a] # "claiming" => pc[a] # "claiming"
           \/ \E r \in Receipts : LoadContext(a, r)
<1> USE DEF TypeInv, TypeOK, Goto, BeforeClaim
<1>1. CASE SearchGmail(a) \/ RecordFound(a) \/ DiscardEarlier(a)
  BY <1>1 DEF SearchGmail, RecordFound, DiscardEarlier
<1>2. CASE ClaimForSend(a) \/ MarkFound(a) \/ ClaimRefused(a) \/ FailBeforeClaim(a)
  BY <1>2 DEF ClaimForSend, MarkFound, ClaimRefused, FailBeforeClaim, Return
<1>3. CASE UploadPdf(a) \/ SetAttemptAttachment(a) \/ FilingFails(a) \/ AbandonFiling(a)
  BY <1>3 DEF UploadPdf, SetAttemptAttachment, FilingFails, AbandonFiling
<1>4. CASE PostMessage(a) \/ ReceiveSentId(a) \/ SendRefused(a) \/ DiscardRefused(a)
           \/ RecordSent(a) \/ MarkSent(a) \/ EndUnsettled(a)
  BY <1>4 DEF PostMessage, ReceiveSentId, SendRefused, DiscardRefused, RecordSent,
              MarkSent, EndUnsettled
<1> QED
  BY <1>1, <1>2, <1>3, <1>4 DEF Call, Settle, Claim, File, Send, Record

LEMMA TenantChange ==
    ASSUME [Next]_vars
    PROVE  \/ UNCHANGED tenant
           \/ \E r \in Receipts, e \in Addresses : ChangeTenantEmail(r, e)
<1> USE DEF hostVars
<1>1. ASSUME NEW a \in Attempts, Call(a) PROVE UNCHANGED tenant
  BY <1>1
  DEF Call, Settle, Claim, File, Send, Record, LoadContext, SearchGmail, RecordFound, MarkFound,
      DiscardEarlier, ClaimForSend, ClaimRefused, UploadPdf, SetAttemptAttachment, FilingFails,
      AbandonFiling, PostMessage, ReceiveSentId, SendRefused, DiscardRefused, RecordSent, MarkSent,
      FailBeforeClaim, EndUnsettled
<1>2. ASSUME NEW q \in Syncs, Discover(q) PROVE UNCHANGED tenant
  BY <1>2, DiscoverKeeps
<1> QED
  BY <1>1, <1>2
  DEF Next, World, vars, GmailAccepts, RequestLost, ClaimAges, DeleteAttachment,
      CreateIdempotent, DismissPendingReceipt, UpsertGmail, DisconnectGmail, MarkNeedsReauth

LEMMA AddressStep ==
    ASSUME TypeInv, ClaimDiscipline, [Next]_vars
    PROVE  AddressKept'
<1> SUFFICES ASSUME AddressesStay PROVE AddressKept'
  BY DEF AddressKept
<1> USE ConstantsAssumption
<1>1. \A r \in Receipts : BeingSent(r) => tenant'[r] = tenant[r]
  <2>1. ASSUME NEW q \in Receipts, NEW e \in Addresses, ChangeTenantEmail(q, e),
               NEW r \in Receipts, BeingSent(r)
        PROVE  tenant'[r] = tenant[r]
    BY <2>1 DEF ChangeTenantEmail, TypeInv, TypeOK
  <2> QED
    BY <2>1, TenantChange
<1>2. \A m \in Attempts : PastClaim(m) => ctx'[m] = ctx[m]
  BY PastClaimStays
<1>3. ASSUME NEW r \in Receipts, row'[r].status = "sending"
      PROVE  ctx'[row'[r].message].to = tenant'[r]
  <2>1. CASE row[r].status = "sending" /\ row'[r].message = row[r].message
    <3>1. row[r].message \in Attempts /\ PastClaim(row[r].message)
      BY <2>1 DEF TypeInv, RowsTyped, ClaimDiscipline, NoTraceBeforeClaim, PastClaim
    <3>2. ctx[row[r].message].to = tenant[r] /\ BeingSent(r)
      BY <2>1 DEF ClaimDiscipline, AddressKept, BeingSent
    <3> QED
      BY <1>1, <1>2, <2>1, <3>1, <3>2
  <2>2. ASSUME NEW a \in Attempts, ClaimForSend(a), ctx[a].receipt = r, row'[r].message = a
        PROVE  ctx'[row'[r].message].to = tenant'[r]
    BY <2>2 DEF ClaimForSend, hostVars, ClaimDiscipline, AddressKept, BeforeClaim
  <2> QED
    BY <1>3, <2>1, <2>2, SendingBy
<1>4. ASSUME NEW a \in Attempts, pc'[a] \in BeforeClaim
      PROVE  /\ ctx'[a].to = tenant'[ctx'[a].receipt]
             /\ pc'[a] # "claiming" => ctx'[ctx'[a].earlier].to = ctx'[a].to
  <2>1. CASE /\ pc[a] \in BeforeClaim
             /\ ctx'[a] = ctx[a]
             /\ pc'[a] # "claiming" => pc[a] # "claiming"
    <3>1. /\ ctx[a].to = tenant[ctx[a].receipt]
          /\ pc[a] # "claiming" => ctx[ctx[a].earlier].to = ctx[a].to
      BY <2>1 DEF ClaimDiscipline, AddressKept
    <3>2. ctx[a].receipt \in Receipts /\ BeingSent(ctx[a].receipt)
      BY <2>1 DEF BeingSent, ClaimDiscipline, ContextLoaded, BeforeClaim
    <3>3. pc[a] # "claiming" => ctx[a].earlier \in Attempts /\ PastClaim(ctx[a].earlier)
      BY <2>1 DEF TypeInv, CallsTyped, PastClaim, ClaimDiscipline, SettlingIsDecided, NoTraceBeforeClaim
    <3> QED
      BY <1>1, <1>2, <2>1, <3>1, <3>2, <3>3
  <2>2. ASSUME NEW r \in Receipts, LoadContext(a, r)
        PROVE  /\ ctx'[a].to = tenant'[ctx'[a].receipt]
               /\ pc'[a] # "claiming" => ctx'[ctx'[a].earlier].to = ctx'[a].to
    <3>1. ctx'[a].to = tenant[r] /\ ctx'[a].receipt = r /\ UNCHANGED tenant
      BY <2>2 DEF LoadContext, Context, hostVars, TypeInv, TypeOK
    <3>2. pc'[a] # "claiming" =>
              /\ row[r].status = "sending"
              /\ ctx'[a].earlier = row[r].message
      BY <2>2 DEF LoadContext, Context, Goto, TypeInv, TypeOK
    <3>3. row[r].status = "sending" =>
              /\ row[r].message \in Attempts
              /\ PastClaim(row[r].message)
              /\ ctx[row[r].message].to = tenant[r]
      BY DEF TypeInv, RowsTyped, ClaimDiscipline, NoTraceBeforeClaim, PastClaim, AddressKept
    <3> QED
      BY <1>2, <3>1, <3>2, <3>3
  <2>3. CASE pc'[a] = pc[a] /\ ctx'[a] = ctx[a]
    BY <1>4, <2>1, <2>3
  <2> QED
    BY <1>4, <2>1, <2>2, <2>3, OnlyItsCall, BeforeClaimBy
<1> QED
  BY <1>3, <1>4 DEF AddressKept

LEMMA DisciplineStep ==
    ASSUME Assumptions, TypeInv, ClaimDiscipline, DocumentsFiled, [Next]_vars
    PROVE  ClaimDiscipline'
BY ClaimsStep, AddressStep DEF ClaimsHeld, ClaimDiscipline


(* Steps that file nothing and release nothing.                            *)
LEMMA DocumentsMove ==
    ASSUME TypeInv, ClaimDiscipline, DocumentsFiled, NEW a \in Attempts,
           SearchGmail(a) \/ RecordFound(a) \/ FilingFails(a) \/ PostMessage(a) \/ ReceiveSentId(a)
             \/ SendRefused(a) \/ RecordSent(a) \/ EndUnsettled(a)
    PROVE  DocumentsHeld'
<1> USE ConstantsAssumption DEF TypeInv, TypeOK, CallsTyped, RowsTyped, DocumentsFiled, DocumentsHeld, ClaimDiscipline
<1> USE DEF BeforeClaim, Working, AfterAnswer, Emailed, HeldBy, Goto
<1> USE DEF numberVars, mailVars, fileVars, syncVars, hostVars
<1> USE DEF SearchGmail, RecordFound, FilingFails, PostMessage, ReceiveSentId, SendRefused, RecordSent, EndUnsettled
<1>1. DocumentIsClaims'
  BY DEF DocumentIsClaims
<1>2. DocumentsBelong'
  BY DEF DocumentsBelong
<1>3. FiledInOrder'
  BY DEF FiledInOrder, WorkingHolds
<1>4. EarlierFiled'
  BY DEF EarlierFiled
<1> QED
  BY <1>1, <1>2, <1>3, <1>4

(* Loading takes the document along with the claim.                        *)
LEMMA DocumentsLoad ==
    ASSUME TypeInv, ClaimDiscipline, DocumentsFiled, NEW a \in Attempts,
           NEW r \in Receipts, LoadContext(a, r)
    PROVE  DocumentsHeld'
<1> USE ConstantsAssumption DEF TypeInv, TypeOK, CallsTyped, RowsTyped, DocumentsFiled, DocumentsHeld, ClaimDiscipline
<1> USE DEF BeforeClaim, Working, AfterAnswer, Emailed, HeldBy, Goto
<1> USE DEF numberVars, mailVars, fileVars, syncVars, hostVars
<1> USE DEF LoadContext
<1>a. \A g, e, m, x : LET c == Context(r, g, e, m, x)
                   IN  c.receipt = r /\ c.earlier = m /\ c.earlierAttachment = x
  BY DEF Context
<1>b. a \notin attachments /\ ~ Emailed(a) /\ a \notin inflight
  BY DEF LoadContext, FiledInOrder, NoTraceBeforeClaim
<1>1. DocumentIsClaims'
  BY <1>a, <1>b DEF DocumentIsClaims
<1>2. DocumentsBelong'
  BY <1>a, <1>b DEF DocumentsBelong
<1>3. FiledInOrder'
  BY <1>a, <1>b DEF FiledInOrder
<1>4. EarlierFiled'
  BY <1>a, <1>b DEF EarlierFiled, DocumentsBelong, DocumentIsClaims, RowNamesItsAttempt, IsSendClaimStale, NoTraceBeforeClaim, RowType
<1> QED
  BY <1>1, <1>2, <1>3, <1>4

(* Returning before the claim.                                             *)
LEMMA DocumentsReturn ==
    ASSUME TypeInv, ClaimDiscipline, DocumentsFiled, NEW a \in Attempts,
           FailBeforeClaim(a) \/ ClaimRefused(a)
    PROVE  DocumentsHeld'
<1> USE ConstantsAssumption DEF TypeInv, TypeOK, CallsTyped, RowsTyped, DocumentsFiled, DocumentsHeld, ClaimDiscipline
<1> USE DEF BeforeClaim, Working, AfterAnswer, Emailed, HeldBy, Goto
<1> USE DEF numberVars, mailVars, fileVars, syncVars, hostVars
<1> USE DEF FailBeforeClaim, ClaimRefused, Return
<1>a. a \notin attachments /\ ~ Emailed(a) /\ a \notin inflight
  BY DEF FailBeforeClaim, ClaimRefused, FiledInOrder, NoTraceBeforeClaim
<1>1. DocumentIsClaims'
  BY <1>a DEF DocumentIsClaims
<1>2. DocumentsBelong'
  BY <1>a DEF DocumentsBelong
<1>3. FiledInOrder'
  BY <1>a DEF FiledInOrder
<1>4. EarlierFiled'
  BY <1>a DEF EarlierFiled
<1> QED
  BY <1>1, <1>2, <1>3, <1>4

(* Claiming: a pending row has no document.                                *)
LEMMA DocumentsClaim ==
    ASSUME TypeInv, ClaimDiscipline, DocumentsFiled, NEW a \in Attempts,
           ClaimForSend(a)
    PROVE  DocumentsHeld'
<1> USE ConstantsAssumption DEF TypeInv, TypeOK, CallsTyped, RowsTyped, DocumentsFiled, DocumentsHeld, ClaimDiscipline
<1> USE DEF BeforeClaim, Working, AfterAnswer, Emailed, HeldBy, Goto
<1> USE DEF numberVars, mailVars, fileVars, syncVars, hostVars
<1> USE DEF ClaimForSend
<1>a. ctx[a].receipt \in Receipts /\ row[ctx[a].receipt].attachment = None
  BY DEF ClaimForSend, ContextLoaded, DocumentIsClaims, RowNamesItsAttempt
<1>b. ClaimedBy(a).attachment = None /\ ClaimedBy(a).message = a
  BY DEF ClaimedBy
<1>1. DocumentIsClaims'
  BY <1>a, <1>b DEF DocumentIsClaims
<1>2. DocumentsBelong'
  BY <1>a, <1>b DEF DocumentsBelong
<1>3. FiledInOrder'
  BY <1>a, <1>b DEF FiledInOrder
<1>4. EarlierFiled'
  BY <1>a, <1>b DEF EarlierFiled
<1> QED
  BY <1>1, <1>2, <1>3, <1>4

(* Storing the PDF.                                                        *)
LEMMA DocumentsUpload ==
    ASSUME TypeInv, ClaimDiscipline, DocumentsFiled, NEW a \in Attempts,
           UploadPdf(a)
    PROVE  DocumentsHeld'
<1> USE ConstantsAssumption DEF TypeInv, TypeOK, CallsTyped, RowsTyped, DocumentsFiled, DocumentsHeld, ClaimDiscipline
<1> USE DEF BeforeClaim, Working, AfterAnswer, Emailed, HeldBy, Goto
<1> USE DEF numberVars, mailVars, fileVars, syncVars, hostVars
<1> USE DEF UploadPdf
<1>1. DocumentIsClaims'
  BY DEF DocumentIsClaims
<1>2. DocumentsBelong'
  BY DEF DocumentsBelong
<1>3. FiledInOrder'
  BY DEF FiledInOrder
<1>4. EarlierFiled'
  BY DEF EarlierFiled
<1> QED
  BY <1>1, <1>2, <1>3, <1>4

(* Filing: the row's claim is the attempt's, so its document is.           *)
LEMMA DocumentsFile ==
    ASSUME TypeInv, ClaimDiscipline, DocumentsFiled, NEW a \in Attempts,
           SetAttemptAttachment(a)
    PROVE  DocumentsHeld'
<1> USE ConstantsAssumption DEF TypeInv, TypeOK, CallsTyped, RowsTyped, DocumentsFiled, DocumentsHeld, ClaimDiscipline
<1> USE DEF BeforeClaim, Working, AfterAnswer, Emailed, HeldBy, Goto
<1> USE DEF numberVars, mailVars, fileVars, syncVars, hostVars
<1>z. \A b \in attachments : ctx[b].receipt \in Receipts
  BY DEF FiledInOrder, ContextLoaded
<1> DEFINE r == ctx[a].receipt
<1>a. pc[a] = "uploaded" /\ r \in Receipts /\ a \notin attachments /\ a \in pdfs
  BY DEF SetAttemptAttachment, ContextLoaded, FiledInOrder
<1>b. \/ /\ HeldBy(r, a)
         /\ attachments' = attachments \union {a}
         /\ row'[r].attachment = a /\ row'[r].message = a
         /\ \A q \in Receipts : q # r => row'[q] = row[q]
         /\ pc' = [pc EXCEPT ![a] = "filed"]
      \/ UNCHANGED <<row, attachments>> /\ pc' = [pc EXCEPT ![a] = "abandon"]
  BY <1>a DEF SetAttemptAttachment, RowType
<1>c. UNCHANGED <<ctx, pdfs, inflight, mailbox>> /\ a \notin aged
  BY <1>a DEF SetAttemptAttachment, WorkingHolds
<1>d. \A b \in attachments : ctx[b].receipt = r => ~ HeldBy(r, a)
  BY <1>a DEF DocumentsBelong, DocumentIsClaims
<1> HIDE DEF r
<1>e. ctx[a].receipt = r
  BY DEF r
<1>1. DocumentIsClaims'
  BY <1>z, <1>a, <1>b, <1>c, <1>d, <1>e DEF DocumentIsClaims
<1>2. DocumentsBelong'
  BY <1>z, <1>a, <1>b, <1>c, <1>d, <1>e DEF DocumentsBelong
<1>3. FiledInOrder'
  BY <1>z, <1>a, <1>b, <1>c, <1>d, <1>e DEF FiledInOrder, WorkingHolds, EmailIsClaimed
<1>4. EarlierFiled'
  BY <1>z, <1>a, <1>b, <1>c, <1>d, <1>e DEF EarlierFiled, SettlingIsDecided
<1> QED
  BY <1>1, <1>2, <1>3, <1>4

(* Releasing a claim settled as unsent takes its document along.           *)
LEMMA DocumentsDiscard ==
    ASSUME TypeInv, ClaimDiscipline, DocumentsFiled, NEW a \in Attempts,
           DiscardEarlier(a)
    PROVE  DocumentsHeld'
<1> USE ConstantsAssumption DEF TypeInv, TypeOK, CallsTyped, RowsTyped, DocumentsFiled, DocumentsHeld, ClaimDiscipline
<1> USE DEF BeforeClaim, Working, AfterAnswer, Emailed, HeldBy, Goto
<1> USE DEF numberVars, mailVars, fileVars, syncVars, hostVars
<1>z. \A b \in attachments : ctx[b].receipt \in Receipts
  BY DEF FiledInOrder, ContextLoaded
<1> DEFINE r == ctx[a].receipt  m == ctx[a].earlier  x == ctx[a].earlierAttachment
<1>a. /\ r \in Receipts /\ m \in Attempts /\ m \in aged /\ x \in {None, m}
      /\ (m \in attachments => x = m) /\ ~ Emailed(m) /\ ctx[m].receipt = r
      /\ pc[m] \notin Working /\ m \notin inflight
      /\ pc[a] = "discarding" /\ pc' = [pc EXCEPT ![a] = "claiming"]
      /\ UNCHANGED <<ctx, inflight, mailbox>>
  BY DEF DiscardEarlier, ContextLoaded, EarlierFiled, SettlingIsDecided, WorkingHolds
<1>b. \/ /\ HeldBy(r, m)
         /\ row'[r].attachment = None
         /\ \A q \in Receipts : q # r => row'[q] = row[q]
         /\ attachments' = attachments \ {x}
         /\ x \in attachments => pdfs \ {x} \subseteq pdfs'
         /\ x \notin attachments => pdfs' = pdfs
      \/ UNCHANGED <<row, attachments, pdfs>>
  BY <1>a DEF DiscardEarlier, DiscardAttempt, Unclaimed
<1>c. \A b \in attachments : ctx[b].receipt = r /\ HeldBy(r, m) => b = m
  BY <1>a DEF DocumentsBelong, DocumentIsClaims
<1>d. None \notin attachments
  OBVIOUS
<1> HIDE DEF r, m, x
<1>1. DocumentIsClaims'
  BY <1>z, <1>a, <1>b, <1>c, <1>d DEF DocumentIsClaims
<1>2. DocumentsBelong'
  BY <1>z, <1>a, <1>b, <1>c, <1>d DEF DocumentsBelong
<1>3. FiledInOrder'
  BY <1>z, <1>a, <1>b, <1>c, <1>d DEF FiledInOrder, WorkingHolds, NoTraceBeforeClaim
<1>4. EarlierFiled'
  BY <1>z, <1>a, <1>b, <1>c, <1>d DEF EarlierFiled
<1> QED
  BY <1>1, <1>2, <1>3, <1>4

(* So does releasing a claim Gmail refused to send for.                    *)
LEMMA DocumentsRefused ==
    ASSUME TypeInv, ClaimDiscipline, DocumentsFiled, NEW a \in Attempts,
           DiscardRefused(a)
    PROVE  DocumentsHeld'
<1> USE ConstantsAssumption DEF TypeInv, TypeOK, CallsTyped, RowsTyped, DocumentsFiled, DocumentsHeld, ClaimDiscipline
<1> USE DEF BeforeClaim, Working, AfterAnswer, Emailed, HeldBy, Goto
<1> USE DEF numberVars, mailVars, fileVars, syncVars, hostVars
<1>z. \A b \in attachments : ctx[b].receipt \in Receipts
  BY DEF FiledInOrder, ContextLoaded
<1> DEFINE r == ctx[a].receipt  m == a  x == a
<1>a. /\ r \in Receipts /\ ~ Emailed(a) /\ a \notin inflight
      /\ pc[a] = "refused" /\ pc' = [pc EXCEPT ![a] = "done"]
      /\ UNCHANGED <<ctx, inflight, mailbox>>
  BY DEF DiscardRefused, ContextLoaded, EmailIsClaimed, WorkingHolds
<1>b. \/ /\ HeldBy(r, m)
         /\ row'[r].attachment = None
         /\ \A q \in Receipts : q # r => row'[q] = row[q]
         /\ attachments' = attachments \ {x}
         /\ x \in attachments => pdfs \ {x} \subseteq pdfs'
         /\ x \notin attachments => pdfs' = pdfs
      \/ UNCHANGED <<row, attachments, pdfs>>
  BY <1>a DEF DiscardRefused, DiscardAttempt, Unclaimed
<1>c. \A b \in attachments : ctx[b].receipt = r /\ HeldBy(r, a) => b = a
  BY <1>a DEF DocumentsBelong, DocumentIsClaims
<1> HIDE DEF r
<1>1. DocumentIsClaims'
  BY <1>z, <1>a, <1>b, <1>c DEF DocumentIsClaims
<1>2. DocumentsBelong'
  BY <1>z, <1>a, <1>b, <1>c DEF DocumentsBelong
<1>3. FiledInOrder'
  BY <1>z, <1>a, <1>b, <1>c DEF FiledInOrder, WorkingHolds
<1>4. EarlierFiled'
  BY <1>z, <1>a, <1>b, <1>c DEF EarlierFiled
<1> QED
  BY <1>1, <1>2, <1>3, <1>4

(* A filing that failed has no document to take along.                     *)
LEMMA DocumentsAbandon ==
    ASSUME TypeInv, ClaimDiscipline, DocumentsFiled, NEW a \in Attempts,
           AbandonFiling(a)
    PROVE  DocumentsHeld'
<1> USE ConstantsAssumption DEF TypeInv, TypeOK, CallsTyped, RowsTyped, DocumentsFiled, DocumentsHeld, ClaimDiscipline
<1> USE DEF BeforeClaim, Working, AfterAnswer, Emailed, HeldBy, Goto
<1> USE DEF numberVars, mailVars, fileVars, syncVars, hostVars
<1>z. \A b \in attachments : ctx[b].receipt \in Receipts
  BY DEF FiledInOrder, ContextLoaded
<1> DEFINE r == ctx[a].receipt
<1>a. /\ r \in Receipts /\ a \notin attachments
      /\ pc[a] = "abandon" /\ pc' = [pc EXCEPT ![a] = "done"]
      /\ UNCHANGED <<ctx, attachments, inflight, mailbox>>
      /\ pdfs \ {a} \subseteq pdfs'
  BY DEF AbandonFiling, ContextLoaded, FiledInOrder
<1>b. \/ /\ HeldBy(r, a) /\ row'[r].attachment = None
         /\ \A q \in Receipts : q # r => row'[q] = row[q]
      \/ UNCHANGED row
  BY <1>a DEF AbandonFiling, Unclaimed
<1>c. \A b \in attachments : ctx[b].receipt = r => ~ HeldBy(r, a)
  BY <1>a DEF DocumentsBelong, DocumentIsClaims
<1> HIDE DEF r
<1>1. DocumentIsClaims'
  BY <1>z, <1>a, <1>b, <1>c DEF DocumentIsClaims
<1>2. DocumentsBelong'
  BY <1>z, <1>a, <1>b, <1>c DEF DocumentsBelong
<1>3. FiledInOrder'
  BY <1>z, <1>a, <1>b, <1>c DEF FiledInOrder, WorkingHolds, EmailIsClaimed
<1>4. EarlierFiled'
  BY <1>z, <1>a, <1>b, <1>c DEF EarlierFiled
<1> QED
  BY <1>1, <1>2, <1>3, <1>4

LEMMA MarkKeeps ==
    ASSUME RowsTyped, NEW r, NEW m, MarkSentIfClaimed(r, m)
    PROVE  \A q \in Receipts : row'[q].message = row[q].message /\ row'[q].attachment = row[q].attachment
BY DEF RowsTyped, RowType, MarkSentIfClaimed

(* Marking writes the status only.                                         *)
LEMMA DocumentsMark ==
    ASSUME TypeInv, ClaimDiscipline, DocumentsFiled, NEW a \in Attempts,
           MarkSent(a) \/ MarkFound(a)
    PROVE  DocumentsHeld'
<1> USE ConstantsAssumption DEF TypeInv, TypeOK, CallsTyped, RowsTyped, DocumentsFiled, DocumentsHeld, ClaimDiscipline
<1> USE DEF BeforeClaim, Working, AfterAnswer, Emailed, HeldBy, Goto
<1> USE DEF numberVars, mailVars, fileVars, syncVars, hostVars
<1> USE DEF MarkSent, MarkFound, Return
<1>a. \A q \in Receipts : row'[q].message = row[q].message /\ row'[q].attachment = row[q].attachment
  BY MarkKeeps
<1>b. pc[a] = "markFound" => a \notin attachments /\ ~ Emailed(a) /\ a \notin inflight
  BY DEF FiledInOrder, NoTraceBeforeClaim
<1>c. \A b \in attachments : ctx[b].receipt \in Receipts
  BY DEF FiledInOrder, ContextLoaded
<1>1. DocumentIsClaims'
  BY <1>a, <1>b, <1>c DEF DocumentIsClaims
<1>2. DocumentsBelong'
  BY <1>a, <1>b, <1>c DEF DocumentsBelong
<1>3. FiledInOrder'
  BY <1>a, <1>b, <1>c DEF FiledInOrder
<1>4. EarlierFiled'
  BY <1>a, <1>b, <1>c DEF EarlierFiled
<1> QED
  BY <1>1, <1>2, <1>3, <1>4

(* Gmail files what was filed here first.                                  *)
LEMMA DocumentsAccept ==
    ASSUME TypeInv, ClaimDiscipline, DocumentsFiled, NEW a \in Attempts,
           GmailAccepts(a) \/ RequestLost(a)
    PROVE  DocumentsHeld'
<1> USE ConstantsAssumption DEF TypeInv, TypeOK, CallsTyped, RowsTyped, DocumentsFiled, DocumentsHeld, ClaimDiscipline
<1> USE DEF BeforeClaim, Working, AfterAnswer, Emailed, HeldBy, Goto
<1> USE DEF numberVars, mailVars, fileVars, syncVars, hostVars
<1> USE DEF GmailAccepts, RequestLost
<1>1. DocumentIsClaims'
  BY DEF DocumentIsClaims
<1>2. DocumentsBelong'
  BY DEF DocumentsBelong
<1>3. FiledInOrder'
  BY DEF FiledInOrder
<1>4. EarlierFiled'
  BY DEF EarlierFiled
<1> QED
  BY <1>1, <1>2, <1>3, <1>4

(* The host deletes a document.                                            *)
LEMMA DocumentsDelete ==
    ASSUME TypeInv, ClaimDiscipline, DocumentsFiled, NEW a \in Attempts,
           DeleteAttachment(a)
    PROVE  DocumentsHeld'
<1> USE ConstantsAssumption DEF TypeInv, TypeOK, CallsTyped, RowsTyped, DocumentsFiled, DocumentsHeld, ClaimDiscipline
<1> USE DEF BeforeClaim, Working, AfterAnswer, Emailed, HeldBy, Goto
<1> USE DEF numberVars, mailVars, fileVars, syncVars, hostVars
<1> USE DEF DeleteAttachment
<1>a. \A q \in Receipts : /\ row'[q].message = row[q].message
                        /\ row'[q].attachment = IF row[q].attachment = a THEN None ELSE row[q].attachment
  BY DEF DeleteAttachment, RowType
<1>b. \A b \in attachments : ctx[b].receipt \in Receipts
  BY DEF FiledInOrder, ContextLoaded
<1>1. DocumentIsClaims'
  BY <1>a, <1>b DEF DocumentIsClaims
<1>2. DocumentsBelong'
  BY <1>a, <1>b DEF DocumentsBelong
<1>3. FiledInOrder'
  BY <1>a, <1>b DEF FiledInOrder
<1>4. EarlierFiled'
  BY <1>a, <1>b DEF EarlierFiled, FiledInOrder
<1> QED
  BY <1>1, <1>2, <1>3, <1>4

(* The host attributes a transaction, or dismisses a receipt.              *)
LEMMA DocumentsHost ==
    ASSUME TypeInv, ClaimDiscipline, DocumentsFiled, NEW r \in Receipts,
           CreateIdempotent(r) \/ DismissPendingReceipt(r)
    PROVE  DocumentsHeld'
<1> USE ConstantsAssumption DEF TypeInv, TypeOK, CallsTyped, RowsTyped, DocumentsFiled, DocumentsHeld, ClaimDiscipline
<1> USE DEF BeforeClaim, Working, AfterAnswer, Emailed, HeldBy, Goto
<1> USE DEF numberVars, mailVars, fileVars, syncVars, hostVars
<1>a. /\ \A q \in Receipts :
           \/ (row'[q].message = row[q].message /\ row'[q].attachment = row[q].attachment)
           \/ (row'[q].attachment = None /\ row[q].attachment = None)
      /\ UNCHANGED <<pc, ctx, attachments, pdfs, inflight, mailbox>>
  BY DEF CreateIdempotent, DismissPendingReceipt, Unclaimed, RowType, DocumentIsClaims, RowNamesItsAttempt
<1>b. \A b \in attachments : ctx[b].receipt \in Receipts
  BY DEF FiledInOrder, ContextLoaded
<1>1. DocumentIsClaims'
  BY <1>a, <1>b DEF DocumentIsClaims
<1>2. DocumentsBelong'
  BY <1>a, <1>b DEF DocumentsBelong
<1>3. FiledInOrder'
  BY <1>a, <1>b DEF FiledInOrder
<1>4. EarlierFiled'
  BY <1>a, <1>b DEF EarlierFiled
<1> QED
  BY <1>1, <1>2, <1>3, <1>4

LEMMA DocumentsHold ==
    ASSUME TypeInv, ClaimDiscipline, DocumentsFiled, [Next]_vars
    PROVE  DocumentsHeld'
<1>1. ASSUME NEW a \in Attempts, Call(a) PROVE DocumentsHeld'
  BY <1>1, DocumentsMove, DocumentsLoad, DocumentsReturn, DocumentsClaim, DocumentsUpload,
     DocumentsFile, DocumentsDiscard, DocumentsRefused, DocumentsAbandon, DocumentsMark
  DEF Call, Settle, Claim, File, Send, Record
<1>2. ASSUME UNCHANGED <<row, pc, ctx, attachments, pdfs, inflight, mailbox>>
      PROVE  DocumentsHeld'
  BY <1>2 DEF DocumentsFiled, DocumentsHeld, DocumentIsClaims, DocumentsBelong, FiledInOrder, EarlierFiled, Emailed
<1>3. ASSUME NEW a \in Attempts,
             GmailAccepts(a) \/ RequestLost(a) \/ ClaimAges(a) \/ DeleteAttachment(a)
      PROVE  DocumentsHeld'
  BY <1>2, <1>3, DocumentsAccept, DocumentsDelete DEF ClaimAges, mailVars, fileVars
<1>4. ASSUME NEW r \in Receipts, CreateIdempotent(r) \/ DismissPendingReceipt(r)
      PROVE  DocumentsHeld'
  BY <1>4, DocumentsHost
<1>5. CASE (\E g \in Accounts : UpsertGmail(g)) \/ DisconnectGmail \/ MarkNeedsReauth \/ UNCHANGED vars
  BY <1>2, <1>5 DEF UpsertGmail, DisconnectGmail, MarkNeedsReauth, vars, mailVars, fileVars
<1>6. ASSUME NEW s \in Syncs, Discover(s) PROVE DocumentsHeld'
  BY <1>2, <1>6, DiscoverKeeps DEF mailVars, fileVars
<1>7. ASSUME NEW r \in Receipts, NEW e \in Addresses, ChangeTenantEmail(r, e)
      PROVE  DocumentsHeld'
  BY <1>2, <1>7 DEF ChangeTenantEmail, mailVars, fileVars
<1> QED
  BY <1>1, <1>3, <1>4, <1>5, <1>6, <1>7 DEF Next, World

(* Only a request that is not settled yet makes a receipt one being sent.  *)
LEMMA SentAgain ==
    ASSUME TypeInv, ClaimDiscipline, [Next]_vars, NEW r \in Receipts, BeingSent(r)'
    PROVE  BeingSent(r) \/ row[r].status = "pending"
<1>1. CASE row'[r].status = "sending"
  BY <1>1, SendingBy DEF BeingSent, ClaimForSend, BeforeClaim
<1>2. ASSUME NEW a \in Attempts, ctx'[a].receipt = r, pc'[a] \in BeforeClaim
      PROVE  BeingSent(r) \/ row[r].status = "pending"
  <2>1. CASE pc[a] \in BeforeClaim /\ ctx'[a] = ctx[a]
    BY <1>2, <2>1 DEF BeingSent
  <2>2. ASSUME NEW q \in Receipts, LoadContext(a, q)
        PROVE  BeingSent(r) \/ row[r].status = "pending"
    <3>1. ctx'[a].receipt = q
      BY <2>2 DEF LoadContext, Context, TypeInv, TypeOK
    <3> QED
      BY <1>2, <2>2, <3>1 DEF LoadContext, BeingSent
  <2>3. CASE pc'[a] = pc[a] /\ ctx'[a] = ctx[a]
    BY <1>2, <2>1, <2>3
  <2> QED
    BY <1>2, <2>1, <2>2, <2>3, OnlyItsCall, BeforeClaimBy
<1> QED
  BY <1>1, <1>2 DEF BeingSent

(* A document leaves the lease by the host's hand or with its claim.       *)
LEMMA DocumentsLeave ==
    ASSUME TypeInv, [Next]_vars, NEW x \in attachments, x \notin attachments'
    PROVE  \/ DeleteAttachment(x)
           \/ DiscardRefused(x)
           \/ \E a \in Attempts : DiscardEarlier(a) /\ ctx[a].earlierAttachment = x
<1> USE DEF fileVars
<1>1. ASSUME NEW a \in Attempts, Call(a)
      PROVE  \/ DiscardRefused(a) /\ a = x
             \/ DiscardEarlier(a) /\ ctx[a].earlierAttachment = x
  BY <1>1
  DEF Call, Settle, Claim, File, Send, Record, LoadContext, SearchGmail, RecordFound, MarkFound,
      DiscardEarlier, ClaimForSend, ClaimRefused, UploadPdf, SetAttemptAttachment, FilingFails,
      AbandonFiling, PostMessage, ReceiveSentId, SendRefused, DiscardRefused, RecordSent, MarkSent,
      FailBeforeClaim, EndUnsettled, DiscardAttempt
<1>2. ASSUME NEW a \in Attempts, DeleteAttachment(a) PROVE a = x
  BY <1>2 DEF DeleteAttachment
<1>3. ASSUME NEW q \in Syncs, Discover(q) PROVE FALSE
  BY <1>3, DiscoverKeeps
<1> QED
  BY <1>1, <1>2, <1>3
  DEF Next, World, vars, GmailAccepts, RequestLost, ClaimAges, ChangeTenantEmail,
      CreateIdempotent, DismissPendingReceipt, UpsertGmail, DisconnectGmail, MarkNeedsReauth

(* An attempt comes to its document before anything is sent.               *)
LEMMA OutAfterFiling ==
    ASSUME TypeInv, ClaimDiscipline, [Next]_vars, NEW a \in Attempts, MayBeOut(a)'
    PROVE  MayBeOut(a) \/ (SetAttemptAttachment(a) /\ a \in attachments')
<1> USE DEF TypeInv, TypeOK, Goto, MayBeOut, Emailed, mailVars
<1>1. ASSUME NEW b \in Attempts, GmailAccepts(b) PROVE MayBeOut(a)
  BY <1>1 DEF GmailAccepts
<1>2. CASE SetAttemptAttachment(a)
  BY <1>2 DEF SetAttemptAttachment
<1>3. ASSUME NEW b \in Attempts, PostMessage(b) PROVE MayBeOut(a)
  BY <1>3 DEF PostMessage
<1>4. ASSUME NEW b \in Attempts, Call(b), ~ PostMessage(b)
      PROVE  UNCHANGED mailbox /\ inflight' \subseteq inflight
  BY <1>4
  DEF Call, Settle, Claim, File, Send, Record, LoadContext, SearchGmail, RecordFound, MarkFound,
      DiscardEarlier, ClaimForSend, ClaimRefused, UploadPdf, SetAttemptAttachment, FilingFails,
      AbandonFiling, ReceiveSentId, SendRefused, DiscardRefused, RecordSent, MarkSent,
      FailBeforeClaim, EndUnsettled
<1>5. CASE Call(a) /\ ~ PostMessage(a) /\ ~ SetAttemptAttachment(a)
  <2>1. pc'[a] \notin {"filed", "posting"}
    BY <1>5
    DEF Call, Settle, Claim, File, Send, Record, LoadContext, SearchGmail, RecordFound, MarkFound,
        DiscardEarlier, ClaimForSend, ClaimRefused, UploadPdf, FilingFails, Return,
        AbandonFiling, ReceiveSentId, SendRefused, DiscardRefused, RecordSent, MarkSent,
        FailBeforeClaim, EndUnsettled
  <2> QED
    BY <1>4, <1>5, <2>1
<1>6. ASSUME NEW q \in Syncs, Discover(q) PROVE UNCHANGED <<inflight, mailbox, pc>>
  BY <1>6, DiscoverKeeps
<1>7. CASE (World \/ UNCHANGED vars) /\ ~ (\E b \in Attempts : GmailAccepts(b))
  <2>1. inflight' \subseteq inflight /\ UNCHANGED <<mailbox, pc>>
    BY <1>6, <1>7
    DEF World, vars, RequestLost, ClaimAges, DeleteAttachment, ChangeTenantEmail,
        CreateIdempotent, DismissPendingReceipt, UpsertGmail, DisconnectGmail, MarkNeedsReauth
  <2> QED
    BY <2>1
<1>8. ASSUME NEW b \in Attempts, b # a, Call(b), ~ PostMessage(b)
      PROVE  MayBeOut(a) \/ (SetAttemptAttachment(a) /\ a \in attachments')
  <2>1. pc'[a] = pc[a] \/ Call(a)
    BY OnlyItsCall
  <2> QED
    BY <1>2, <1>3, <1>4, <1>5, <1>8, <2>1
<1> QED
  BY <1>1, <1>2, <1>3, <1>5, <1>7, <1>8 DEF Next

LEMMA DocumentKeptStep ==
    ASSUME TypeInv, ClaimDiscipline, DocumentsFiled, [Next]_vars
    PROVE  DocumentKept'
<1> SUFFICES ASSUME DocumentsStay, NEW a \in Attempts, MayBeOut(a)', BeingSent(ctx[a].receipt)'
             PROVE  a \in attachments'
  BY DEF DocumentKept
<1> USE DEF ClaimDiscipline
<1>1. CASE ~ MayBeOut(a)
  BY <1>1, OutAfterFiling
<1>2. CASE MayBeOut(a)
  <2>1. /\ PastClaim(a)
        /\ ctx[a].receipt \in Receipts
        /\ row[ctx[a].receipt].status \in {"sending", "sent", "dismissed"}
    BY <1>2 DEF MayBeOut, PastClaim, NoTraceBeforeClaim, WorkingHolds, EmailIsClaimed, ContextLoaded,
                HeldBy, Working, BeforeClaim
  <2>2. ctx'[a] = ctx[a]
    BY <2>1, PastClaimStays
  <2>3. BeingSent(ctx[a].receipt)
    <3>1. ASSUME NEW r \in Receipts, r = ctx[a].receipt PROVE BeingSent(r)'
      BY <2>2, <3>1 DEF BeingSent
    <3> QED
      BY <2>1, <3>1, SentAgain
  <2>4. a \in attachments
    BY <1>2, <2>3 DEF DocumentsFiled, DocumentKept
  <2>5. ~ DeleteAttachment(a)
    BY <2>3 DEF DeleteAttachment
  <2>6. ~ DiscardRefused(a)
    BY <1>2 DEF DiscardRefused, MayBeOut, WorkingHolds, EmailIsClaimed
  <2>7. ASSUME NEW b \in Attempts, DiscardEarlier(b) PROVE ctx[b].earlierAttachment # a
    <3>1. /\ ctx[b].earlierAttachment \in {None, ctx[b].earlier}
          /\ ctx[b].earlier \in aged
          /\ ~ Emailed(ctx[b].earlier)
      BY <2>7 DEF DiscardEarlier, DocumentsFiled, DocumentsHeld, EarlierFiled, SettlingIsDecided, BeforeClaim
    <3> QED
      BY <1>2, <3>1, ConstantsAssumption DEF MayBeOut, WorkingHolds, Working
  <2> QED
    BY <2>4, <2>5, <2>6, <2>7, DocumentsLeave
<1> QED
  BY <1>1, <1>2

LEMMA DocumentsStep ==
    ASSUME TypeInv, ClaimDiscipline, DocumentsFiled, [Next]_vars
    PROVE  DocumentsFiled'
BY DocumentsHold, DocumentKeptStep DEF DocumentsFiled

LEMMA DocumentsInit ==
    ASSUME Assumptions, Init
    PROVE  DocumentsFiled
<1>1. \A r \in Receipts : row[r].attachment = None /\ row[r].message = None
  BY DEF Init, Assumptions, Unclaimed
<1>2. \A a \in Attempts : pc[a] = "idle" /\ ~ Emailed(a)
  BY <1>1, ConstantsAssumption DEF Init, Assumptions
<1> QED
  BY <1>1, <1>2
  DEF Init, DocumentsFiled, DocumentsHeld, DocumentKept, MayBeOut, DocumentIsClaims, DocumentsBelong, FiledInOrder, EarlierFiled, BeforeClaim

LEMMA Disciplined ==
    ASSUME Assumptions
    PROVE  Spec => [](TypeInv /\ ClaimDiscipline /\ DocumentsFiled)
<1>1. Init => TypeInv /\ ClaimDiscipline /\ DocumentsFiled
  BY TypeInit, DisciplineInit, DocumentsInit
<1>2. TypeInv /\ ClaimDiscipline /\ DocumentsFiled /\ [Next]_vars
        => (TypeInv /\ ClaimDiscipline /\ DocumentsFiled)'
  BY TypeStep, DisciplineStep, DocumentsStep
<1> QED
  BY <1>1, <1>2, PTL DEF Spec

(* While the assumptions hold, the claim discipline always does.           *)
THEOREM Discipline ==
    ASSUME Assumptions
    PROVE  Spec => []ClaimDiscipline
BY Disciplined, PTL

(* A document listed with the lease is the one its receipt points at, and  *)
(* its PDF is stored: an attempt that is abandoned, refused or settled as  *)
(* unsent leaves none.                                                     *)
THEOREM DocumentsAreReceipts ==
    ASSUME Assumptions
    PROVE  Spec => []DocumentsBelong
<1>1. DocumentsFiled => DocumentsBelong
  BY DEF DocumentsFiled, DocumentsHeld
<1> QED
  BY <1>1, Disciplined, PTL

(* The tenant is never emailed twice about one receipt.                    *)
THEOREM OneEmail ==
    ASSUME Assumptions
    PROVE  Spec => []AtMostOneEmail
<1>1. ClaimDiscipline => AtMostOneEmail
  BY DEF ClaimDiscipline, EmailIsClaimed, AtMostOneEmail
<1> QED
  BY <1>1, Discipline, PTL

(* An email that is out, or may yet be, is still the one its row names.    *)
THEOREM ClaimKept ==
    ASSUME Assumptions
    PROVE  Spec => []EmailKeepsItsClaim
<1>1. ClaimDiscipline => EmailKeepsItsClaim
  BY DEF ClaimDiscipline, EmailIsClaimed, WorkingHolds, EmailKeepsItsClaim
<1> QED
  BY <1>1, Discipline, PTL

-----------------------------------------------------------------------------
(* ReceiptSend implements SendOnce.                                        *)

StateMap == [r \in Receipts |-> AbstractState(r)]
MailMap == [r \in Receipts |-> AbstractMail(r)]

(* Steps that move the status of one receipt and mail nothing.             *)
LEMMA MoveMaps ==
    ASSUME NEW r \in Receipts,
           UNCHANGED MailMap,
           \A q \in Receipts \ {r} : row'[q].status = row[q].status,
           \/ row'[r].status = row[r].status
           \/ row[r].status = "absent" /\ row'[r].status = "pending"
           \/ row[r].status = "pending" /\ row'[r].status = "sending"
           \/ row[r].status \in {"pending", "sending"} /\ row'[r].status = "dismissed"
           \/ row[r].status = "sending" /\ row'[r].status = "pending" /\ AbstractMail(r) = {}
           \/ row[r].status = "sending" /\ row'[r].status = "sent" /\ AbstractMail(r) # {}
    PROVE  [Once!Next]_<<StateMap, MailMap>>
<1>1. StateMap' = [StateMap EXCEPT ![r] = AbstractState(r)']
  <2>1. \A q \in Receipts \ {r} : AbstractState(q)' = AbstractState(q)
    BY DEF AbstractState
  <2>2. StateMap' = [q \in Receipts |-> AbstractState(q)']
    BY DEF StateMap
  <2> QED
    BY <2>1, <2>2, Zenon DEF StateMap
<1>2. MailMap[r] = AbstractMail(r) /\ StateMap[r] = AbstractState(r)
  BY DEF StateMap, MailMap
<1>3. CASE row'[r].status = row[r].status
  <2>1. AbstractState(r)' = AbstractState(r)
    BY <1>3 DEF AbstractState
  <2> QED
    BY <1>1, <1>2, <2>1 DEF StateMap
<1>4. CASE row[r].status = "absent" /\ row'[r].status = "pending"
  BY <1>1, <1>2, <1>4 DEF AbstractState, Once!Next, Once!Open, Once!Move, StateMap, MailMap
<1>5. CASE row[r].status = "pending" /\ row'[r].status = "sending"
  BY <1>1, <1>2, <1>5 DEF AbstractState, Once!Next, Once!Try, Once!Move, StateMap, MailMap
<1>6. CASE row[r].status \in {"pending", "sending"} /\ row'[r].status = "dismissed"
  BY <1>1, <1>2, <1>6 DEF AbstractState, Once!Next, Once!Drop, Once!Move, StateMap, MailMap
<1>7. CASE row[r].status = "sending" /\ row'[r].status = "pending" /\ AbstractMail(r) = {}
  BY <1>1, <1>2, <1>7 DEF AbstractState, Once!Next, Once!GiveUp, Once!Move, StateMap, MailMap
<1>8. CASE row[r].status = "sending" /\ row'[r].status = "sent" /\ AbstractMail(r) # {}
  BY <1>1, <1>2, <1>8 DEF AbstractState, Once!Next, Once!Confirm, Once!Move, StateMap, MailMap
<1> QED
  BY <1>3, <1>4, <1>5, <1>6, <1>7, <1>8

(* Steps that leave the rows' status and the mail alone.                   *)
LEMMA StutterMaps ==
    ASSUME UNCHANGED MailMap, \A q \in Receipts : row'[q].status = row[q].status
    PROVE  [Once!Next]_<<StateMap, MailMap>>
<1>1. \A q \in Receipts : AbstractState(q)' = AbstractState(q)
  BY DEF AbstractState
<1> QED
  BY <1>1 DEF StateMap

(* Emails stay where they are while the mailbox does and only attempts     *)
(* that have sent nothing change their context.                            *)
LEMMA MailStays ==
    ASSUME UNCHANGED mailbox,
           \A a \in Attempts : Emailed(a) => ctx'[a].receipt = ctx[a].receipt
    PROVE  UNCHANGED MailMap
<1>1. \A r \in Receipts : AbstractMail(r)' = AbstractMail(r)
  BY DEF AbstractMail, Emailed
<1> QED
  BY <1>1 DEF MailMap

(* The email of a row under a claim is the claim's.                        *)
LEMMA MailOfClaim ==
    ASSUME ClaimDiscipline, NEW r \in Receipts, NEW m \in Attempts, HeldBy(r, m)
    PROVE  (AbstractMail(r) = {}) <=> ~ Emailed(m)
<1>1. \A a \in Attempts : Emailed(a) /\ ctx[a].receipt = r => a = m
  BY DEF ClaimDiscipline, EmailIsClaimed, HeldBy
<1>2. ctx[m].receipt = r
  BY ConstantsAssumption DEF ClaimDiscipline, RowNamesItsAttempt, HeldBy
<1> QED
  BY <1>1, <1>2 DEF AbstractMail

LEMMA InitMaps ==
    ASSUME Assumptions, Init
    PROVE  Once!Init
<1>1. \A r \in Receipts : row[r] = Unclaimed("absent")
  BY DEF Init, Assumptions
<1>2. \A r \in Receipts : AbstractState(r) = "absent"
  BY <1>1 DEF Unclaimed, AbstractState
<1>3. \A a \in Attempts : ~ Emailed(a)
  BY <1>1, ConstantsAssumption DEF Init, Unclaimed
<1>4. \A r \in Receipts : AbstractMail(r) = {}
  BY <1>3 DEF AbstractMail
<1>5. /\ StateMap \in [Receipts -> {"absent", "open", "trying"}]
      /\ MailMap \in [Receipts -> {{}} \union {{m} : m \in Attempts}]
      /\ \A r \in Receipts : MailMap[r] = {}
  BY <1>2, <1>4 DEF StateMap, MailMap
<1> QED
  BY <1>5 DEF StateMap, MailMap, Once!Init

(* Every step of a call, and of the world, is a step of SendOnce or none.  *)
LEMMA CallMaps ==
    ASSUME TypeInv, ClaimDiscipline, NEW a \in Attempts, Call(a)
    PROVE  [Once!Next]_<<StateMap, MailMap>>
<1> USE DEF numberVars, mailVars, fileVars, syncVars, hostVars
<1>a. pc[a] \in Busy => ctx[a].receipt \in Receipts
  BY DEF TypeInv, CallsTyped
<1>b. pc[a] \in {"idle"} \union BeforeClaim => ~ Emailed(a)
  BY DEF ClaimDiscipline, NoTraceBeforeClaim
<1>1. ASSUME NEW r \in Receipts, LoadContext(a, r) PROVE [Once!Next]_<<StateMap, MailMap>>
  <2>1. UNCHANGED MailMap
    BY <1>1, <1>b, MailStays DEF LoadContext, TypeInv, CallsTyped
  <2> QED
    BY <1>1, <2>1, StutterMaps DEF LoadContext
<1>2. CASE \/ SearchGmail(a) \/ RecordFound(a) \/ UploadPdf(a) \/ FilingFails(a) \/ PostMessage(a)
           \/ ReceiveSentId(a) \/ SendRefused(a) \/ RecordSent(a) \/ EndUnsettled(a)
  <2>1. UNCHANGED <<row, ctx, mailbox>>
    BY <1>2 DEF SearchGmail, RecordFound, UploadPdf, FilingFails, PostMessage, ReceiveSentId,
                SendRefused, RecordSent, EndUnsettled
  <2> QED
    BY <2>1, MailStays, StutterMaps
<1>3. CASE ClaimRefused(a) \/ FailBeforeClaim(a)
  <2>1. UNCHANGED MailMap
    BY <1>3, <1>b, MailStays DEF ClaimRefused, FailBeforeClaim, Return, BeforeClaim, TypeInv, CallsTyped
  <2> QED
    BY <1>3, <2>1, StutterMaps DEF ClaimRefused, FailBeforeClaim
<1>4. CASE ClaimForSend(a)
  <2>1. UNCHANGED MailMap
    BY <1>4, MailStays DEF ClaimForSend
  <2>2. /\ ctx[a].receipt \in Receipts
        /\ row[ctx[a].receipt].status = "pending"
        /\ row'[ctx[a].receipt].status = "sending"
        /\ \A q \in Receipts \ {ctx[a].receipt} : row'[q].status = row[q].status
    BY <1>4, <1>a DEF ClaimForSend, ClaimedBy, Busy, BeforeClaim, TypeInv, RowsTyped
  <2> QED
    BY <2>1, <2>2, MoveMaps
<1>5. CASE SetAttemptAttachment(a)
  <2>1. UNCHANGED MailMap
    BY <1>5, MailStays DEF SetAttemptAttachment
  <2>2. \A q \in Receipts : row'[q].status = row[q].status
    BY <1>5 DEF SetAttemptAttachment, TypeInv, RowsTyped, RowType
  <2> QED
    BY <2>1, <2>2, StutterMaps
<1>6. ASSUME NEW m \in Attempts, ~ Emailed(m), UNCHANGED MailMap, ctx[a].receipt \in Receipts,
             ClaimEnds(ctx[a].receipt, m, "pending")
      PROVE  [Once!Next]_<<StateMap, MailMap>>
  BY <1>6, MailOfClaim, MoveMaps, StutterMaps DEF ClaimEnds, HeldBy
<1>7. ASSUME NEW m \in Attempts, Emailed(m), UNCHANGED MailMap, ctx[a].receipt \in Receipts,
             ClaimEnds(ctx[a].receipt, m, "sent")
      PROVE  [Once!Next]_<<StateMap, MailMap>>
  BY <1>7, MailOfClaim, MoveMaps, StutterMaps DEF ClaimEnds, HeldBy
<1>8. CASE DiscardEarlier(a) \/ DiscardRefused(a)
  <2>1. UNCHANGED MailMap
    BY <1>8, MailStays DEF DiscardEarlier, DiscardRefused
  <2>2. CASE DiscardEarlier(a)
    <3>1. ctx[a].earlier \in Attempts /\ ~ Emailed(ctx[a].earlier) /\ ctx[a].receipt \in Receipts
      BY <2>2, <1>a DEF DiscardEarlier, TypeInv, CallsTyped, BeforeClaim, Busy, ClaimDiscipline, SettlingIsDecided
    <3>2. ClaimEnds(ctx[a].receipt, ctx[a].earlier, "pending")
      BY <2>2, <3>1, Releases DEF DiscardEarlier, TypeInv
    <3> QED
      BY <2>1, <3>1, <3>2, <1>6
  <2>3. CASE DiscardRefused(a)
    <3>1. ~ Emailed(a) /\ ctx[a].receipt \in Receipts
      BY <2>3, <1>a DEF DiscardRefused, AfterAnswer, Busy, ClaimDiscipline, EmailIsClaimed
    <3>2. ClaimEnds(ctx[a].receipt, a, "pending")
      BY <2>3, <3>1, Releases DEF DiscardRefused, TypeInv
    <3> QED
      BY <2>1, <3>1, <3>2, <1>6
  <2> QED
    BY <1>8, <2>2, <2>3
<1>9. CASE AbandonFiling(a)
  <2>1. UNCHANGED MailMap
    BY <1>9, MailStays DEF AbandonFiling
  <2>2. ~ Emailed(a) /\ ctx[a].receipt \in Receipts
    BY <1>9, <1>a DEF AbandonFiling, AfterAnswer, Busy, ClaimDiscipline, EmailIsClaimed
  <2>3. ClaimEnds(ctx[a].receipt, a, "pending") \/ UNCHANGED row
    BY <1>9, <2>2 DEF AbandonFiling, ClaimEnds, TypeInv, RowsTyped, Unclaimed, HeldBy
  <2> QED
    BY <2>1, <2>2, <2>3, <1>6, StutterMaps
<1>10. CASE MarkSent(a)
  <2>1. UNCHANGED MailMap
    BY <1>10, MailStays DEF MarkSent
  <2>2. Emailed(a) /\ ctx[a].receipt \in Receipts
    BY <1>10, <1>a DEF MarkSent, AfterAnswer, Busy, ClaimDiscipline, SettlingIsDecided
  <2>3. ClaimEnds(ctx[a].receipt, a, "sent")
    BY <1>10, <2>2, Releases DEF MarkSent, TypeInv
  <2> QED
    BY <2>1, <2>2, <2>3, <1>7
<1>11. CASE MarkFound(a)
  <2>1. UNCHANGED MailMap
    BY <1>11, <1>b, MailStays DEF MarkFound, Return, BeforeClaim, TypeInv, CallsTyped
  <2>2. ctx[a].earlier \in Attempts /\ Emailed(ctx[a].earlier) /\ ctx[a].receipt \in Receipts
    BY <1>11, <1>a DEF MarkFound, TypeInv, CallsTyped, BeforeClaim, Busy, ClaimDiscipline, SettlingIsDecided
  <2>3. ClaimEnds(ctx[a].receipt, ctx[a].earlier, "sent")
    BY <1>11, <2>2, Releases DEF MarkFound, TypeInv
  <2> QED
    BY <2>1, <2>2, <2>3, <1>7
<1> QED
  BY <1>1, <1>2, <1>3, <1>4, <1>5, <1>8, <1>9, <1>10, <1>11
  DEF Call, Settle, Claim, File, Send, Record

LEMMA WorldMaps ==
    ASSUME TypeInv, ClaimDiscipline, World
    PROVE  [Once!Next]_<<StateMap, MailMap>>
<1> USE DEF numberVars, mailVars, fileVars, syncVars, hostVars
<1>1. ASSUME NEW a \in Attempts, GmailAccepts(a) PROVE [Once!Next]_<<StateMap, MailMap>>
  <2> DEFINE r == ctx[a].receipt
  <2>1. /\ r \in Receipts /\ HeldBy(r, a) /\ ~ Emailed(a)
        /\ ctx[a].account \in Accounts /\ ctx[a].account # None
    BY <1>1, ConstantsAssumption DEF GmailAccepts, ClaimDiscipline, WorkingHolds, ContextLoaded
  <2>2. AbstractMail(r) = {}
    BY <2>1, MailOfClaim
  <2>3. \A b \in Attempts : Emailed(b)' <=> (Emailed(b) \/ b = a)
    BY <1>1, <2>1 DEF GmailAccepts, Emailed, TypeInv, TypeOK
  <2>4. \A q \in Receipts : AbstractMail(q)' = IF q = r THEN {a} ELSE AbstractMail(q)
    <3>1. \A q \in Receipts : AbstractMail(q)' = {b \in Attempts : (Emailed(b) \/ b = a) /\ ctx[b].receipt = q}
      BY <1>1, <2>3 DEF GmailAccepts, AbstractMail
    <3>2. \A b \in Attempts : Emailed(b) => ctx[b].receipt # r
      BY <2>2 DEF AbstractMail
    <3> QED
      BY <3>1, <3>2 DEF AbstractMail
  <2>5. MailMap' = [MailMap EXCEPT ![r] = {a}]
    BY <2>4, <2>1 DEF MailMap
  <2>6. UNCHANGED StateMap
    BY <1>1 DEF GmailAccepts, StateMap, AbstractState
  <2>7. StateMap[r] = "trying" /\ MailMap[r] = {}
    BY <2>1, <2>2 DEF StateMap, MailMap, AbstractState, HeldBy
  <2> QED
    BY <2>1, <2>5, <2>6, <2>7 DEF Once!Next, Once!Deliver, StateMap, MailMap
<1>2. ASSUME NEW a \in Attempts, RequestLost(a) \/ ClaimAges(a)
      PROVE  [Once!Next]_<<StateMap, MailMap>>
  <2>1. UNCHANGED <<row, ctx, mailbox>>
    BY <1>2 DEF RequestLost, ClaimAges
  <2> QED
    BY <2>1, MailStays, StutterMaps
<1>3. ASSUME NEW a \in Attempts, DeleteAttachment(a) PROVE [Once!Next]_<<StateMap, MailMap>>
  <2>1. UNCHANGED MailMap
    BY <1>3, MailStays DEF DeleteAttachment
  <2>2. \A q \in Receipts : row'[q].status = row[q].status
    BY <1>3 DEF DeleteAttachment, TypeInv, RowsTyped, RowType
  <2> QED
    BY <2>1, <2>2, StutterMaps
<1>4. ASSUME NEW r \in Receipts, CreateIdempotent(r) \/ DismissPendingReceipt(r)
      PROVE  [Once!Next]_<<StateMap, MailMap>>
  <2>1. UNCHANGED MailMap
    BY <1>4, MailStays DEF CreateIdempotent, DismissPendingReceipt
  <2>2. /\ \A q \in Receipts \ {r} : row'[q].status = row[q].status
        /\ \/ row[r].status = "absent" /\ row'[r].status = "pending"
           \/ row[r].status \in {"pending", "sending"} /\ row'[r].status = "dismissed"
    BY <1>4 DEF CreateIdempotent, DismissPendingReceipt, SentFromOtherGmail, Unclaimed,
                TypeInv, RowsTyped, RowType
  <2> QED
    BY <2>1, <2>2, MoveMaps
<1>5. ASSUME NEW g \in Accounts, UpsertGmail(g) PROVE [Once!Next]_<<StateMap, MailMap>>
  BY <1>5, MailStays, StutterMaps DEF UpsertGmail
<1>6. CASE DisconnectGmail \/ MarkNeedsReauth
  BY <1>6, MailStays, StutterMaps DEF DisconnectGmail, MarkNeedsReauth
<1>7. ASSUME NEW s \in Syncs, Discover(s) PROVE [Once!Next]_<<StateMap, MailMap>>
  BY <1>7, DiscoverKeeps, MailStays, StutterMaps
<1>8. ASSUME NEW r \in Receipts, NEW e \in Addresses, ChangeTenantEmail(r, e)
      PROVE  [Once!Next]_<<StateMap, MailMap>>
  BY <1>8, MailStays, StutterMaps DEF ChangeTenantEmail
<1> QED
  BY <1>1, <1>2, <1>3, <1>4, <1>5, <1>6, <1>7, <1>8 DEF World

(* Sending receipts implements SendOnce: one email, confirmed only when it *)
(* is out, and no way back to "open" once it is.                           *)
THEOREM ReceiptsSendOnce ==
    ASSUME Assumptions
    PROVE  Spec => SendsOnce
<1>1. Init => Once!Init
  BY InitMaps
<1>2. TypeInv /\ ClaimDiscipline /\ [Next]_vars => [Once!Next]_<<StateMap, MailMap>>
  <2>1. ASSUME UNCHANGED vars PROVE UNCHANGED <<StateMap, MailMap>>
    BY <2>1 DEF vars, mailVars, StateMap, MailMap, AbstractState, AbstractMail, Emailed
  <2> QED
    BY <2>1, CallMaps, WorldMaps DEF Next
<1> QED
  BY <1>1, <1>2, Disciplined, PTL DEF Spec, SendsOnce, Once!Spec, StateMap, MailMap

-----------------------------------------------------------------------------
(* What holds without the assumptions: however slow filing is.             *)

(* A step that changes a row's status or message finds it unfinished, and  *)
(* one that takes m's claim away is m's own or comes after the claim is    *)
(* stale, once every call that settles only ever settles a stale claim.    *)
EarlierIsAged ==
    \A a \in Attempts : pc[a] \in BeforeClaim \ {"claiming"} => ctx[a].earlier \in aged

RowChange ==
    \A r \in Receipts :
        \/ row'[r].status = row[r].status /\ row'[r].message = row[r].message
        \/ row[r].status \in {"absent", "pending"}
        \/ row[r].status = "sending" /\ row[r].message \in aged
        \/ /\ row[r].status = "sending"
           /\ row[r].message \in Attempts
           /\ pc'[row[r].message] # pc[row[r].message]

LEMMA EndsChange ==
    ASSUME RowsTyped, NEW r \in Receipts, NEW m \in Attempts, NEW status,
           ClaimEnds(r, m, status),
           m \in aged \/ pc'[m] # pc[m]
    PROVE  RowChange
  BY DEF RowChange, ClaimEnds, HeldBy, RowsTyped

LEMMA RowsChange ==
    ASSUME TypeInv, EarlierIsAged, [Next]_vars
    PROVE  RowChange /\ EarlierIsAged'
<1> USE DEF numberVars, mailVars, fileVars, syncVars, hostVars, TypeInv
<1>1. ASSUME NEW a \in Attempts, Call(a) PROVE RowChange /\ EarlierIsAged'
  <2> USE DEF Goto, BeforeClaim, Working, AfterAnswer
  <2>a. pc[a] \in Busy => ctx[a].receipt \in Receipts
    BY DEF CallsTyped
  <2>b. pc \in [Attempts -> PCs] /\ ctx \in [Attempts -> CtxType]
    BY DEF CallsTyped
  <2>1. ASSUME NEW r \in Receipts, LoadContext(a, r) PROVE RowChange /\ EarlierIsAged'
    BY <2>1, <2>b DEF LoadContext, Context, IsSendClaimStale, RowChange, EarlierIsAged
  <2>2. CASE \/ SearchGmail(a) \/ RecordFound(a) \/ UploadPdf(a) \/ FilingFails(a) \/ PostMessage(a)
             \/ ReceiveSentId(a) \/ SendRefused(a) \/ RecordSent(a) \/ EndUnsettled(a)
    BY <2>2, <2>b DEF SearchGmail, RecordFound, UploadPdf, FilingFails, PostMessage, ReceiveSentId,
                SendRefused, RecordSent, EndUnsettled, RowChange, EarlierIsAged
  <2>3. CASE ClaimRefused(a) \/ FailBeforeClaim(a)
    BY <2>3, <2>b DEF ClaimRefused, FailBeforeClaim, Return, RowChange, EarlierIsAged
  <2>4. CASE ClaimForSend(a)
    BY <2>4, <2>a, <2>b DEF ClaimForSend, Busy, RowsTyped, RowChange, EarlierIsAged
  <2>5. CASE SetAttemptAttachment(a)
    BY <2>5, <2>b DEF SetAttemptAttachment, RowsTyped, RowType, RowChange, EarlierIsAged
  <2>6. CASE AbandonFiling(a) \/ DiscardRefused(a) \/ MarkSent(a)
    <3>1. EarlierIsAged' /\ pc'[a] # pc[a] /\ ctx[a].receipt \in Receipts
      BY <2>6, <2>a, <2>b DEF AbandonFiling, DiscardRefused, MarkSent, Busy, EarlierIsAged
    <3>2. CASE AbandonFiling(a)
      <4>1. UNCHANGED row \/ ClaimEnds(ctx[a].receipt, a, "pending")
        BY <3>1, <3>2 DEF AbandonFiling, ClaimEnds, RowsTyped, Unclaimed, HeldBy
      <4> QED
        BY <3>1, <4>1, EndsChange DEF RowChange
    <3>3. CASE DiscardRefused(a) \/ MarkSent(a)
      <4>1. \E status \in {"pending", "sent"} : ClaimEnds(ctx[a].receipt, a, status)
        BY <3>1, <3>3, Releases DEF DiscardRefused, MarkSent
      <4> QED
        BY <3>1, <4>1, EndsChange
    <3> QED
      BY <2>6, <3>2, <3>3
  <2>7. CASE DiscardEarlier(a) \/ MarkFound(a)
    <3>1. /\ EarlierIsAged'
          /\ ctx[a].receipt \in Receipts
          /\ ctx[a].earlier \in aged /\ ctx[a].earlier \in Attempts
      BY <2>7, <2>a, <2>b DEF DiscardEarlier, MarkFound, Return, Busy, EarlierIsAged, CallsTyped
    <3>2. \E status \in {"pending", "sent"} : ClaimEnds(ctx[a].receipt, ctx[a].earlier, status)
      BY <2>7, <3>1, Releases DEF DiscardEarlier, MarkFound
    <3> QED
      BY <3>1, <3>2, EndsChange
  <2> QED
    BY <1>1, <2>1, <2>2, <2>3, <2>4, <2>5, <2>6, <2>7 DEF Call, Settle, Claim, File, Send, Record
<1>2. ASSUME NEW a \in Attempts, DeleteAttachment(a) PROVE RowChange /\ EarlierIsAged'
  BY <1>2 DEF DeleteAttachment, RowsTyped, RowType, RowChange, EarlierIsAged
<1>3. ASSUME NEW r \in Receipts, CreateIdempotent(r) \/ DismissPendingReceipt(r)
      PROVE  RowChange /\ EarlierIsAged'
  BY <1>3 DEF CreateIdempotent, DismissPendingReceipt, SentFromOtherGmail, IsSendClaimStale,
              RowsTyped, RowChange, EarlierIsAged
<1>4. ASSUME UNCHANGED <<row, pc, ctx>>, aged \subseteq aged' PROVE RowChange /\ EarlierIsAged'
  BY <1>4 DEF RowChange, EarlierIsAged
<1>5. ASSUME NEW a \in Attempts, GmailAccepts(a) \/ RequestLost(a) \/ ClaimAges(a)
      PROVE  RowChange /\ EarlierIsAged'
  BY <1>5, <1>4 DEF GmailAccepts, RequestLost, ClaimAges
<1>6. CASE (\E g \in Accounts : UpsertGmail(g)) \/ DisconnectGmail \/ MarkNeedsReauth
  BY <1>6, <1>4 DEF UpsertGmail, DisconnectGmail, MarkNeedsReauth
<1>7. CASE UNCHANGED vars
  BY <1>7, <1>4 DEF vars
<1>8. ASSUME NEW s \in Syncs, Discover(s) PROVE RowChange /\ EarlierIsAged'
  BY <1>8, <1>4, DiscoverKeeps
<1>9. ASSUME NEW r \in Receipts, NEW e \in Addresses, ChangeTenantEmail(r, e)
      PROVE  RowChange /\ EarlierIsAged'
  BY <1>9, <1>4 DEF ChangeTenantEmail
<1> QED
  BY <1>1, <1>2, <1>3, <1>5, <1>6, <1>7, <1>8, <1>9 DEF Next, World

LEMMA AgedInit == Init => TypeInv /\ EarlierIsAged
  BY TypeInit DEF Init, EarlierIsAged, BeforeClaim

(* A sent or dismissed receipt is never touched again.                     *)
THEOREM FinishedStays == Spec => FinishedIsFinal
<1>1. ASSUME TypeInv, EarlierIsAged, [Next]_vars
      PROVE  [\A r \in Receipts :
                row[r].status \in {"sent", "dismissed"} =>
                    /\ row'[r].status = row[r].status
                    /\ row'[r].message = row[r].message]_vars
  BY <1>1, RowsChange DEF RowChange
<1> QED
  BY AgedInit, TypeStep, RowsChange, <1>1, PTL DEF Spec, FinishedIsFinal

(* Until it is stale a claim is ended by the attempt that took it or not   *)
(* at all.                                                                 *)
THEOREM ClaimsExclusive == Spec => FreshClaimIsExclusive
<1>1. ASSUME TypeInv, EarlierIsAged, [Next]_vars
      PROVE  [\A r \in Receipts, m \in Attempts :
                HeldBy(r, m) /\ m \notin aged /\ ~ HeldBy(r, m)' => pc'[m] # pc[m]]_vars
  BY <1>1, RowsChange DEF RowChange, HeldBy
<1> QED
  BY AgedInit, TypeStep, RowsChange, <1>1, PTL DEF Spec, FreshClaimIsExclusive

-----------------------------------------------------------------------------
(* The numbers.  A number is at most its series' last one, so the next one *)
(* is new.                                                                 *)
NumbersTaken ==
    \A a \in Attempts :
        number[a] # 0 =>
            /\ PastClaim(a)
            /\ ctx[a].receipt \in Receipts
            /\ number[a] <= lastNumber[SeriesOf[ctx[a].receipt]]

LEMMA NumbersChange ==
    ASSUME [Next]_vars
    PROVE  (\E a \in Attempts : ClaimForSend(a)) \/ UNCHANGED <<number, lastNumber>>
<1> USE DEF numberVars
<1>1. ASSUME NEW a \in Attempts, Call(a)
      PROVE  ClaimForSend(a) \/ UNCHANGED <<number, lastNumber>>
  BY <1>1
  DEF Call, Settle, Claim, File, Send, Record, LoadContext, SearchGmail, RecordFound, MarkFound,
      DiscardEarlier, ClaimRefused, UploadPdf, SetAttemptAttachment, FilingFails, AbandonFiling,
      PostMessage, ReceiveSentId, SendRefused, DiscardRefused, RecordSent, MarkSent,
      FailBeforeClaim, EndUnsettled
<1>2. CASE World \/ UNCHANGED vars
  BY <1>2 DEF World, vars, GmailAccepts, RequestLost, ClaimAges, DeleteAttachment, ChangeTenantEmail,
              Discover, BeginSync, ListNewEmails, QueueEmails, SyncFails,
              CreateIdempotent, DismissPendingReceipt, UpsertGmail, DisconnectGmail, MarkNeedsReauth
<1> QED
  BY <1>1, <1>2 DEF Next

LEMMA NumbersStep ==
    TypeInv /\ NumbersTaken /\ NumbersUnique /\ [Next]_vars => NumbersTaken' /\ NumbersUnique'
<1> SUFFICES ASSUME TypeInv, NumbersTaken, NumbersUnique, [Next]_vars
             PROVE  NumbersTaken' /\ NumbersUnique'
  OBVIOUS
<1>1. CASE UNCHANGED <<number, lastNumber>>
  BY <1>1, PastClaimStays DEF NumbersTaken, NumbersUnique
<1>2. ASSUME NEW a \in Attempts, ClaimForSend(a) PROVE NumbersTaken' /\ NumbersUnique'
  <2> DEFINE r == ctx[a].receipt  s == SeriesOf[r]  n == lastNumber[s] + 1
  <2>1. /\ r \in Receipts /\ s \in Series /\ lastNumber[s] \in Nat /\ ctx' = ctx
        /\ PastClaim(a)'
    BY <1>2, ConstantsAssumption
    DEF ClaimForSend, TypeInv, TypeOK, CallsTyped, Busy, BeforeClaim, PastClaim, Goto
  <2>2. /\ number' = [number EXCEPT ![a] = n]
        /\ lastNumber' = [lastNumber EXCEPT ![s] = n]
        /\ number \in [Attempts -> Nat] /\ lastNumber \in [Series -> Nat]
    BY <1>2 DEF ClaimForSend, NextNumber, TypeInv, TypeOK
  <2>3. \A q \in Receipts : SeriesOf[q] \in Series
    BY ConstantsAssumption
  <2> HIDE DEF n
  <2>4. n = lastNumber[s] + 1
    BY DEF n
  <2>5. NumbersTaken'
    <3> SUFFICES ASSUME NEW b \in Attempts, number'[b] # 0
                 PROVE  /\ PastClaim(b)' /\ ctx[b].receipt \in Receipts
                        /\ number'[b] <= lastNumber'[SeriesOf[ctx[b].receipt]]
      BY <2>1 DEF NumbersTaken
    <3>1. CASE b = a
      BY <2>1, <2>2, <2>4, <3>1
    <3>2. CASE b # a
      <4>1. number'[b] = number[b] /\ PastClaim(b)' /\ ctx[b].receipt \in Receipts
        BY <2>2, <3>2, PastClaimStays DEF NumbersTaken
      <4>2. SeriesOf[ctx[b].receipt] \in Series
        BY <2>3, <4>1
      <4>3. lastNumber[SeriesOf[ctx[b].receipt]] <= lastNumber'[SeriesOf[ctx[b].receipt]]
        BY <2>1, <2>2, <2>4, <4>2
      <4>4. number[b] <= lastNumber[SeriesOf[ctx[b].receipt]]
        BY <4>1 DEF NumbersTaken
      <4>5. number[b] \in Nat /\ lastNumber[SeriesOf[ctx[b].receipt]] \in Nat
             /\ lastNumber'[SeriesOf[ctx[b].receipt]] \in Nat
        BY <2>1, <2>2, <2>4, <4>2
      <4> QED
        BY <4>1, <4>3, <4>4, <4>5
    <3> QED
      BY <3>1, <3>2
  <2>6. \A b \in Attempts : b # a /\ number[b] # 0 /\ SeriesOf[ctx[b].receipt] = s => number[b] # n
    BY <2>1, <2>2, <2>4 DEF NumbersTaken
  <2>7. NumbersUnique'
    BY <2>1, <2>2, <2>4, <2>6 DEF NumbersUnique
  <2> QED
    BY <2>5, <2>7
<1> QED
  BY <1>1, <1>2, NumbersChange

(* No two receipts of a year share a number, whatever fails in between and *)
(* however slow filing is.                                                 *)
THEOREM NumbersStayUnique == Spec => []NumbersUnique
<1>1. Init => NumbersTaken /\ NumbersUnique
  BY DEF Init, NumbersTaken, NumbersUnique
<1> QED
  BY <1>1, TypeInit, TypeStep, NumbersStep, PTL DEF Spec

-----------------------------------------------------------------------------
(* What reads "sent".                                                      *)

LEMMA SentBy ==
    ASSUME TypeInv, [Next]_vars, NEW r \in Receipts, row'[r].status = "sent"
    PROVE  \/ row[r].status = "sent" /\ row'[r].message = row[r].message
           \/ \E a \in Attempts : MarkSent(a) /\ row'[r].message = a
           \/ \E a \in Attempts : MarkFound(a) /\ row'[r].message = ctx[a].earlier
<1> USE DEF TypeInv, RowsTyped
<1>1. ASSUME NEW q \in Receipts, NEW m, ClaimEnds(q, m, "pending")
      PROVE  row[r].status = "sent" /\ row'[r].message = row[r].message
  BY <1>1 DEF ClaimEnds
<1>2. ASSUME NEW q \in Receipts, NEW m, ClaimEnds(q, m, "sent")
      PROVE  (row[r].status = "sent" /\ row'[r].message = row[r].message) \/ row'[r].message = m
  BY <1>2 DEF ClaimEnds
<1>3. CASE row' = row
  BY <1>3
<1>4. ASSUME NEW a \in Attempts, Call(a)
      PROVE  \/ row[r].status = "sent" /\ row'[r].message = row[r].message
             \/ MarkSent(a) /\ row'[r].message = a
             \/ MarkFound(a) /\ row'[r].message = ctx[a].earlier
  <2>1. pc[a] \in Busy => ctx[a].receipt \in Receipts
    BY DEF CallsTyped
  <2>2. CASE ClaimForSend(a)
    BY <2>2 DEF ClaimForSend, ClaimedBy
  <2>3. CASE SetAttemptAttachment(a)
    BY <2>3 DEF SetAttemptAttachment, RowType
  <2>4. CASE AbandonFiling(a)
    BY <2>4 DEF AbandonFiling, Unclaimed
  <2>5. CASE DiscardEarlier(a) \/ DiscardRefused(a)
    <3>1. \E m : ClaimEnds(ctx[a].receipt, m, "pending")
      BY <2>1, <2>5, Releases DEF DiscardEarlier, DiscardRefused, Busy, BeforeClaim, AfterAnswer
    <3>2. ctx[a].receipt \in Receipts
      BY <2>1, <2>5 DEF DiscardEarlier, DiscardRefused, Busy, BeforeClaim, AfterAnswer
    <3> QED
      BY <1>1, <3>1, <3>2
  <2>6. CASE MarkSent(a)
    <3>1. ctx[a].receipt \in Receipts /\ ClaimEnds(ctx[a].receipt, a, "sent")
      BY <2>1, <2>6, Releases DEF MarkSent, Busy, AfterAnswer
    <3> QED
      BY <1>2, <2>6, <3>1
  <2>7. CASE MarkFound(a)
    <3>1. ctx[a].receipt \in Receipts /\ ClaimEnds(ctx[a].receipt, ctx[a].earlier, "sent")
      BY <2>1, <2>7, Releases DEF MarkFound, Busy, BeforeClaim
    <3> QED
      BY <1>2, <2>7, <3>1
  <2> QED
    BY <1>3, <1>4, <2>2, <2>3, <2>4, <2>5, <2>6, <2>7
    DEF Call, Settle, Claim, File, Send, Record, LoadContext, SearchGmail, RecordFound,
        ClaimRefused, FailBeforeClaim, UploadPdf, FilingFails, PostMessage, ReceiveSentId,
        SendRefused, RecordSent, EndUnsettled
<1>5. ASSUME NEW a \in Attempts, DeleteAttachment(a)
      PROVE  row[r].status = "sent" /\ row'[r].message = row[r].message
  BY <1>5 DEF DeleteAttachment, RowType
<1>6. ASSUME NEW q \in Receipts, CreateIdempotent(q) \/ DismissPendingReceipt(q)
      PROVE  row[r].status = "sent" /\ row'[r].message = row[r].message
  BY <1>6 DEF CreateIdempotent, DismissPendingReceipt, Unclaimed, RowType, Statuses
<1> QED
  BY <1>3, <1>4, <1>5, <1>6
  DEF Next, World, vars, GmailAccepts, RequestLost, ClaimAges, UpsertGmail, ChangeTenantEmail,
      Discover, BeginSync, ListNewEmails, QueueEmails, SyncFails,
      DisconnectGmail, MarkNeedsReauth

(* How a call comes to record and to mark.                                 *)
LEMMA ReachesMark ==
    ASSUME TypeInv, NEW a \in Attempts, Call(a)
    PROVE  /\ pc'[a] = "recordFound" => SearchGmail(a) /\ FoundInGmail(a)
           /\ pc'[a] = "markFound" => RecordFound(a)
           /\ pc'[a] = "recording" => ReceiveSentId(a)
           /\ pc'[a] = "marking" => RecordSent(a)
<1> USE DEF TypeInv, TypeOK, Goto
<1>1. ASSUME NEW r \in Receipts, LoadContext(a, r) PROVE pc'[a] \in {"claiming", "settling"}
  BY <1>1 DEF LoadContext
<1>2. SearchGmail(a) => pc'[a] = "discarding" \/ (pc'[a] = "recordFound" /\ FoundInGmail(a))
  BY DEF SearchGmail
<1>3. RecordFound(a) => pc'[a] = "markFound"
  BY DEF RecordFound
<1>4. CASE DiscardEarlier(a) \/ ClaimForSend(a) \/ MarkFound(a) \/ ClaimRefused(a) \/ FailBeforeClaim(a)
  BY <1>4 DEF DiscardEarlier, ClaimForSend, MarkFound, ClaimRefused, FailBeforeClaim, Return
<1>5. CASE UploadPdf(a) \/ SetAttemptAttachment(a) \/ FilingFails(a) \/ AbandonFiling(a)
           \/ PostMessage(a) \/ SendRefused(a) \/ DiscardRefused(a) \/ MarkSent(a) \/ EndUnsettled(a)
  BY <1>5 DEF UploadPdf, SetAttemptAttachment, FilingFails, AbandonFiling, PostMessage,
              SendRefused, DiscardRefused, MarkSent, EndUnsettled
<1>6. ReceiveSentId(a) => pc'[a] = "recording"
  BY DEF ReceiveSentId
<1>7. RecordSent(a) => pc'[a] = "marking"
  BY DEF RecordSent
<1> QED
  BY <1>1, <1>2, <1>3, <1>4, <1>5, <1>6, <1>7 DEF Call, Settle, Claim, File, Send, Record

(* An email is out once it is recorded, and stays out.                     *)
RecordsWhatIsOut ==
    /\ \A a \in inflight : PastClaim(a) /\ ctx[a].account \in Accounts
    /\ \A a \in Attempts :
         /\ pc[a] \in {"recordFound", "markFound"} => Emailed(ctx[a].earlier)
         /\ pc[a] \in {"recording", "marking"} => Emailed(a)

LEMMA EmailsStay ==
    ASSUME TypeInv, RecordsWhatIsOut, [Next]_vars, NEW m, Emailed(m)
    PROVE  Emailed(m)'
<1>1. ASSUME NEW a \in Attempts, GmailAccepts(a) PROVE Emailed(m)'
  BY <1>1, ConstantsAssumption DEF GmailAccepts, Emailed, RecordsWhatIsOut, TypeInv, TypeOK
<1>2. CASE UNCHANGED mailbox
  BY <1>2 DEF Emailed
<1>3. ASSUME NEW a \in Attempts, Call(a) PROVE UNCHANGED mailbox
  BY <1>3
  DEF Call, Settle, Claim, File, Send, Record, LoadContext, SearchGmail, RecordFound, MarkFound,
      DiscardEarlier, ClaimForSend, ClaimRefused, UploadPdf, SetAttemptAttachment, FilingFails,
      AbandonFiling, PostMessage, ReceiveSentId, SendRefused, DiscardRefused, RecordSent, MarkSent,
      FailBeforeClaim, EndUnsettled, mailVars
<1> QED
  BY <1>1, <1>2, <1>3
  DEF Next, World, vars, RequestLost, ClaimAges, DeleteAttachment, ChangeTenantEmail,
              Discover, BeginSync, ListNewEmails, QueueEmails, SyncFails,
      CreateIdempotent, DismissPendingReceipt, UpsertGmail, DisconnectGmail, MarkNeedsReauth, mailVars

LEMMA OutStep == TypeInv /\ RecordsWhatIsOut /\ [Next]_vars => RecordsWhatIsOut'
<1> SUFFICES ASSUME TypeInv, RecordsWhatIsOut, [Next]_vars PROVE RecordsWhatIsOut'
  OBVIOUS
<1>1. \A a \in inflight' : PastClaim(a)' /\ ctx'[a].account \in Accounts
  <2>1. \A a \in inflight : a \in Attempts /\ PastClaim(a)' /\ ctx'[a].account \in Accounts
    BY PastClaimStays DEF RecordsWhatIsOut, TypeInv, TypeOK
  <2>2. inflight' \subseteq inflight \/ \E a \in Attempts : PostMessage(a)
    <3>1. ASSUME NEW a \in Attempts, Call(a) PROVE PostMessage(a) \/ inflight' \subseteq inflight
      BY <3>1
      DEF Call, Settle, Claim, File, Send, Record, LoadContext, SearchGmail, RecordFound, MarkFound,
          DiscardEarlier, ClaimForSend, ClaimRefused, UploadPdf, SetAttemptAttachment, FilingFails,
          AbandonFiling, ReceiveSentId, SendRefused, DiscardRefused, RecordSent, MarkSent,
          FailBeforeClaim, EndUnsettled, mailVars
    <3> QED
      BY <3>1
      DEF Next, World, vars, GmailAccepts, RequestLost, ClaimAges, DeleteAttachment, ChangeTenantEmail,
              Discover, BeginSync, ListNewEmails, QueueEmails, SyncFails,
          CreateIdempotent, DismissPendingReceipt, UpsertGmail, DisconnectGmail, MarkNeedsReauth, mailVars
  <2>3. ASSUME NEW a \in Attempts, PostMessage(a)
        PROVE  PastClaim(a)' /\ ctx'[a].account \in Accounts /\ inflight' = inflight \union {a}
    BY <2>3 DEF PostMessage, Goto, PastClaim, BeforeClaim, Busy, Working, TypeInv, TypeOK, CallsTyped
  <2> QED
    BY <2>1, <2>2, <2>3
<1>2. ASSUME NEW a \in Attempts
      PROVE  /\ pc'[a] \in {"recordFound", "markFound"} => Emailed(ctx[a].earlier)'
             /\ pc'[a] \in {"recording", "marking"} => Emailed(a)'
  <2>1. CASE pc'[a] = pc[a] /\ ctx'[a] = ctx[a]
    <3>1. /\ pc'[a] \in {"recordFound", "markFound"} => Emailed(ctx[a].earlier)
          /\ pc'[a] \in {"recording", "marking"} => Emailed(a)
      BY <2>1 DEF RecordsWhatIsOut
    <3> QED
      BY <2>1, <3>1, EmailsStay DEF Emailed
  <2>2. CASE Call(a)
    <3>1. pc'[a] = "recordFound" => ctx' = ctx /\ Emailed(ctx[a].earlier)
      BY <2>2, ReachesMark DEF SearchGmail, FoundInGmail
    <3>2. pc'[a] = "markFound" => ctx' = ctx /\ Emailed(ctx[a].earlier)
      BY <2>2, ReachesMark DEF RecordFound, RecordsWhatIsOut
    <3>3. pc'[a] = "recording" => Emailed(a)
      BY <2>2, ReachesMark DEF ReceiveSentId
    <3>4. pc'[a] = "marking" => Emailed(a)
      BY <2>2, ReachesMark DEF RecordSent, RecordsWhatIsOut
    <3> QED
      BY <3>1, <3>2, <3>3, <3>4, EmailsStay DEF Emailed
  <2> QED
    BY <2>1, <2>2, OnlyItsCall
<1> QED
  BY <1>1, <1>2 DEF RecordsWhatIsOut

(* What reads "sent" was emailed: whatever Gmail does to headers, however  *)
(* slow filing is, and for claims of any age.                              *)
THEOREM SentIsTrue == Spec => []SentMeansEmailed
<1>1. Init => RecordsWhatIsOut /\ SentMeansEmailed
  BY DEF Init, Unclaimed, LegacyRow, RecordsWhatIsOut, SentMeansEmailed
<1>2. ASSUME TypeInv, RecordsWhatIsOut, SentMeansEmailed, [Next]_vars PROVE SentMeansEmailed'
  <2> SUFFICES ASSUME NEW r \in Receipts, row'[r].status = "sent" PROVE Emailed(row[r].message)'
    BY DEF SentMeansEmailed
  <2>1. ASSUME NEW m, row'[r].message = m, Emailed(m) PROVE Emailed(row[r].message)'
    BY <1>2, <2>1, EmailsStay DEF Emailed
  <2>2. CASE row[r].status = "sent" /\ row'[r].message = row[r].message
    BY <1>2, <2>1, <2>2 DEF SentMeansEmailed
  <2>3. ASSUME NEW a \in Attempts, MarkSent(a), row'[r].message = a PROVE Emailed(row[r].message)'
    BY <1>2, <2>1, <2>3 DEF MarkSent, RecordsWhatIsOut
  <2>4. ASSUME NEW a \in Attempts, MarkFound(a), row'[r].message = ctx[a].earlier
        PROVE  Emailed(row[r].message)'
    BY <1>2, <2>1, <2>4 DEF MarkFound, RecordsWhatIsOut
  <2> QED
    BY <1>2, <2>2, <2>3, <2>4, SentBy
<1> QED
  BY <1>1, <1>2, TypeInit, TypeStep, OutStep, PTL DEF Spec

LoggedFirst ==
    \A a \in Attempts :
        /\ pc[a] = "markFound" => ctx[a].earlier \in appSent
        /\ pc[a] = "marking" => a \in appSent

LEMMA LogGrows == [Next]_vars => appSent \subseteq appSent'
<1> USE DEF syncVars, hostVars
<1>1. ASSUME NEW a \in Attempts, Call(a) PROVE appSent \subseteq appSent'
  BY <1>1
  DEF Call, Settle, Claim, File, Send, Record, LoadContext, SearchGmail, RecordFound, MarkFound,
      DiscardEarlier, ClaimForSend, ClaimRefused, UploadPdf, SetAttemptAttachment, FilingFails,
      AbandonFiling, PostMessage, ReceiveSentId, SendRefused, DiscardRefused, RecordSent, MarkSent,
      FailBeforeClaim, EndUnsettled, RecordAppSent
<1> QED
  BY <1>1
  DEF Next, World, vars, GmailAccepts, RequestLost, ClaimAges, DeleteAttachment, ChangeTenantEmail,
              Discover, BeginSync, ListNewEmails, QueueEmails, SyncFails,
      CreateIdempotent, DismissPendingReceipt, UpsertGmail, DisconnectGmail, MarkNeedsReauth

(* A run of the sync knows what read sent when it began.                   *)
SyncKnows == \A s \in Syncs : sync[s].sent \subseteq sync[s].known

LEMMA SyncStep ==
    ASSUME TypeInv, SyncKnows, SentIsFiltered, [Next]_vars
    PROVE  /\ SyncKnows'
           /\ \A s \in Syncs : sync'[s].sent \intersect sync'[s].found = {}
<1> USE DEF TypeInv, TypeOK, SyncType, SyncKnows, SentIsFiltered
<1>1. ASSUME NEW q \in Syncs, Discover(q), NEW s \in Syncs
      PROVE  /\ sync'[s].sent \subseteq sync'[s].known
             /\ sync'[s].sent \intersect sync'[s].found = {}
  <2>1. CASE BeginSync(q)
    <3>1. {row[r].message : r \in {p \in Receipts : row[p].status = "sent"}} \subseteq ReadKnownIds
      BY DEF ReadKnownIds
    <3> QED
      BY <2>1, <3>1 DEF BeginSync
  <2>2. CASE ListNewEmails(q)
    BY <2>2 DEF ListNewEmails
  <2>3. CASE QueueEmails(q) \/ SyncFails(q)
    BY <2>3 DEF QueueEmails, SyncFails, NoSync
  <2> QED
    BY <1>1, <2>1, <2>2, <2>3 DEF Discover
<1>2. ASSUME UNCHANGED sync
      PROVE  /\ SyncKnows'
             /\ \A s \in Syncs : sync'[s].sent \intersect sync'[s].found = {}
  BY <1>2
<1>3. ASSUME NEW a \in Attempts, Call(a) PROVE UNCHANGED sync
  BY <1>3
  DEF Call, Settle, Claim, File, Send, Record, LoadContext, SearchGmail, RecordFound, MarkFound,
      DiscardEarlier, ClaimForSend, ClaimRefused, UploadPdf, SetAttemptAttachment, FilingFails,
      AbandonFiling, PostMessage, ReceiveSentId, SendRefused, DiscardRefused, RecordSent, MarkSent,
      FailBeforeClaim, EndUnsettled, RecordAppSent, syncVars
<1>4. (\E q \in Syncs : Discover(q)) \/ UNCHANGED sync
  BY <1>3
  DEF Next, World, vars, GmailAccepts, RequestLost, ClaimAges, DeleteAttachment, ChangeTenantEmail,
      CreateIdempotent, DismissPendingReceipt, UpsertGmail, DisconnectGmail, MarkNeedsReauth, syncVars
<1> QED
  BY <1>1, <1>2, <1>4

LEMMA LogStep ==
    LogNeverFails /\ TypeInv /\ LoggedFirst /\ SyncKnows /\ SentIsFiltered /\ [Next]_vars
        => LoggedFirst' /\ SyncKnows' /\ SentIsFiltered'
<1> SUFFICES ASSUME LogNeverFails, TypeInv, LoggedFirst, SyncKnows, SentIsFiltered, [Next]_vars
             PROVE  LoggedFirst' /\ SyncKnows' /\ SentIsFiltered'
  OBVIOUS
<1>1. ASSUME NEW a \in Attempts
      PROVE  /\ pc'[a] = "markFound" => ctx'[a].earlier \in appSent'
             /\ pc'[a] = "marking" => a \in appSent'
  <2>1. CASE pc'[a] = pc[a] /\ ctx'[a] = ctx[a]
    BY <2>1, LogGrows DEF LoggedFirst
  <2>2. CASE Call(a)
    BY <2>2, ReachesMark DEF RecordFound, RecordSent, RecordAppSent
  <2> QED
    BY <2>1, <2>2, OnlyItsCall
<1>2. ASSUME NEW r \in Receipts, row'[r].status = "sent" PROVE row'[r].message \in appSent'
  BY <1>2, SentBy, LogGrows DEF SentIsFiltered, LoggedFirst, MarkSent, MarkFound
<1> QED
  BY <1>1, <1>2, SyncStep DEF LoggedFirst, SentIsFiltered

(* What reads "sent" is in the log, and a run of the sync that begins from *)
(* then on does not find it, as long as the log's write reaches its commit.*)
THEOREM SentStaysFiltered ==
    ASSUME LogNeverFails
    PROVE  Spec => []SentIsFiltered
<1>1. Init => LoggedFirst /\ SyncKnows /\ SentIsFiltered
  BY DEF Init, Unclaimed, LegacyRow, NoSync, LoggedFirst, SyncKnows, SentIsFiltered
<1> QED
  BY <1>1, TypeInit, TypeStep, LogStep, PTL DEF Spec

=============================================================================
