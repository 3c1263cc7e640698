----------------------------- MODULE ReplySend -----------------------------
(***************************************************************************)
(* Replying to an inquiry by email (MyBookkeeper): the requests that run   *)
(* send_reply on one inquiry, the inquiry_reply_sends rows they claim, the *)
(* inquiry_messages they record, and what changes under them: the Gmail    *)
(* request on the wire, the clock, the Gmail connection, the listing's     *)
(* pets, the inquiry's stage, its deletion, and crashes.                   *)
(*                                                                         *)
(* One inquiry is modelled: a reply reads and writes its own inquiry and   *)
(* the organization's Gmail connection, nothing of another inquiry.        *)
(*                                                                         *)
(* An attempt is one call of send_reply. It generates one Message-ID, so   *)
(* the attempt also stands for that Message-ID, for the claim inserted     *)
(* with it and for the email sent under it. A call that ends before its    *)
(* claim has generated nothing and its attempt is free to be used again.   *)
(***************************************************************************)
EXTENDS Naturals, FiniteSets

CONSTANTS
    Attempts,        \* calls of send_reply that may claim or answer
    Keys,            \* client_request_ids: one per reply as written
    Texts,           \* replies as written; the request hash tells them apart
    Disclosing,      \* the texts that tell of the pets by themselves
    Pets,            \* what the listing may say of pets when a reply loads it
    Accounts,        \* Gmail accounts the organization may connect
    None,            \* SQL NULL; as a key, an app that sends none
    HeaderKept,      \* TRUE: Gmail keeps the Message-ID it is given
    LogNeverFails,   \* TRUE: record_app_sent_email reaches its commit
    MaxConnections,  \* bound on the host's changes of the Gmail connection
    MaxEdits         \* bound on the host's edits of the inquiry

ASSUME ConstantsAssumption ==
    /\ None \notin Attempts \union Keys \union Texts \union Accounts
    /\ Disclosing \subseteq Texts
    /\ Pets \subseteq BOOLEAN
    /\ {HeaderKept, LogNeverFails} \subseteq BOOLEAN
    /\ MaxConnections \in Nat /\ MaxEdits \in Nat

VARIABLES
    claim,      \* claim[k]: the row claimed for k, or NoClaim
    pc,         \* pc[a]: where the call is
    ctx,        \* ctx[a]: its request, its ReplySendContext, what it has read
    aged,       \* Message-IDs whose claim is past the stale window
    inflight,   \* send requests on their way to Gmail
    mailbox,    \* mailbox[a]: the account a's email is filed in, or None
    messages,   \* outbound inquiry_messages
    appSent,    \* app-sent messages in email_filter_logs
    inquiry,    \* its stage, whether it is live; the host once set it to new
    conn        \* the organization's Gmail integration row

vars == <<claim, pc, ctx, aged, inflight, mailbox, messages, appSent,
          inquiry, conn>>

mailVars == <<inflight, mailbox>>
recordVars == <<messages, appSent, inquiry>>

-----------------------------------------------------------------------------
(* The claim, the calls, the records.                                      *)

Stages == {"new", "replied", "later"}

NoClaim == [status |-> "none", message |-> None, sender |-> None, text |-> None]

ClaimType == [status : {"none", "sending", "sent"},
              message : Attempts \union {None},
              sender : Accounts \union {None},
              text : Texts \union {None}]

CtxType == [key : Keys \union {None}, text : Texts \union {None},
            account : Accounts \union {None},
            pets : BOOLEAN, told : BOOLEAN,
            earlier : Attempts \union {None},
            stage : Stages \union {None}]

InquiryType == [stage : Stages, live : BOOLEAN, edits : Nat, reopened : BOOLEAN]

MessageType == [email : Attempts, by : Attempts, told : BOOLEAN]

BeforeClaim == {"settling", "releasing", "claiming"}

(* Positions from the claim until Gmail's answer.                          *)
Working == {"claimed", "posting"}

Recording == {"logging", "reading", "committing"}

PCs == {"idle", "refused", "answered", "ended"}
         \union BeforeClaim \union Working \union Recording

NoContext == [key |-> None, text |-> None, account |-> None,
              pets |-> FALSE, told |-> FALSE, earlier |-> None, stage |-> None]

Emailed(m) == mailbox[m] # None

(* Wrong on purpose: the writes don't ask for the status. *)
HeldInAnyStatus(k, m) == claim[k].message = m

(* The WHERE clause of release and mark_sent.                              *)
HeldBy(k, m) == claim[k].status = "sending" /\ claim[k].message = m

SentAs(k, m) == claim[k].status = "sent" /\ claim[k].message = m

(* The email a call records: the earlier attempt's it found, or its own.   *)
EmailOf(a) == IF ctx[a].earlier # None THEN ctx[a].earlier ELSE a

(* Wrong on purpose: every claim may be settled at once. *)
StaleAtOnce(k) == TRUE

IsSendClaimStale(k) == claim[k].message \in aged

(* Wrong on purpose: the connected mailbox answers for every account. *)
AnyGmailAddress(k, g) == TRUE

SameGmailAddress(k, g) == claim[k].sender = g

(* Wrong on purpose: no request hash, the key alone tells replies apart. *)
AnyRequest(k, t) == TRUE

SameRequest(k, t) == claim[k].text = t

(* Wrong on purpose: a reply that is only on its way counts as told. *)
AboutToTell == \E a \in Attempts : ctx[a].told

(* Some recorded reply tells of the pets.                                  *)
AlreadyTold == \E m \in messages : m.told

(* The body that goes out tells of the pets: the text does by itself, or   *)
(* the disclosure is put before it because no recorded reply has it.       *)
BodyTells(p, t) == p /\ (t \in Disclosing \/ ~ AlreadyTold)

(* What a search of the connected mailbox for the Message-ID of the        *)
(* earlier attempt answers. There is no other: under a header Gmail put    *)
(* in its place the email is not found.                                    *)
FoundInGmail(a) == HeaderKept /\ mailbox[ctx[a].earlier] = ctx[a].account

NextStageForReply(stage) == IF stage = "new" THEN "replied" ELSE stage

Goto(a, where) == pc' = [pc EXCEPT ![a] = where]

Request(k, t) == [NoContext EXCEPT !.key = k, !.text = t]

(* The call ends. Of one that settled an earlier attempt, its request is   *)
(* left; of one that claimed or sent, what it may have sent.               *)
Finish(a, how) ==
    /\ Goto(a, how)
    /\ ctx' = [ctx EXCEPT ![a] =
                  IF @.earlier # None THEN Request(@.key, @.text)
                                      ELSE [@ EXCEPT !.stage = None]]

(* The call raises having claimed nothing.                                 *)
Return(a) ==
    /\ Goto(a, "idle")
    /\ ctx' = [ctx EXCEPT ![a] = NoContext]

-----------------------------------------------------------------------------
Init ==
    /\ claim = [k \in Keys |-> NoClaim]
    /\ pc = [a \in Attempts |-> "idle"]
    /\ ctx = [a \in Attempts |-> NoContext]
    /\ aged = {}
    /\ inflight = {}
    /\ mailbox = [a \in Attempts |-> None]
    /\ messages = {}
    /\ appSent = {}
    /\ inquiry = [stage |-> "new", live |-> TRUE, edits |-> 0, reopened |-> FALSE]
    /\ conn = [account |-> None, made |-> 0]

-----------------------------------------------------------------------------
(* send_reply: load and settle.                                            *)

(* What _load hands on.                                                    *)
Context(k, t, p, earlier) ==
    [Request(k, t) EXCEPT !.account = conn.account, !.pets = p,
                          !.told = BodyTells(p, t), !.earlier = earlier]

(* The reply was sent and recorded: answered with it, Gmail or no Gmail.   *)
Replay(a, k, t) ==
    /\ pc[a] = "idle"
    /\ inquiry.live
    /\ claim[k].status = "sent"
    /\ SameRequest(k, t)
    /\ ctx' = [ctx EXCEPT ![a] = Request(k, t)]
    /\ Goto(a, "answered")
    /\ UNCHANGED <<claim, aged, mailVars, recordVars, conn>>

(* A deleted inquiry, a key used for another text, a claim not yet stale   *)
(* or from another account, no connection: all raise and change nothing.   *)
Load(a, k, t, p) ==
    /\ pc[a] = "idle"
    /\ inquiry.live
    /\ conn.account # None
    /\ \/ /\ k # None => claim[k] = NoClaim
          /\ ctx' = [ctx EXCEPT ![a] = Context(k, t, p, None)]
          /\ Goto(a, IF k = None THEN "claimed" ELSE "claiming")
       \/ /\ k # None /\ claim[k].status = "sending"
          /\ SameRequest(k, t)
          /\ IsSendClaimStale(k)
          /\ SameGmailAddress(k, conn.account)
          /\ ctx' = [ctx EXCEPT ![a] = Context(k, t, p, claim[k].message)]
          /\ Goto(a, "settling")
    /\ UNCHANGED <<claim, aged, mailVars, recordVars, conn>>

SearchGmail(a) ==
    /\ pc[a] = "settling"
    /\ Goto(a, IF FoundInGmail(a) THEN "logging" ELSE "releasing")
    /\ UNCHANGED <<claim, ctx, aged, mailVars, recordVars, conn>>

(* Gmail has no such email: release the claim and send, or raise if the    *)
(* claim is no longer the one that was loaded.                             *)
ReleaseEarlier(a) ==
    LET k == ctx[a].key IN
    /\ pc[a] = "releasing"
    /\ HeldBy(k, ctx[a].earlier)
    /\ claim' = [claim EXCEPT ![k] = NoClaim]
    /\ ctx' = [ctx EXCEPT ![a].earlier = None]
    /\ Goto(a, "claiming")
    /\ UNCHANGED <<aged, mailVars, recordVars, conn>>

ReleaseRefused(a) ==
    /\ pc[a] = "releasing"
    /\ ~ HeldBy(ctx[a].key, ctx[a].earlier)
    /\ Return(a)
    /\ UNCHANGED <<claim, aged, mailVars, recordVars, conn>>

(* Gmail can't be asked, the database is away, the process dies.           *)
FailBeforeClaim(a) ==
    /\ pc[a] \in BeforeClaim
    /\ Return(a)
    /\ UNCHANGED <<claim, aged, mailVars, recordVars, conn>>

-----------------------------------------------------------------------------
(* send_reply: claim and send.                                             *)

(* One transaction that inserts the row. It is unique by inquiry and key.  *)
InsertClaim(a) ==
    LET k == ctx[a].key IN
    /\ pc[a] = "claiming"
    /\ claim[k] = NoClaim
    /\ claim' = [claim EXCEPT ![k] = [status |-> "sending", message |-> a,
                                      sender |-> ctx[a].account, text |-> ctx[a].text]]
    /\ Goto(a, "claimed")
    /\ UNCHANGED <<ctx, aged, mailVars, recordVars, conn>>

ClaimRefused(a) ==
    /\ pc[a] = "claiming"
    /\ claim[ctx[a].key] # NoClaim
    /\ Return(a)
    /\ UNCHANGED <<claim, aged, mailVars, recordVars, conn>>

PostMessage(a) ==
    /\ pc[a] = "claimed"
    /\ inflight' = inflight \union {a}
    /\ Goto(a, "posting")
    /\ UNCHANGED <<claim, ctx, aged, mailbox, recordVars, conn>>

ReceiveSentId(a) ==
    /\ pc[a] = "posting"
    /\ Emailed(a)
    /\ Goto(a, "logging")
    /\ UNCHANGED <<claim, ctx, aged, mailVars, recordVars, conn>>

(* 401, 403, another 4xx, a dead refresh token, or no access token at all. *)
SendRefused(a) ==
    /\ pc[a] \in Working
    /\ pc[a] = "posting" => a \in inflight
    /\ inflight' = inflight \ {a}
    /\ Goto(a, "refused")
    /\ UNCHANGED <<claim, ctx, aged, mailbox, recordVars, conn>>

ReleaseRefusedSend(a) ==
    LET k == ctx[a].key IN
    /\ pc[a] = "refused"
    /\ claim' = IF k # None /\ HeldBy(k, a) THEN [claim EXCEPT ![k] = NoClaim] ELSE claim
    /\ Finish(a, "ended")
    /\ UNCHANGED <<aged, mailVars, recordVars, conn>>

(* Gmail's answer is unknown, a release or a record fails, the process     *)
(* dies: the claim stays as it is.                                         *)
EndUnsettled(a) ==
    /\ pc[a] \in {"refused"} \union Working \union Recording
    /\ Finish(a, "ended")
    /\ UNCHANGED <<claim, aged, mailVars, recordVars, conn>>

-----------------------------------------------------------------------------
(* record_reply.                                                           *)

(* Its own transaction, first; best effort.                                *)
RecordAppSent(a) ==
    /\ pc[a] = "logging"
    /\ \/ appSent' = appSent \union {EmailOf(a)}
       \/ (~ LogNeverFails) /\ UNCHANGED appSent
    /\ Goto(a, "reading")
    /\ UNCHANGED <<claim, ctx, aged, mailVars, messages, inquiry, conn>>

(* The second transaction reads the inquiry, without locking it. Deleted:  *)
(* it raises and nothing of it stays.                                      *)
ReadInquiry(a) ==
    /\ pc[a] = "reading"
    /\ \/ /\ inquiry.live
          /\ ctx' = [ctx EXCEPT ![a].stage = inquiry.stage]
          /\ Goto(a, "committing")
       \/ /\ ~ inquiry.live
          /\ Finish(a, "ended")
    /\ UNCHANGED <<claim, aged, mailVars, recordVars, conn>>

(* Wrong on purpose: a status the CHECK constraint lacks. *)
MarkDone(k) == claim' = IF k = None THEN claim ELSE [claim EXCEPT ![k].status = "done"]

(* The claim, if there is one, is marked in the transaction that records   *)
(* the message.                                                            *)
MarkSent(k) == claim' = IF k = None THEN claim ELSE [claim EXCEPT ![k].status = "sent"]

(* It commits the message, the mark and the stage it decided on. A claim   *)
(* it no longer holds rolls all of it back, and the call answers with what *)
(* the attempt that settled the claim has recorded, which is final. The    *)
(* mark locks the claim: nothing settles it between mark and commit.       *)
CommitReply(a) ==
    LET k == ctx[a].key
        m == EmailOf(a)
        s == NextStageForReply(ctx[a].stage)
    IN  /\ pc[a] = "committing"
        /\ \/ /\ k # None => HeldBy(k, m)
              /\ messages' = messages \union {[email |-> m, by |-> a, told |-> ctx[a].told]}
              /\ MarkSent(k)
              /\ inquiry' = IF s = ctx[a].stage THEN inquiry
                                                ELSE [inquiry EXCEPT !.stage = s]
              /\ Finish(a, "answered")
           \/ /\ k # None /\ ~ HeldBy(k, m)
              /\ Finish(a, IF SentAs(k, m) THEN "answered" ELSE "ended")
              /\ UNCHANGED <<claim, messages, inquiry>>
        /\ UNCHANGED <<aged, mailVars, appSent, conn>>

-----------------------------------------------------------------------------
(* Gmail (external): a sent message is filed under Sent as it is sent.     *)

GmailAccepts(a) ==
    /\ a \in inflight
    /\ inflight' = inflight \ {a}
    /\ mailbox' = [mailbox EXCEPT ![a] = ctx[a].account]
    /\ UNCHANGED <<claim, pc, ctx, aged, recordVars, conn>>

RequestLost(a) ==
    /\ a \in inflight
    /\ inflight' = inflight \ {a}
    /\ UNCHANGED <<claim, pc, ctx, aged, mailbox, recordVars, conn>>

(* GMAIL_SEND_CLAIM_STALE_AFTER has passed since the claim, which is "far  *)
(* longer than any single Gmail request can take": between a reply's claim *)
(* and Gmail's answer there is that one request and nothing else.          *)
ClaimAges(m) ==
    /\ m \notin aged
    /\ \E k \in Keys : HeldBy(k, m)
    /\ pc[m] \notin Working /\ m \notin inflight
    /\ aged' = aged \union {m}
    /\ UNCHANGED <<claim, pc, ctx, mailVars, recordVars, conn>>

-----------------------------------------------------------------------------
(* The host.                                                               *)

UpsertGmail(g) ==
    /\ conn.made < MaxConnections
    /\ conn' = [account |-> g, made |-> conn.made + 1]
    /\ UNCHANGED <<claim, pc, ctx, aged, mailVars, recordVars>>

DisconnectGmail ==
    /\ conn.account # None /\ conn.made < MaxConnections
    /\ conn' = [account |-> None, made |-> conn.made + 1]
    /\ UNCHANGED <<claim, pc, ctx, aged, mailVars, recordVars>>

(* PATCH of the stage: the host sets any, "new" again included.            *)
UpdateInquiry(s) ==
    /\ inquiry.live /\ inquiry.stage # s
    /\ inquiry.edits < MaxEdits
    /\ inquiry' = [inquiry EXCEPT !.stage = s, !.edits = @ + 1,
                                  !.reopened = @ \/ s = "new"]
    /\ UNCHANGED <<claim, pc, ctx, aged, mailVars, messages, appSent, conn>>

(* Soft: the claims stay.                                                  *)
DeleteInquiry ==
    /\ inquiry.live
    /\ inquiry.edits < MaxEdits
    /\ inquiry' = [inquiry EXCEPT !.live = FALSE, !.edits = @ + 1]
    /\ UNCHANGED <<claim, pc, ctx, aged, mailVars, messages, appSent, conn>>

-----------------------------------------------------------------------------
Settle(a) == SearchGmail(a) \/ ReleaseEarlier(a) \/ ReleaseRefused(a)

Claim(a) == InsertClaim(a) \/ ClaimRefused(a)

Send(a) == PostMessage(a) \/ ReceiveSentId(a) \/ SendRefused(a) \/ ReleaseRefusedSend(a)

RecordReply(a) == RecordAppSent(a) \/ ReadInquiry(a) \/ CommitReply(a)

Call(a) ==
    \/ \E t \in Texts :
         \/ \E k \in Keys : Replay(a, k, t)
         \/ \E k \in Keys \union {None}, p \in Pets : Load(a, k, t, p)
    \/ Settle(a) \/ Claim(a) \/ Send(a) \/ RecordReply(a)
    \/ FailBeforeClaim(a) \/ EndUnsettled(a)

World ==
    \/ \E a \in Attempts : GmailAccepts(a) \/ RequestLost(a) \/ ClaimAges(a)
    \/ \E g \in Accounts : UpsertGmail(g)
    \/ \E s \in Stages : UpdateInquiry(s)
    \/ DisconnectGmail \/ DeleteInquiry

Next == (\E a \in Attempts : Call(a)) \/ World

Spec == Init /\ [][Next]_vars

-----------------------------------------------------------------------------
(* Properties.                                                             *)

TypeOK ==
    /\ claim \in [Keys -> ClaimType]
    /\ pc \in [Attempts -> PCs]
    /\ ctx \in [Attempts -> CtxType]
    /\ aged \in SUBSET Attempts
    /\ inflight \in SUBSET Attempts
    /\ mailbox \in [Attempts -> Accounts \union {None}]
    /\ messages \in SUBSET MessageType
    /\ appSent \in SUBSET Attempts
    /\ inquiry \in InquiryType
    /\ conn \in [account : Accounts \union {None}, made : Nat]

(* "A double tap, a retry after a lost response, or a second device can    *)
(* never email the inquirer twice": of all attempts with one key, over     *)
(* every retry, crash, late answer and reconnection, one email is out, as  *)
(* long as Gmail keeps its Message-ID (HeaderKept).                        *)
AtMostOneEmail ==
    \A a, b \in Attempts :
        Emailed(a) /\ Emailed(b) /\ ctx[a].key = ctx[b].key /\ ctx[a].key # None => a = b

(* A claim that reads sent has exactly one message, its own email's, and   *)
(* no reply sent under a key is recorded without its claim: the claim, the *)
(* message and the stage are one transaction ("the timeline can never end  *)
(* up partially updated"), whoever records the email: an inquiry with a    *)
(* recorded reply is new only when the host set it back. The email of a    *)
(* recorded reply is in the filter log.                                    *)
RecordedTogether ==
    /\ \A k \in Keys :
         claim[k].status = "sent" =>
             Cardinality({m \in messages : m.email = claim[k].message}) = 1
    /\ \A m \in messages :
         /\ Emailed(m.email)
         /\ m.email \in appSent
         /\ ctx[m.email].key # None =>
              LET c == claim[ctx[m.email].key] IN c.status = "sent" /\ c.message = m.email
    /\ messages # {} /\ inquiry.stage = "new" => inquiry.reopened

(* A host who is shown the reply as sent has had that very text mailed to  *)
(* the inquirer, by this attempt or by an earlier one of the same key.     *)
AnswerIsTrue ==
    \A a \in Attempts :
        pc[a] = "answered" =>
            \E b \in Attempts :
                /\ Emailed(b)
                /\ ctx[b].key = ctx[a].key
                /\ ctx[b].text = ctx[a].text

(* "The inquirer must hear about pets on the premises before anything      *)
(* else": once a reply written while there were pets is out, a reply that  *)
(* tells of them is out.                                                   *)
HeardOfPets ==
    \A a \in Attempts :
        Emailed(a) /\ ctx[a].pets => \E b \in Attempts : Emailed(b) /\ ctx[b].told

(* "A message row means the reply went out, and its readers (the timeline, *)
(* the pet-disclosure check) rely on that": what the message records as    *)
(* told was told in the email it records.                                  *)
ToldIsTrue == \A m \in messages : m.told => ctx[m.email].told

-----------------------------------------------------------------------------
(* Each key is sent once, in the sense of SendOnce.                        *)
AbstractState(k) ==
    CASE claim[k].status = "none"    -> "open"
      [] claim[k].status = "sending" -> "trying"
      [] claim[k].status = "sent"    -> "sent"

AbstractMail(k) == {a \in Attempts : Emailed(a) /\ ctx[a].key = k}

Once == INSTANCE SendOnce WITH
            Items <- Keys,
            Messages <- Attempts,
            state <- [k \in Keys |-> AbstractState(k)],
            mail <- [k \in Keys |-> AbstractMail(k)]

(* Replies are sent once, as receipts are: a claim is only confirmed when  *)
(* its email is out and only given up when it is not (HeaderKept).         *)
SendsOnce == Once!Spec
=============================================================================
