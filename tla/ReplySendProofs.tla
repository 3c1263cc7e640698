-------------------------- MODULE ReplySendProofs --------------------------
(***************************************************************************)
(* What TLAPS proves of ReplySend, for any number of attempts, keys, texts *)
(* and accounts, and any changes of the connection and of the inquiry.     *)
(***************************************************************************)
EXTENDS ReplySend, FiniteSetTheorems, TLAPS

-----------------------------------------------------------------------------
(* Types.  TypeOK is not inductive alone: what a call writes it takes from *)
(* its context, which has to be loaded by then, and what a call settles    *)
(* from the claim it found.                                                *)

ClaimsTyped ==
    \A k \in Keys :
        /\ claim[k].status = "none" => claim[k] = NoClaim
        /\ claim[k].status # "none" => claim[k].message \in Attempts

ContextLoaded ==
    \A a \in Attempts :
        /\ pc[a] = "idle" => ctx[a] = NoContext
        /\ pc[a] # "idle" => ctx[a].text \in Texts
        /\ pc[a] \in BeforeClaim => ctx[a].key \in Keys
        /\ pc[a] \in BeforeClaim \union Working \union {"refused"} \union Recording =>
               ctx[a].account \in Accounts
        /\ pc[a] \in {"settling", "releasing"} => ctx[a].earlier \in Attempts
        /\ ctx[a].earlier # None =>
               pc[a] \in {"settling", "releasing"} \union Recording /\ ctx[a].key \in Keys
        /\ pc[a] = "committing" => ctx[a].stage \in Stages

TypeInv == TypeOK /\ ClaimsTyped /\ ContextLoaded

LEMMA TypeInit == Init => TypeInv
<1> USE ConstantsAssumption
<1>1. NoContext \in CtxType /\ NoContext.earlier = None
  BY DEF NoContext, CtxType
<1>2. NoClaim \in ClaimType /\ NoClaim.status = "none"
  BY DEF NoClaim, ClaimType
<1>3. SUFFICES ASSUME Init PROVE TypeInv
  OBVIOUS
<1>4. TypeOK
  BY <1>1, <1>2, <1>3 DEF Init, TypeOK, PCs, Stages, InquiryType
<1>5. ClaimsTyped /\ ContextLoaded
  BY <1>1, <1>2, <1>3 DEF Init, ClaimsTyped, ContextLoaded, BeforeClaim, Working, Recording
<1> QED
  BY <1>4, <1>5 DEF TypeInv

(* What a call that ends leaves of its context.                            *)
LEMMA CallEnds ==
    ASSUME TypeInv, NEW a \in Attempts, NEW how, Finish(a, how)
    PROVE  /\ pc' = [pc EXCEPT ![a] = how]
           /\ ctx' \in [Attempts -> CtxType]
           /\ \A b \in Attempts : b # a => ctx'[b] = ctx[b]
           /\ ctx'[a].key = ctx[a].key /\ ctx'[a].text = ctx[a].text
           /\ ctx'[a].earlier = None
           /\ ctx[a].earlier # None => ctx'[a].account = None
           /\ ctx[a].earlier = None =>
                  /\ ctx'[a].account = ctx[a].account
                  /\ ctx'[a].pets = ctx[a].pets
                  /\ ctx'[a].told = ctx[a].told
<1> DEFINE left == IF ctx[a].earlier # None THEN Request(ctx[a].key, ctx[a].text)
                                           ELSE [ctx[a] EXCEPT !.stage = None]
<1>1. ctx[a] \in CtxType
  BY DEF TypeInv, TypeOK
<1>2. /\ left \in CtxType
      /\ left.key = ctx[a].key /\ left.text = ctx[a].text
      /\ left.earlier = None
      /\ ctx[a].earlier # None => left.account = None
      /\ ctx[a].earlier = None => left.account = ctx[a].account
                                  /\ left.pets = ctx[a].pets
                                  /\ left.told = ctx[a].told
  BY <1>1 DEF Request, NoContext, CtxType
<1>3. pc' = [pc EXCEPT ![a] = how] /\ ctx' = [ctx EXCEPT ![a] = left]
  BY DEF Finish, Goto
<1> HIDE DEF left
<1> QED
  BY <1>2, <1>3 DEF TypeInv, TypeOK

(* How a call moves: on with its context, to its end, or back to "idle".   *)
LEMMA CallMoves ==
    ASSUME TypeInv, NEW a \in Attempts
    PROVE  /\ \A to \in PCs :
                /\ Goto(a, to) /\ UNCHANGED ctx
                /\ pc[a] # "idle" /\ to \notin {"idle", "committing"}
                /\ ctx[a].earlier # None => to \in {"releasing"} \union Recording
                /\ to \in {"settling", "releasing"} => ctx[a].earlier \in Attempts
                /\ to \in BeforeClaim => pc[a] \in BeforeClaim
                /\ to \in Working \union {"refused"} \union Recording =>
                       ctx[a].account \in Accounts
                => ContextLoaded' /\ pc' \in [Attempts -> PCs]
           /\ \A to \in {"answered", "ended"} :
                pc[a] # "idle" /\ Finish(a, to)
                => ContextLoaded' /\ pc' \in [Attempts -> PCs] /\ ctx' \in [Attempts -> CtxType]
           /\ Return(a)
                => ContextLoaded' /\ pc' \in [Attempts -> PCs] /\ ctx' \in [Attempts -> CtxType]
<1> USE DEF TypeInv, TypeOK
<1>a. /\ "idle" \in PCs /\ "answered" \in PCs /\ "ended" \in PCs
      /\ BeforeClaim = {"settling", "releasing", "claiming"}
      /\ Working = {"claimed", "posting"}
      /\ Recording = {"logging", "reading", "committing"}
  BY DEF PCs, BeforeClaim, Working, Recording
<1>1. ASSUME NEW to \in PCs, Goto(a, to), UNCHANGED ctx,
             pc[a] # "idle", to \notin {"idle", "committing"},
             ctx[a].earlier # None => to \in {"releasing"} \union Recording,
             to \in {"settling", "releasing"} => ctx[a].earlier \in Attempts,
             to \in BeforeClaim => pc[a] \in BeforeClaim,
             to \in Working \union {"refused"} \union Recording => ctx[a].account \in Accounts
      PROVE  ContextLoaded' /\ pc' \in [Attempts -> PCs]
  BY <1>1, <1>a DEF Goto, ContextLoaded
<1>2. ASSUME NEW to \in {"answered", "ended"}, pc[a] # "idle", Finish(a, to)
      PROVE  ContextLoaded' /\ pc' \in [Attempts -> PCs] /\ ctx' \in [Attempts -> CtxType]
  BY <1>2, <1>a, CallEnds DEF ContextLoaded
<1>3. ASSUME Return(a)
      PROVE  ContextLoaded' /\ pc' \in [Attempts -> PCs] /\ ctx' \in [Attempts -> CtxType]
  <2>1. NoContext \in CtxType /\ NoContext.earlier = None
    BY DEF NoContext, CtxType
  <2> QED
    BY <1>3, <1>a, <2>1 DEF Return, Goto, ContextLoaded
<1> QED
  BY <1>1, <1>2, <1>3

(* What a claim may become.                                                *)
LEMMA ClaimWrites ==
    ASSUME TypeInv, NEW k \in Keys
    PROVE  /\ claim' = [claim EXCEPT ![k] = NoClaim]
                => ClaimsTyped' /\ claim' \in [Keys -> ClaimType]
           /\ claim[k].status # "none" /\ claim' = [claim EXCEPT ![k].status = "sent"]
                => ClaimsTyped' /\ claim' \in [Keys -> ClaimType]
<1> USE DEF TypeInv, TypeOK, ClaimsTyped
<1>1. NoClaim \in ClaimType /\ NoClaim.status = "none"
  BY DEF NoClaim, ClaimType
<1>2. ASSUME claim' = [claim EXCEPT ![k] = NoClaim]
      PROVE  ClaimsTyped' /\ claim' \in [Keys -> ClaimType]
  BY <1>1, <1>2
<1>3. ASSUME claim[k].status # "none", claim' = [claim EXCEPT ![k].status = "sent"]
      PROVE  ClaimsTyped' /\ claim' \in [Keys -> ClaimType]
  <2> DEFINE marked == [claim[k] EXCEPT !.status = "sent"]
  <2>1. marked \in ClaimType /\ marked.status = "sent" /\ marked.message = claim[k].message
    BY DEF ClaimType
  <2>2. claim' = [claim EXCEPT ![k] = marked]
    BY <1>3
  <2> HIDE DEF marked
  <2> QED
    BY <1>3, <2>1, <2>2
<1> QED
  BY <1>2, <1>3

LEMMA TypeCall ==
    ASSUME TypeInv, NEW a \in Attempts, Call(a)
    PROVE  TypeInv'
<1> USE ConstantsAssumption
<1> USE DEF TypeInv, TypeOK, mailVars, recordVars
<1>a. /\ PCs = {"idle", "refused", "answered", "ended"}
                  \union BeforeClaim \union Working \union Recording
      /\ BeforeClaim = {"settling", "releasing", "claiming"}
      /\ Working = {"claimed", "posting"}
      /\ Recording = {"logging", "reading", "committing"}
  BY DEF PCs, BeforeClaim, Working, Recording
<1>1. ASSUME NEW t \in Texts, NEW k \in Keys, Replay(a, k, t) PROVE TypeInv'
  <2>1. Request(k, t) \in CtxType /\ Request(k, t).earlier = None /\ Request(k, t).text = t
    BY DEF Request, NoContext, CtxType
  <2> QED
    BY <1>1, <1>a, <2>1 DEF Replay, Goto, ClaimsTyped, ContextLoaded
<1>2. ASSUME NEW t \in Texts, NEW k \in Keys \union {None}, NEW p \in Pets, Load(a, k, t, p)
      PROVE  TypeInv'
  <2>1. \A e \in Attempts \union {None} :
          LET c == Context(k, t, p, e)
          IN  c \in CtxType /\ c.key = k /\ c.text = t /\ c.earlier = e /\ c.account = conn.account
    BY DEF Context, Request, NoContext, CtxType, BodyTells
  <2>2. conn.account \in Accounts
    BY <1>2 DEF Load
  <2>3. CASE (k # None => claim[k] = NoClaim)
             /\ ctx' = [ctx EXCEPT ![a] = Context(k, t, p, None)]
             /\ Goto(a, IF k = None THEN "claimed" ELSE "claiming")
    BY <1>2, <1>a, <2>1, <2>2, <2>3 DEF Load, Goto, ClaimsTyped, ContextLoaded
  <2>4. CASE /\ k # None /\ claim[k].status = "sending"
             /\ ctx' = [ctx EXCEPT ![a] = Context(k, t, p, claim[k].message)]
             /\ Goto(a, "settling")
    <3>1. claim[k].message \in Attempts
      BY <2>4 DEF ClaimsTyped
    <3> QED
      BY <1>2, <1>a, <2>1, <2>2, <2>4, <3>1 DEF Load, Goto, ClaimsTyped, ContextLoaded
  <2> QED
    BY <1>2, <2>3, <2>4 DEF Load
<1>3. CASE SearchGmail(a)
  <2>1. ctx[a].account \in Accounts /\ ctx[a].earlier \in Attempts
    BY <1>3, <1>a DEF SearchGmail, ContextLoaded
  <2>2. ContextLoaded' /\ pc' \in [Attempts -> PCs]
    BY <1>3, <1>a, <2>1, CallMoves DEF SearchGmail
  <2> QED
    BY <1>3, <2>2 DEF SearchGmail, ClaimsTyped
<1>4. CASE ReleaseEarlier(a)
  <2>1. ctx[a].key \in Keys /\ ctx[a].account \in Accounts /\ ctx[a].text \in Texts
    BY <1>4, <1>a DEF ReleaseEarlier, ContextLoaded
  <2> DEFINE freed == [ctx[a] EXCEPT !.earlier = None]
  <2>2. /\ freed \in CtxType /\ freed.earlier = None /\ freed.key = ctx[a].key
        /\ freed.account = ctx[a].account /\ freed.text = ctx[a].text
    BY DEF CtxType
  <2>3. ctx' = [ctx EXCEPT ![a] = freed] /\ pc' = [pc EXCEPT ![a] = "claiming"]
    BY <1>4 DEF ReleaseEarlier, Goto
  <2> HIDE DEF freed
  <2>4. ContextLoaded'
    BY <1>a, <2>1, <2>2, <2>3 DEF ContextLoaded
  <2>5. ClaimsTyped' /\ claim' \in [Keys -> ClaimType]
    BY <1>4, <2>1, ClaimWrites DEF ReleaseEarlier
  <2>6. ctx' \in [Attempts -> CtxType] /\ pc' \in [Attempts -> PCs]
    BY <1>a, <2>2, <2>3
  <2> QED
    BY <1>4, <2>4, <2>5, <2>6 DEF ReleaseEarlier
<1>5. CASE ReleaseRefused(a) \/ FailBeforeClaim(a) \/ ClaimRefused(a)
  <2>1. Return(a)
    BY <1>5 DEF ReleaseRefused, FailBeforeClaim, ClaimRefused
  <2> QED
    BY <1>5, <2>1, CallMoves DEF ReleaseRefused, FailBeforeClaim, ClaimRefused, ClaimsTyped
<1>6. CASE InsertClaim(a)
  <2>1. /\ ctx[a].key \in Keys /\ ctx[a].account \in Accounts /\ ctx[a].text \in Texts
        /\ ctx[a].earlier = None
    BY <1>6, <1>a DEF InsertClaim, ContextLoaded
  <2>2. ContextLoaded' /\ pc' \in [Attempts -> PCs]
    BY <1>6, <1>a, <2>1, CallMoves DEF InsertClaim
  <2>3. [status |-> "sending", message |-> a, sender |-> ctx[a].account, text |-> ctx[a].text]
           \in ClaimType
    BY <2>1 DEF ClaimType
  <2> QED
    BY <1>6, <2>1, <2>2, <2>3 DEF InsertClaim, ClaimsTyped
<1>7. CASE PostMessage(a) \/ ReceiveSentId(a) \/ SendRefused(a)
  <2>1. ctx[a].account \in Accounts /\ ctx[a].earlier = None
    BY <1>7, <1>a DEF PostMessage, ReceiveSentId, SendRefused, ContextLoaded
  <2>2. ContextLoaded' /\ pc' \in [Attempts -> PCs]
    BY <1>7, <1>a, <2>1, CallMoves DEF PostMessage, ReceiveSentId, SendRefused
  <2> QED
    BY <1>7, <2>2 DEF PostMessage, ReceiveSentId, SendRefused, ClaimsTyped
<1>8. CASE ReleaseRefusedSend(a) \/ EndUnsettled(a)
  <2>1. pc[a] # "idle" /\ Finish(a, "ended")
    BY <1>8, <1>a DEF ReleaseRefusedSend, EndUnsettled
  <2>2. ContextLoaded' /\ pc' \in [Attempts -> PCs] /\ ctx' \in [Attempts -> CtxType]
    BY <2>1, CallMoves
  <2>3. ctx[a].key \in Keys \union {None}
    BY DEF CtxType
  <2>4. ClaimsTyped' /\ claim' \in [Keys -> ClaimType]
    <3>1. UNCHANGED claim \/ (ctx[a].key \in Keys /\ claim' = [claim EXCEPT ![ctx[a].key] = NoClaim])
      BY <1>8, <2>3 DEF ReleaseRefusedSend, EndUnsettled
    <3> QED
      BY <3>1, ClaimWrites DEF ClaimsTyped
  <2> QED
    BY <1>8, <2>2, <2>4 DEF ReleaseRefusedSend, EndUnsettled
<1>9. CASE RecordAppSent(a)
  <2>1. ctx[a].account \in Accounts /\ EmailOf(a) \in Attempts
    BY <1>9, <1>a DEF RecordAppSent, ContextLoaded, EmailOf, CtxType
  <2>2. ContextLoaded' /\ pc' \in [Attempts -> PCs]
    BY <1>9, <1>a, <2>1, CallMoves DEF RecordAppSent, ContextLoaded
  <2> QED
    BY <1>9, <2>1, <2>2 DEF RecordAppSent, ClaimsTyped
<1>10. CASE ReadInquiry(a)
  <2>1. CASE inquiry.live /\ ctx' = [ctx EXCEPT ![a].stage = inquiry.stage] /\ Goto(a, "committing")
    <3> DEFINE read == [ctx[a] EXCEPT !.stage = inquiry.stage]
    <3>1. /\ read \in CtxType /\ read.stage \in Stages
          /\ read.key = ctx[a].key /\ read.text = ctx[a].text
          /\ read.account = ctx[a].account /\ read.earlier = ctx[a].earlier
      BY DEF CtxType, InquiryType
    <3>2. ctx' = [ctx EXCEPT ![a] = read] /\ pc' = [pc EXCEPT ![a] = "committing"]
      BY <2>1 DEF Goto
    <3> HIDE DEF read
    <3>3. pc[a] = "reading"
      BY <1>10 DEF ReadInquiry
    <3>4. ContextLoaded'
      BY <1>a, <3>1, <3>2, <3>3 DEF ContextLoaded
    <3> QED
      BY <1>10, <1>a, <3>1, <3>2, <3>4 DEF ReadInquiry, ClaimsTyped
  <2>2. CASE Finish(a, "ended")
    BY <1>10, <2>2, CallMoves DEF ReadInquiry, ClaimsTyped
  <2> QED
    BY <1>10, <2>1, <2>2 DEF ReadInquiry
<1>11. CASE CommitReply(a)
  <2>1. pc[a] = "committing" /\ ctx[a].key \in Keys \union {None} /\ EmailOf(a) \in Attempts
        /\ ctx[a].stage \in Stages
    BY <1>11, <1>a DEF CommitReply, ContextLoaded, EmailOf, CtxType
  <2>2. Finish(a, "answered") \/ Finish(a, "ended")
    BY <1>11 DEF CommitReply
  <2>3. ContextLoaded' /\ pc' \in [Attempts -> PCs] /\ ctx' \in [Attempts -> CtxType]
    BY <2>1, <2>2, CallMoves
  <2>4. ClaimsTyped' /\ claim' \in [Keys -> ClaimType]
    <3>1. \/ UNCHANGED claim
          \/ /\ ctx[a].key \in Keys /\ claim[ctx[a].key].status # "none"
             /\ claim' = [claim EXCEPT ![ctx[a].key].status = "sent"]
      BY <1>11, <2>1 DEF CommitReply, MarkSent, HeldBy
    <3> QED
      BY <3>1, ClaimWrites DEF ClaimsTyped
  <2>5. messages' \in SUBSET MessageType
    <3>1. [email |-> EmailOf(a), by |-> a, told |-> ctx[a].told] \in MessageType
      BY <2>1 DEF MessageType, CtxType
    <3> QED
      BY <1>11, <3>1 DEF CommitReply
  <2>6. inquiry' \in InquiryType
    <3>1. NextStageForReply(ctx[a].stage) \in Stages
      BY <2>1 DEF NextStageForReply, Stages
    <3>2. [inquiry EXCEPT !.stage = NextStageForReply(ctx[a].stage)] \in InquiryType
      BY <3>1 DEF InquiryType
    <3> QED
      BY <1>11, <3>2 DEF CommitReply
  <2> QED
    BY <1>11, <2>3, <2>4, <2>5, <2>6 DEF CommitReply
<1> QED
  BY <1>1, <1>2, <1>3, <1>4, <1>5, <1>6, <1>7, <1>8, <1>9, <1>10, <1>11
  DEF Call, Settle, Claim, Send, RecordReply

LEMMA TypeWorld == TypeInv /\ World => TypeInv'
<1> USE ConstantsAssumption
<1> USE DEF TypeInv, TypeOK, ClaimsTyped, mailVars, recordVars
<1> SUFFICES ASSUME TypeInv, World PROVE TypeInv'
  OBVIOUS
<1>1. UNCHANGED <<claim, pc, ctx>> /\ ContextLoaded'
  BY DEF World, GmailAccepts, RequestLost, ClaimAges, UpsertGmail, DisconnectGmail,
         UpdateInquiry, DeleteInquiry, ContextLoaded
<1>2. ASSUME NEW a \in Attempts, GmailAccepts(a) PROVE TypeInv'
  BY <1>1, <1>2 DEF GmailAccepts, CtxType
<1>3. ASSUME NEW a \in Attempts, RequestLost(a) \/ ClaimAges(a) PROVE TypeInv'
  BY <1>1, <1>3 DEF RequestLost, ClaimAges
<1>4. ASSUME NEW g \in Accounts, UpsertGmail(g) PROVE TypeInv'
  BY <1>1, <1>4 DEF UpsertGmail
<1>5. CASE DisconnectGmail
  BY <1>1, <1>5 DEF DisconnectGmail
<1>6. ASSUME NEW s \in Stages, UpdateInquiry(s) PROVE TypeInv'
  <2> DEFINE r == inquiry.reopened \/ s = "new"
  <2>1. r \in BOOLEAN /\ inquiry.edits + 1 \in Nat
    BY DEF InquiryType
  <2>2. inquiry' = [inquiry EXCEPT !.stage = s, !.edits = inquiry.edits + 1, !.reopened = r]
    BY <1>6 DEF UpdateInquiry
  <2> HIDE DEF r
  <2>3. inquiry' \in InquiryType
    BY <2>1, <2>2 DEF InquiryType
  <2> QED
    BY <1>1, <1>6, <2>3 DEF UpdateInquiry
<1>7. CASE DeleteInquiry
  <2>1. inquiry.edits + 1 \in Nat
    BY DEF InquiryType
  <2>2. inquiry' = [inquiry EXCEPT !.live = FALSE, !.edits = inquiry.edits + 1]
    BY <1>7 DEF DeleteInquiry
  <2>3. inquiry' \in InquiryType
    BY <2>1, <2>2 DEF InquiryType
  <2> QED
    BY <1>1, <1>7, <2>3 DEF DeleteInquiry
<1> QED
  BY <1>2, <1>3, <1>4, <1>5, <1>6, <1>7 DEF World

LEMMA TypeStep == TypeInv /\ [Next]_vars => TypeInv'
<1> SUFFICES ASSUME TypeInv, [Next]_vars PROVE TypeInv'
  OBVIOUS
<1>1. CASE UNCHANGED vars
  BY <1>1 DEF vars, TypeInv, TypeOK, ClaimsTyped, ContextLoaded
<1> QED
  BY <1>1, TypeCall, TypeWorld DEF Next

(* Every variable stays within its type, whatever the number of attempts,  *)
(* keys, texts and accounts, and a call that records has loaded what it    *)
(* writes.                                                                 *)
THEOREM TypeCorrect == Spec => []TypeOK
<1>1. TypeInv => TypeOK
  BY DEF TypeInv
<1> QED
  BY <1>1, TypeInit, TypeStep, PTL DEF Spec

-----------------------------------------------------------------------------
(* The claim discipline, the inductive invariant behind every property of  *)
(* the claims and the emails.                                              *)

(* The call is past its claim: an email may go out as it.                  *)
HasClaimed(a) ==
    /\ pc[a] \notin {"idle"} \union BeforeClaim
    /\ ctx[a].account # None
    /\ ctx[a].earlier = None

(* Before that there is nothing of it.                                     *)
NoTraceBeforeClaim ==
    \A a \in Attempts :
        ~ HasClaimed(a) =>
            /\ ~ Emailed(a) /\ a \notin inflight /\ a \notin aged
            /\ \A k \in Keys : claim[k].message # a

(* Until Gmail's answer a call holds its claim, which doesn't age.         *)
WorkingHolds ==
    \A a \in Attempts :
        /\ pc[a] \in Working \/ a \in inflight =>
               /\ a \notin aged
               /\ ctx[a].key # None => HeldBy(ctx[a].key, a)
        /\ a \in inflight => pc[a] \in {"posting", "ended"} /\ ~ Emailed(a)
        /\ pc[a] \in {"claimed", "refused"} => ~ Emailed(a) /\ a \notin inflight

(* An email that is out has the claim of its key, if Gmail keeps the       *)
(* Message-ID it is searched by.                                           *)
EmailIsClaimed ==
    \A a \in Attempts :
        Emailed(a) =>
            /\ mailbox[a] = ctx[a].account
            /\ HeaderKept /\ ctx[a].key # None => HeldBy(ctx[a].key, a) \/ SentAs(ctx[a].key, a)

(* A claim has the key, the text and the account of the call it names.     *)
ClaimNamesItsAttempt ==
    \A k \in Keys :
        LET m == claim[k].message IN
        claim[k].status # "none" =>
            /\ ctx[m].key = k
            /\ ctx[m].text = claim[k].text
            /\ ctx[m].account = claim[k].sender
            /\ claim[k].status = "sent" => Emailed(m)

(* A call settles an attempt that is over: out or never to be. What it is  *)
(* about to release is not out, if Gmail keeps the Message-ID.             *)
SettlingIsDecided ==
    \A a \in Attempts :
        LET m == ctx[a].earlier IN
        m # None =>
            /\ m \in aged
            /\ ctx[m].key = ctx[a].key
            /\ ctx[m].text = ctx[a].text
            /\ ctx[m].account = ctx[a].account
            /\ HeaderKept /\ pc[a] = "releasing" => ~ Emailed(m)

(* What a call records is out.                                             *)
RecordsWhatIsOut ==
    \A a \in Attempts : pc[a] \in Recording => Emailed(EmailOf(a))

ClaimDiscipline ==
    /\ NoTraceBeforeClaim
    /\ WorkingHolds
    /\ EmailIsClaimed
    /\ ClaimNamesItsAttempt
    /\ SettlingIsDecided
    /\ RecordsWhatIsOut

LEMMA DisciplineInit == Init => ClaimDiscipline
<1> SUFFICES ASSUME Init PROVE ClaimDiscipline
  OBVIOUS
<1>1. /\ \A k \in Keys : claim[k].status = "none" /\ claim[k].message = None
      /\ \A a \in Attempts : /\ pc[a] = "idle" /\ mailbox[a] = None
                             /\ ctx[a].account = None /\ ctx[a].earlier = None
      /\ inflight = {} /\ aged = {}
  BY DEF Init, NoClaim, NoContext
<1> QED
  BY <1>1, ConstantsAssumption
  DEF ClaimDiscipline, NoTraceBeforeClaim, HasClaimed, WorkingHolds, EmailIsClaimed,
      ClaimNamesItsAttempt, SettlingIsDecided, RecordsWhatIsOut, Emailed, Working, Recording

(* A reply that is recorded already is answered with what there is.        *)
LEMMA DisciplineReplay ==
    ASSUME TypeInv, ClaimDiscipline,
           NEW a \in Attempts, NEW k \in Keys, NEW t \in Texts, Replay(a, k, t)
    PROVE  ClaimDiscipline'
<1> USE ConstantsAssumption
<1> USE DEF TypeInv, ContextLoaded, BeforeClaim, Working, Recording, mailVars, recordVars
<1> USE DEF ClaimDiscipline, HasClaimed, Emailed, HeldBy, SentAs, EmailOf, Goto
<1> USE DEF Replay
<1>a. /\ ctx' = [ctx EXCEPT ![a] = Request(k, t)]
      /\ Request(k, t).account = None /\ Request(k, t).earlier = None
  BY DEF Request, NoContext
<1>b. ~ HasClaimed(a)
  OBVIOUS
<1>1. NoTraceBeforeClaim'
  BY <1>a, <1>b DEF NoTraceBeforeClaim
<1>2. WorkingHolds'
  BY <1>a, <1>b DEF WorkingHolds, NoTraceBeforeClaim
<1>3. EmailIsClaimed'
  BY <1>a, <1>b DEF EmailIsClaimed, NoTraceBeforeClaim
<1>4. ClaimNamesItsAttempt'
  BY <1>a, <1>b DEF ClaimNamesItsAttempt, NoTraceBeforeClaim
<1>5. SettlingIsDecided'
  BY <1>a, <1>b DEF SettlingIsDecided, NoTraceBeforeClaim
<1>6. RecordsWhatIsOut'
  BY <1>a, <1>b DEF RecordsWhatIsOut, TypeOK, NoTraceBeforeClaim
<1> QED
  BY <1>1, <1>2, <1>3, <1>4, <1>5, <1>6

(* Loading: a call takes the context it will keep.                         *)
LEMMA DisciplineLoad ==
    ASSUME TypeInv, ClaimDiscipline,
           NEW a \in Attempts, NEW k \in Keys \union {None},
           NEW t \in Texts, NEW p \in Pets, Load(a, k, t, p)
    PROVE  ClaimDiscipline'
<1> USE ConstantsAssumption
<1> USE DEF TypeInv, ContextLoaded, BeforeClaim, Working, Recording, mailVars, recordVars
<1> USE DEF ClaimDiscipline, HasClaimed, Emailed, HeldBy, SentAs, EmailOf, Goto
<1>a. \A e : LET c == Context(k, t, p, e)
             IN  c.key = k /\ c.text = t /\ c.earlier = e /\ c.account = conn.account
  BY DEF Context, Request, NoContext
<1>b. ~ HasClaimed(a) /\ pc[a] = "idle" /\ UNCHANGED <<claim, aged, inflight, mailbox>>
  BY DEF Load
<1>c. \E e \in Attempts \union {None} :
        /\ ctx' = [ctx EXCEPT ![a] = Context(k, t, p, e)]
        /\ e = None => pc' = [pc EXCEPT ![a] = IF k = None THEN "claimed" ELSE "claiming"]
        /\ e # None => /\ pc' = [pc EXCEPT ![a] = "settling"]
                       /\ HeldBy(k, e) /\ claim[k].text = t /\ claim[k].sender = conn.account
                       /\ e \in aged /\ k \in Keys
  BY DEF Load, ClaimsTyped, IsSendClaimStale, SameRequest, SameGmailAddress
<1>d. PICK e \in Attempts \union {None} :
        /\ ctx' = [ctx EXCEPT ![a] = Context(k, t, p, e)]
        /\ e = None => pc' = [pc EXCEPT ![a] = IF k = None THEN "claimed" ELSE "claiming"]
        /\ e # None => /\ pc' = [pc EXCEPT ![a] = "settling"]
                       /\ HeldBy(k, e) /\ claim[k].text = t /\ claim[k].sender = conn.account
                       /\ e \in aged /\ k \in Keys
  BY <1>c
<1>1. NoTraceBeforeClaim'
  BY <1>a, <1>b, <1>d DEF NoTraceBeforeClaim, TypeOK
<1>2. WorkingHolds'
  BY <1>a, <1>b, <1>d DEF WorkingHolds, NoTraceBeforeClaim, TypeOK
<1>3. EmailIsClaimed'
  BY <1>a, <1>b, <1>d DEF EmailIsClaimed, NoTraceBeforeClaim, TypeOK
<1>4. ClaimNamesItsAttempt'
  BY <1>a, <1>b, <1>d DEF ClaimNamesItsAttempt, NoTraceBeforeClaim, TypeOK
<1>5. SettlingIsDecided'
  BY <1>a, <1>b, <1>d DEF SettlingIsDecided, NoTraceBeforeClaim, ClaimNamesItsAttempt, TypeOK
<1>6. RecordsWhatIsOut'
  BY <1>a, <1>b, <1>d DEF RecordsWhatIsOut, NoTraceBeforeClaim, TypeOK
<1> QED
  BY <1>1, <1>2, <1>3, <1>4, <1>5, <1>6

(* Settling: Gmail has the earlier email or never will.                    *)
LEMMA DisciplineSearch ==
    ASSUME TypeInv, ClaimDiscipline,
           NEW a \in Attempts, SearchGmail(a)
    PROVE  ClaimDiscipline'
<1> USE ConstantsAssumption
<1> USE DEF TypeInv, ContextLoaded, BeforeClaim, Working, Recording, mailVars, recordVars
<1> USE DEF ClaimDiscipline, HasClaimed, Emailed, HeldBy, SentAs, EmailOf, Goto
<1> USE DEF SearchGmail, FoundInGmail, TypeOK
<1>1. NoTraceBeforeClaim'
  BY DEF NoTraceBeforeClaim
<1>2. WorkingHolds'
  BY DEF WorkingHolds, NoTraceBeforeClaim
<1>3. EmailIsClaimed'
  BY DEF EmailIsClaimed, NoTraceBeforeClaim
<1>4. ClaimNamesItsAttempt'
  BY DEF ClaimNamesItsAttempt, NoTraceBeforeClaim
<1>5. SettlingIsDecided'
  BY DEF SettlingIsDecided, EmailIsClaimed, NoTraceBeforeClaim
<1>6. RecordsWhatIsOut'
  BY DEF RecordsWhatIsOut, SettlingIsDecided
<1> QED
  BY <1>1, <1>2, <1>3, <1>4, <1>5, <1>6

(* Releasing the claim of an email the search did not find.                *)
LEMMA DisciplineRelease ==
    ASSUME TypeInv, ClaimDiscipline,
           NEW a \in Attempts, ReleaseEarlier(a)
    PROVE  ClaimDiscipline'
<1> USE ConstantsAssumption
<1> USE DEF TypeInv, ContextLoaded, BeforeClaim, Working, Recording, mailVars, recordVars
<1> USE DEF ClaimDiscipline, HasClaimed, Emailed, HeldBy, SentAs, EmailOf, Goto
<1>k. \A b \in Attempts : ctx[b].key \in Keys \union {None}
  BY DEF TypeOK, CtxType
<1> DEFINE k == ctx[a].key  m == ctx[a].earlier
<1>a. /\ k \in Keys /\ m \in Attempts /\ pc[a] = "releasing"
      /\ pc' = [pc EXCEPT ![a] = "claiming"]
      /\ UNCHANGED <<aged, inflight, mailbox>>
      /\ HeldBy(k, m) /\ (HeaderKept => ~ Emailed(m)) /\ m \in aged
  BY DEF ReleaseEarlier, SettlingIsDecided
<1>b. /\ claim'[k].status = "none" /\ claim'[k].message = None
      /\ \A q \in Keys : q # k => claim'[q] = claim[q]
  BY <1>a DEF ReleaseEarlier, NoClaim, TypeOK
<1>c. /\ \A b \in Attempts : b # a => ctx'[b] = ctx[b]
      /\ ctx'[a].key = k /\ ctx'[a].text = ctx[a].text
      /\ ctx'[a].earlier = None /\ ctx'[a].account = ctx[a].account
  BY DEF ReleaseEarlier, TypeOK, CtxType
<1> HIDE DEF k, m
<1>1. NoTraceBeforeClaim'
  BY <1>k, <1>a, <1>b, <1>c DEF NoTraceBeforeClaim, TypeOK
<1>2. WorkingHolds'
  BY <1>k, <1>a, <1>b, <1>c DEF WorkingHolds, NoTraceBeforeClaim, TypeOK
<1>3. EmailIsClaimed'
  BY <1>k, <1>a, <1>b, <1>c DEF EmailIsClaimed, NoTraceBeforeClaim, TypeOK
<1>4. ClaimNamesItsAttempt'
  BY <1>k, <1>a, <1>b, <1>c DEF ClaimNamesItsAttempt, NoTraceBeforeClaim, TypeOK, ClaimsTyped
<1>5. SettlingIsDecided'
  BY <1>k, <1>a, <1>b, <1>c DEF SettlingIsDecided, NoTraceBeforeClaim, TypeOK
<1>6. RecordsWhatIsOut'
  BY <1>k, <1>a, <1>b, <1>c DEF RecordsWhatIsOut, TypeOK
<1> QED
  BY <1>1, <1>2, <1>3, <1>4, <1>5, <1>6

(* Returning before the claim.                                             *)
LEMMA DisciplineReturn ==
    ASSUME TypeInv, ClaimDiscipline,
           NEW a \in Attempts, ReleaseRefused(a) \/ FailBeforeClaim(a) \/ ClaimRefused(a)
    PROVE  ClaimDiscipline'
<1> USE ConstantsAssumption
<1> USE DEF TypeInv, ContextLoaded, BeforeClaim, Working, Recording, mailVars, recordVars
<1> USE DEF ClaimDiscipline, HasClaimed, Emailed, HeldBy, SentAs, EmailOf, Goto
<1>a. /\ pc[a] \in BeforeClaim /\ pc' = [pc EXCEPT ![a] = "idle"]
      /\ ctx' = [ctx EXCEPT ![a] = NoContext]
      /\ UNCHANGED <<claim, aged, inflight, mailbox>>
  BY DEF ReleaseRefused, FailBeforeClaim, ClaimRefused, Return
<1>b. NoContext.account = None /\ NoContext.earlier = None
  BY DEF NoContext
<1>1. NoTraceBeforeClaim'
  BY <1>a, <1>b DEF NoTraceBeforeClaim, TypeOK
<1>2. WorkingHolds'
  BY <1>a, <1>b DEF WorkingHolds, NoTraceBeforeClaim, TypeOK
<1>3. EmailIsClaimed'
  BY <1>a, <1>b DEF EmailIsClaimed, NoTraceBeforeClaim, TypeOK
<1>4. ClaimNamesItsAttempt'
  BY <1>a, <1>b DEF ClaimNamesItsAttempt, NoTraceBeforeClaim, TypeOK, ClaimsTyped
<1>5. SettlingIsDecided'
  BY <1>a, <1>b DEF SettlingIsDecided, NoTraceBeforeClaim, TypeOK
<1>6. RecordsWhatIsOut'
  BY <1>a, <1>b DEF RecordsWhatIsOut, TypeOK
<1> QED
  BY <1>1, <1>2, <1>3, <1>4, <1>5, <1>6

(* Claiming: the key is free, so no claim and no email is under it.        *)
LEMMA DisciplineClaim ==
    ASSUME TypeInv, ClaimDiscipline,
           NEW a \in Attempts, InsertClaim(a)
    PROVE  ClaimDiscipline'
<1> USE ConstantsAssumption
<1> USE DEF TypeInv, ContextLoaded, BeforeClaim, Working, Recording, mailVars, recordVars
<1> USE DEF ClaimDiscipline, HasClaimed, Emailed, HeldBy, SentAs, EmailOf, Goto
<1>k. \A b \in Attempts : ctx[b].key \in Keys \union {None}
  BY DEF TypeOK, CtxType
<1> DEFINE k == ctx[a].key
<1>a. /\ k \in Keys /\ ctx[a].key = k
      /\ pc[a] = "claiming" /\ ctx[a].account # None /\ ctx[a].earlier = None
      /\ pc' = [pc EXCEPT ![a] = "claimed"]
      /\ UNCHANGED <<ctx, aged, inflight, mailbox>>
      /\ claim[k].status = "none"
  BY DEF InsertClaim, NoClaim
<1>b. /\ claim'[k].status = "sending" /\ claim'[k].message = a
      /\ claim'[k].sender = ctx[a].account /\ claim'[k].text = ctx[a].text
      /\ \A q \in Keys : q # k => claim'[q] = claim[q]
  BY <1>a DEF InsertClaim, TypeOK
<1>c. ~ HasClaimed(a)
  BY <1>a
<1> HIDE DEF k
<1>1. NoTraceBeforeClaim'
  BY <1>k, <1>a, <1>b, <1>c DEF NoTraceBeforeClaim, TypeOK
<1>2. WorkingHolds'
  BY <1>k, <1>a, <1>b, <1>c DEF WorkingHolds, NoTraceBeforeClaim, TypeOK
<1>3. EmailIsClaimed'
  BY <1>k, <1>a, <1>b, <1>c DEF EmailIsClaimed, NoTraceBeforeClaim, TypeOK
<1>4. ClaimNamesItsAttempt'
  BY <1>k, <1>a, <1>b, <1>c DEF ClaimNamesItsAttempt, NoTraceBeforeClaim, TypeOK, ClaimsTyped
<1>5. SettlingIsDecided'
  BY <1>k, <1>a, <1>b, <1>c DEF SettlingIsDecided, NoTraceBeforeClaim, TypeOK
<1>6. RecordsWhatIsOut'
  BY <1>k, <1>a, <1>b, <1>c DEF RecordsWhatIsOut, TypeOK
<1> QED
  BY <1>1, <1>2, <1>3, <1>4, <1>5, <1>6

(* The request on the wire, until it is answered or lost.                  *)
LEMMA DisciplineWire ==
    ASSUME TypeInv, ClaimDiscipline,
           NEW a \in Attempts, PostMessage(a) \/ ReceiveSentId(a) \/ SendRefused(a) \/ RequestLost(a)
    PROVE  ClaimDiscipline'
<1> USE ConstantsAssumption
<1> USE DEF TypeInv, ContextLoaded, BeforeClaim, Working, Recording, mailVars, recordVars
<1> USE DEF ClaimDiscipline, HasClaimed, Emailed, HeldBy, SentAs, EmailOf, Goto
<1> USE DEF PostMessage, ReceiveSentId, SendRefused, RequestLost, TypeOK
<1>1. NoTraceBeforeClaim'
  BY DEF NoTraceBeforeClaim, WorkingHolds
<1>2. WorkingHolds'
  BY DEF WorkingHolds, EmailIsClaimed
<1>3. EmailIsClaimed'
  BY DEF EmailIsClaimed
<1>4. ClaimNamesItsAttempt'
  BY DEF ClaimNamesItsAttempt
<1>5. SettlingIsDecided'
  BY DEF SettlingIsDecided
<1>6. RecordsWhatIsOut'
  BY DEF RecordsWhatIsOut, WorkingHolds
<1> QED
  BY <1>1, <1>2, <1>3, <1>4, <1>5, <1>6

(* The reply is given up: what it wrote stays, its claim with it.          *)
LEMMA DisciplineEnd ==
    ASSUME TypeInv, ClaimDiscipline,
           NEW a \in Attempts, EndUnsettled(a)
    PROVE  ClaimDiscipline'
<1> USE ConstantsAssumption
<1> USE DEF TypeInv, ContextLoaded, BeforeClaim, Working, Recording, mailVars, recordVars
<1> USE DEF ClaimDiscipline, HasClaimed, Emailed, HeldBy, SentAs, EmailOf, Goto
<1>a. /\ pc[a] \in {"refused"} \union Working \union Recording
      /\ UNCHANGED <<claim, aged, inflight, mailbox>>
      /\ Finish(a, "ended")
  BY DEF EndUnsettled
<1> USE DEF TypeOK
<1>1. NoTraceBeforeClaim'
  BY <1>a, CallEnds DEF NoTraceBeforeClaim
<1>2. WorkingHolds'
  BY <1>a, CallEnds DEF WorkingHolds, NoTraceBeforeClaim
<1>3. EmailIsClaimed'
  BY <1>a, CallEnds DEF EmailIsClaimed, NoTraceBeforeClaim
<1>4. ClaimNamesItsAttempt'
  BY <1>a, CallEnds DEF ClaimNamesItsAttempt, NoTraceBeforeClaim, ClaimsTyped
<1>5. SettlingIsDecided'
  BY <1>a, CallEnds DEF SettlingIsDecided, NoTraceBeforeClaim
<1>6. RecordsWhatIsOut'
  BY <1>a, CallEnds DEF RecordsWhatIsOut, NoTraceBeforeClaim
<1> QED
  BY <1>1, <1>2, <1>3, <1>4, <1>5, <1>6

(* Releasing a claim Gmail refused to send for.                            *)
LEMMA DisciplineRefused ==
    ASSUME TypeInv, ClaimDiscipline,
           NEW a \in Attempts, ReleaseRefusedSend(a)
    PROVE  ClaimDiscipline'
<1> USE ConstantsAssumption
<1> USE DEF TypeInv, ContextLoaded, BeforeClaim, Working, Recording, mailVars, recordVars
<1> USE DEF ClaimDiscipline, HasClaimed, Emailed, HeldBy, SentAs, EmailOf, Goto
<1>k. \A b \in Attempts : ctx[b].key \in Keys \union {None}
  BY DEF TypeOK, CtxType
<1> DEFINE k == ctx[a].key
<1>a. /\ pc[a] = "refused" /\ ~ Emailed(a) /\ a \notin inflight
      /\ UNCHANGED <<aged, inflight, mailbox>>
      /\ Finish(a, "ended")
  BY DEF ReleaseRefusedSend, WorkingHolds
<1>b. \A q \in Keys :
        \/ claim'[q] = claim[q]
        \/ /\ q = k /\ HeldBy(q, a)
           /\ claim'[q].status = "none" /\ claim'[q].message = None
  BY DEF ReleaseRefusedSend, NoClaim, TypeOK
<1> HIDE DEF k
<1> USE DEF TypeOK
<1>1. NoTraceBeforeClaim'
  BY <1>k, <1>a, <1>b, CallEnds DEF NoTraceBeforeClaim
<1>2. WorkingHolds'
  BY <1>k, <1>a, <1>b, CallEnds DEF WorkingHolds, NoTraceBeforeClaim
<1>3. EmailIsClaimed'
  BY <1>k, <1>a, <1>b, CallEnds DEF EmailIsClaimed, NoTraceBeforeClaim
<1>4. ClaimNamesItsAttempt'
  BY <1>k, <1>a, <1>b, CallEnds DEF ClaimNamesItsAttempt, NoTraceBeforeClaim, ClaimsTyped
<1>5. SettlingIsDecided'
  BY <1>k, <1>a, <1>b, CallEnds DEF SettlingIsDecided, NoTraceBeforeClaim
<1>6. RecordsWhatIsOut'
  BY <1>k, <1>a, <1>b, CallEnds DEF RecordsWhatIsOut, NoTraceBeforeClaim
<1> QED
  BY <1>1, <1>2, <1>3, <1>4, <1>5, <1>6

(* Recording reads and logs; the email is out already.                     *)
LEMMA DisciplineRecord ==
    ASSUME TypeInv, ClaimDiscipline,
           NEW a \in Attempts, RecordAppSent(a) \/ ReadInquiry(a)
    PROVE  ClaimDiscipline'
<1> USE ConstantsAssumption
<1> USE DEF TypeInv, ContextLoaded, BeforeClaim, Working, Recording, mailVars, recordVars
<1> USE DEF ClaimDiscipline, HasClaimed, Emailed, HeldBy, SentAs, EmailOf, Goto
<1>a. /\ pc[a] \in {"logging", "reading"}
      /\ UNCHANGED <<claim, aged, inflight, mailbox>>
  BY DEF RecordAppSent, ReadInquiry
<1>b. \/ Finish(a, "ended")
      \/ /\ pc' \in {[pc EXCEPT ![a] = "reading"], [pc EXCEPT ![a] = "committing"]}
         /\ \A b \in Attempts : /\ b # a => ctx'[b] = ctx[b]
                                /\ ctx'[b].key = ctx[b].key /\ ctx'[b].text = ctx[b].text
                                /\ ctx'[b].earlier = ctx[b].earlier
                                /\ ctx'[b].account = ctx[b].account
  BY DEF RecordAppSent, ReadInquiry, TypeOK, CtxType
<1> USE DEF TypeOK
<1>1. NoTraceBeforeClaim'
  BY <1>a, <1>b, CallEnds DEF NoTraceBeforeClaim
<1>2. WorkingHolds'
  BY <1>a, <1>b, CallEnds DEF WorkingHolds, NoTraceBeforeClaim
<1>3. EmailIsClaimed'
  BY <1>a, <1>b, CallEnds DEF EmailIsClaimed, NoTraceBeforeClaim
<1>4. ClaimNamesItsAttempt'
  BY <1>a, <1>b, CallEnds DEF ClaimNamesItsAttempt, NoTraceBeforeClaim, ClaimsTyped
<1>5. SettlingIsDecided'
  BY <1>a, <1>b, CallEnds DEF SettlingIsDecided, NoTraceBeforeClaim
<1>6. RecordsWhatIsOut'
  BY <1>a, <1>b, CallEnds DEF RecordsWhatIsOut, NoTraceBeforeClaim
<1> QED
  BY <1>1, <1>2, <1>3, <1>4, <1>5, <1>6

(* Committing: the claim of an email that is out is marked sent.           *)
LEMMA DisciplineCommit ==
    ASSUME TypeInv, ClaimDiscipline,
           NEW a \in Attempts, CommitReply(a)
    PROVE  ClaimDiscipline'
<1> USE ConstantsAssumption
<1> USE DEF TypeInv, ContextLoaded, BeforeClaim, Working, Recording, mailVars, recordVars
<1> USE DEF ClaimDiscipline, HasClaimed, Emailed, HeldBy, SentAs, EmailOf, Goto
<1>k. \A b \in Attempts : ctx[b].key \in Keys \union {None}
  BY DEF TypeOK, CtxType
<1> DEFINE k == ctx[a].key  m == EmailOf(a)
<1>a. /\ pc[a] = "committing" /\ Emailed(m) /\ m \in Attempts
      /\ UNCHANGED <<aged, inflight, mailbox>>
      /\ Finish(a, "answered") \/ Finish(a, "ended")
  BY DEF CommitReply, RecordsWhatIsOut, TypeOK, CtxType
<1>b. \A q \in Keys :
        \/ claim'[q] = claim[q]
        \/ /\ q = k /\ HeldBy(q, m) /\ claim'[q].status = "sent"
           /\ claim'[q].message = claim[q].message /\ claim'[q].text = claim[q].text
           /\ claim'[q].sender = claim[q].sender
  BY DEF CommitReply, MarkSent, TypeOK, ClaimType
<1>c. m \notin inflight
  BY <1>a DEF WorkingHolds
<1>d. pc[m] \notin Working \/ m = a \/ m \in aged
  BY DEF SettlingIsDecided
<1> HIDE DEF k, m
<1> USE DEF TypeOK
<1>1. NoTraceBeforeClaim'
  BY <1>k, <1>a, <1>b, <1>c, <1>d, CallEnds DEF NoTraceBeforeClaim
<1>2. WorkingHolds'
  BY <1>k, <1>a, <1>b, <1>c, <1>d, CallEnds DEF WorkingHolds, NoTraceBeforeClaim
<1>3. EmailIsClaimed'
  BY <1>k, <1>a, <1>b, <1>c, <1>d, CallEnds DEF EmailIsClaimed, NoTraceBeforeClaim
<1>4. ClaimNamesItsAttempt'
  BY <1>k, <1>a, <1>b, <1>c, <1>d, CallEnds DEF ClaimNamesItsAttempt, NoTraceBeforeClaim, ClaimsTyped
<1>5. SettlingIsDecided'
  BY <1>k, <1>a, <1>b, <1>c, <1>d, CallEnds DEF SettlingIsDecided, NoTraceBeforeClaim
<1>6. RecordsWhatIsOut'
  BY <1>k, <1>a, <1>b, <1>c, <1>d, CallEnds DEF RecordsWhatIsOut, NoTraceBeforeClaim
<1> QED
  BY <1>1, <1>2, <1>3, <1>4, <1>5, <1>6

(* Gmail accepts the message of a call that holds its claim.               *)
LEMMA DisciplineAccept ==
    ASSUME TypeInv, ClaimDiscipline,
           NEW a \in Attempts, GmailAccepts(a)
    PROVE  ClaimDiscipline'
<1> USE ConstantsAssumption
<1> USE DEF TypeInv, ContextLoaded, BeforeClaim, Working, Recording, mailVars, recordVars
<1> USE DEF ClaimDiscipline, HasClaimed, Emailed, HeldBy, SentAs, EmailOf, Goto
<1>a. /\ a \in inflight /\ inflight' = inflight \ {a}
      /\ UNCHANGED <<claim, pc, ctx, aged>>
      /\ mailbox' = [mailbox EXCEPT ![a] = ctx[a].account]
      /\ mailbox \in [Attempts -> Accounts \union {None}]
      /\ pc[a] \in {"posting", "ended"} /\ HasClaimed(a) /\ a \notin aged
      /\ ctx[a].key # None => HeldBy(ctx[a].key, a)
  BY DEF GmailAccepts, WorkingHolds, NoTraceBeforeClaim, TypeOK
<1>1. NoTraceBeforeClaim'
  BY <1>a DEF NoTraceBeforeClaim
<1>2. WorkingHolds'
  BY <1>a DEF WorkingHolds
<1>3. EmailIsClaimed'
  BY <1>a DEF EmailIsClaimed
<1>4. ClaimNamesItsAttempt'
  BY <1>a DEF ClaimNamesItsAttempt
<1>5. SettlingIsDecided'
  BY <1>a DEF SettlingIsDecided
<1>6. RecordsWhatIsOut'
  BY <1>a DEF RecordsWhatIsOut
<1> QED
  BY <1>1, <1>2, <1>3, <1>4, <1>5, <1>6

(* Time passes: only a claim nobody works on goes stale.                   *)
LEMMA DisciplineAge ==
    ASSUME TypeInv, ClaimDiscipline,
           NEW a \in Attempts, ClaimAges(a)
    PROVE  ClaimDiscipline'
<1> USE ConstantsAssumption
<1> USE DEF TypeInv, ContextLoaded, BeforeClaim, Working, Recording, mailVars, recordVars
<1> USE DEF ClaimDiscipline, HasClaimed, Emailed, HeldBy, SentAs, EmailOf, Goto
<1> USE DEF ClaimAges
<1>1. NoTraceBeforeClaim'
  BY DEF NoTraceBeforeClaim
<1>2. WorkingHolds'
  BY DEF WorkingHolds
<1>3. EmailIsClaimed'
  BY DEF EmailIsClaimed
<1>4. ClaimNamesItsAttempt'
  BY DEF ClaimNamesItsAttempt
<1>5. SettlingIsDecided'
  BY DEF SettlingIsDecided
<1>6. RecordsWhatIsOut'
  BY DEF RecordsWhatIsOut
<1> QED
  BY <1>1, <1>2, <1>3, <1>4, <1>5, <1>6

(* The connection, the inquiry: no claim, no call and no email.           *)
LEMMA DisciplineQuiet ==
    ClaimDiscipline /\ UNCHANGED <<claim, pc, ctx, aged, inflight, mailbox>> => ClaimDiscipline'
BY DEF ClaimDiscipline, NoTraceBeforeClaim, HasClaimed, WorkingHolds, EmailIsClaimed,
       ClaimNamesItsAttempt, SettlingIsDecided, RecordsWhatIsOut, Emailed, HeldBy, SentAs, EmailOf

LEMMA DisciplineStep == TypeInv /\ ClaimDiscipline /\ [Next]_vars => ClaimDiscipline'
<1> SUFFICES ASSUME TypeInv, ClaimDiscipline, [Next]_vars PROVE ClaimDiscipline'
  OBVIOUS
<1>1. ASSUME NEW a \in Attempts, Call(a) PROVE ClaimDiscipline'
  BY <1>1, DisciplineReplay, DisciplineLoad, DisciplineSearch, DisciplineRelease,
     DisciplineReturn, DisciplineClaim, DisciplineWire, DisciplineEnd, DisciplineRefused,
     DisciplineRecord, DisciplineCommit
  DEF Call, Settle, Claim, Send, RecordReply
<1>2. CASE World
  <2>1. ASSUME NEW a \in Attempts, GmailAccepts(a) \/ RequestLost(a) \/ ClaimAges(a)
        PROVE  ClaimDiscipline'
    BY <2>1, DisciplineAccept, DisciplineWire, DisciplineAge
  <2>2. ASSUME (\E g \in Accounts : UpsertGmail(g)) \/ DisconnectGmail
                 \/ (\E s \in Stages : UpdateInquiry(s)) \/ DeleteInquiry
        PROVE  ClaimDiscipline'
    BY <2>2, DisciplineQuiet
    DEF UpsertGmail, DisconnectGmail, UpdateInquiry, DeleteInquiry, mailVars
  <2> QED
    BY <1>2, <2>1, <2>2 DEF World
<1>3. CASE UNCHANGED vars
  BY <1>3, DisciplineQuiet DEF vars
<1> QED
  BY <1>1, <1>2, <1>3 DEF Next

LEMMA Disciplined == Spec => [](TypeInv /\ ClaimDiscipline)
BY TypeInit, TypeStep, DisciplineInit, DisciplineStep, PTL DEF Spec

(* Of all attempts at one reply, over every retry, crash, late answer and  *)
(* change of mailbox, at most one email goes out: the email of a key is    *)
(* the one its claim names. Gmail has to keep the Message-ID: under        *)
(* another the settling call does not find it and releases the claim.      *)
THEOREM OneEmailPerReply ==
    ASSUME HeaderKept
    PROVE  Spec => []AtMostOneEmail
<1>1. TypeInv /\ ClaimDiscipline => AtMostOneEmail
  BY DEF ClaimDiscipline, EmailIsClaimed, AtMostOneEmail, HeldBy, SentAs
<1> QED
  BY <1>1, Disciplined, PTL

(* What is out stays out, and the call it went out as keeps the reply it   *)
(* was.                                                                    *)
LEMMA OutStays ==
    ASSUME TypeInv, ClaimDiscipline, [Next]_vars, NEW b \in Attempts, Emailed(b)
    PROVE  /\ Emailed(b)'
           /\ ctx'[b].key = ctx[b].key /\ ctx'[b].text = ctx[b].text
           /\ ctx'[b].told = ctx[b].told
<1> USE DEF Emailed, mailVars, recordVars, Goto
<1>1. HasClaimed(b)
  BY DEF ClaimDiscipline, NoTraceBeforeClaim
<1> USE <1>1 DEF HasClaimed, BeforeClaim
<1>2. CASE UNCHANGED <<ctx, mailbox>>
  BY <1>2
<1>3. ASSUME NEW a \in Attempts, pc[a] \in {"idle"} \union BeforeClaim, UNCHANGED mailbox,
             \E c : ctx' = [ctx EXCEPT ![a] = c]
      PROVE  ctx'[b] = ctx[b] /\ UNCHANGED mailbox
  BY <1>3 DEF TypeInv, TypeOK
<1>4. ASSUME NEW a \in Attempts, NEW how, Finish(a, how), UNCHANGED mailbox
      PROVE  /\ Emailed(b)'
             /\ ctx'[b].key = ctx[b].key /\ ctx'[b].text = ctx[b].text
             /\ ctx'[b].told = ctx[b].told
  BY <1>4, CallEnds
<1>5. ASSUME NEW a \in Attempts, Call(a)
      PROVE  /\ Emailed(b)'
             /\ ctx'[b].key = ctx[b].key /\ ctx'[b].text = ctx[b].text
             /\ ctx'[b].told = ctx[b].told
  <2>1. ASSUME NEW k \in Keys, NEW t \in Texts, Replay(a, k, t) PROVE ctx'[b] = ctx[b] /\ UNCHANGED mailbox
    BY <1>3, <2>1 DEF Replay
  <2>2. ASSUME NEW k \in Keys \union {None}, NEW t \in Texts, NEW p \in Pets, Load(a, k, t, p)
        PROVE  ctx'[b] = ctx[b] /\ UNCHANGED mailbox
    BY <1>3, <2>2 DEF Load
  <2>3. CASE ReleaseEarlier(a)
    <3>1. a # b
      BY <2>3 DEF ReleaseEarlier
    <3> QED
      BY <2>3, <3>1 DEF ReleaseEarlier, TypeInv, TypeOK
  <2>4. CASE ReleaseRefused(a) \/ FailBeforeClaim(a) \/ ClaimRefused(a)
    BY <1>3, <2>4 DEF ReleaseRefused, FailBeforeClaim, ClaimRefused, Return
  <2>5. CASE SearchGmail(a) \/ InsertClaim(a) \/ PostMessage(a) \/ ReceiveSentId(a)
             \/ SendRefused(a) \/ RecordAppSent(a)
    BY <1>2, <2>5 DEF SearchGmail, InsertClaim, PostMessage, ReceiveSentId, SendRefused, RecordAppSent
  <2>6. CASE ReleaseRefusedSend(a) \/ EndUnsettled(a) \/ CommitReply(a)
    BY <1>4, <2>6 DEF ReleaseRefusedSend, EndUnsettled, CommitReply
  <2>7. CASE ReadInquiry(a)
    BY <1>4, <2>7 DEF ReadInquiry, TypeInv, TypeOK, CtxType
  <2> QED
    BY <1>5, <2>1, <2>2, <2>3, <2>4, <2>5, <2>6, <2>7
    DEF Call, Settle, Claim, Send, RecordReply
<1>6. CASE World
  <2>1. ASSUME NEW a \in Attempts, GmailAccepts(a) PROVE Emailed(b)' /\ UNCHANGED ctx
    <3>1. a # b
      BY <2>1 DEF GmailAccepts, ClaimDiscipline, WorkingHolds
    <3> QED
      BY <2>1, <3>1 DEF GmailAccepts, TypeInv, TypeOK
  <2> QED
    BY <1>2, <1>6, <2>1
    DEF World, RequestLost, ClaimAges, UpsertGmail, DisconnectGmail, UpdateInquiry, DeleteInquiry
<1>7. CASE UNCHANGED vars
  BY <1>2, <1>7 DEF vars
<1> QED
  BY <1>5, <1>6, <1>7 DEF Next

(* Where a call is and what it knows changes by its own steps only.        *)
LEMMA OnlyItsCall ==
    ASSUME TypeInv, [Next]_vars, NEW a \in Attempts
    PROVE  Call(a) \/ (pc'[a] = pc[a] /\ ctx'[a] = ctx[a])
<1> USE DEF TypeInv, TypeOK, Goto
<1>1. ASSUME NEW b \in Attempts, b # a, Call(b) PROVE pc'[a] = pc[a] /\ ctx'[a] = ctx[a]
  <2>1. ASSUME NEW k \in Keys, NEW t \in Texts, Replay(b, k, t) PROVE pc'[a] = pc[a] /\ ctx'[a] = ctx[a]
    BY <1>1, <2>1 DEF Replay
  <2>2. ASSUME NEW k \in Keys \union {None}, NEW t \in Texts, NEW p \in Pets, Load(b, k, t, p)
        PROVE  pc'[a] = pc[a] /\ ctx'[a] = ctx[a]
    BY <1>1, <2>2 DEF Load
  <2>3. CASE ReleaseEarlier(b) \/ ReleaseRefused(b) \/ FailBeforeClaim(b) \/ ClaimRefused(b)
    BY <1>1, <2>3 DEF ReleaseEarlier, ReleaseRefused, FailBeforeClaim, ClaimRefused, Return
  <2>4. CASE SearchGmail(b) \/ InsertClaim(b) \/ PostMessage(b) \/ ReceiveSentId(b)
             \/ SendRefused(b) \/ RecordAppSent(b)
    BY <1>1, <2>4 DEF SearchGmail, InsertClaim, PostMessage, ReceiveSentId, SendRefused, RecordAppSent
  <2>5. CASE ReleaseRefusedSend(b) \/ EndUnsettled(b) \/ CommitReply(b) \/ ReadInquiry(b)
    BY <1>1, <2>5 DEF ReleaseRefusedSend, EndUnsettled, CommitReply, ReadInquiry, Finish
  <2> QED
    BY <1>1, <2>1, <2>2, <2>3, <2>4, <2>5 DEF Call, Settle, Claim, Send, RecordReply
<1>2. CASE World \/ UNCHANGED vars
  BY <1>2 DEF World, vars, GmailAccepts, RequestLost, ClaimAges, UpsertGmail, DisconnectGmail,
              UpdateInquiry, DeleteInquiry
<1> QED
  BY <1>1, <1>2 DEF Next

(* A call becomes "answered" by a replay or a commit only.                 *)
LEMMA Answers ==
    ASSUME TypeInv, [Next]_vars, NEW a \in Attempts, pc'[a] = "answered"
    PROVE  \/ pc[a] = "answered" /\ ctx'[a] = ctx[a]
           \/ \E k \in Keys, t \in Texts : Replay(a, k, t)
           \/ CommitReply(a)
<1> USE DEF TypeInv, TypeOK, Goto
<1>1. CASE Call(a)
  <2>1. CASE \E k \in Keys \union {None}, t \in Texts, p \in Pets : Load(a, k, t, p)
    BY <2>1 DEF Load
  <2>2. CASE ReleaseEarlier(a) \/ ReleaseRefused(a) \/ FailBeforeClaim(a) \/ ClaimRefused(a)
    BY <2>2 DEF ReleaseEarlier, ReleaseRefused, FailBeforeClaim, ClaimRefused, Return
  <2>3. CASE SearchGmail(a) \/ InsertClaim(a) \/ PostMessage(a) \/ ReceiveSentId(a)
             \/ SendRefused(a) \/ RecordAppSent(a)
    BY <2>3 DEF SearchGmail, InsertClaim, PostMessage, ReceiveSentId, SendRefused, RecordAppSent
  <2>4. CASE ReleaseRefusedSend(a) \/ EndUnsettled(a) \/ ReadInquiry(a)
    BY <2>4 DEF ReleaseRefusedSend, EndUnsettled, ReadInquiry, Finish
  <2> QED
    BY <1>1, <2>1, <2>2, <2>3, <2>4 DEF Call, Settle, Claim, Send, RecordReply
<1> QED
  BY <1>1, OnlyItsCall

LEMMA AnswerStep ==
    TypeInv /\ ClaimDiscipline /\ AnswerIsTrue /\ [Next]_vars => AnswerIsTrue'
<1> SUFFICES ASSUME TypeInv, ClaimDiscipline, AnswerIsTrue, [Next]_vars,
                    NEW a \in Attempts, pc'[a] = "answered"
             PROVE  \E b \in Attempts : /\ Emailed(b)'
                                        /\ ctx'[b].key = ctx'[a].key
                                        /\ ctx'[b].text = ctx'[a].text
  BY DEF AnswerIsTrue
<1>1. ASSUME NEW b \in Attempts, Emailed(b), ctx[b].key = ctx'[a].key, ctx[b].text = ctx'[a].text
      PROVE  \E c \in Attempts : /\ Emailed(c)'
                                 /\ ctx'[c].key = ctx'[a].key
                                 /\ ctx'[c].text = ctx'[a].text
  BY <1>1, OutStays
<1>2. CASE pc[a] = "answered" /\ ctx'[a] = ctx[a]
  BY <1>1, <1>2 DEF AnswerIsTrue
<1>3. ASSUME NEW k \in Keys, NEW t \in Texts, Replay(a, k, t)
      PROVE  \E b \in Attempts : Emailed(b) /\ ctx[b].key = ctx'[a].key /\ ctx[b].text = ctx'[a].text
  <2>1. ctx'[a].key = k /\ ctx'[a].text = t
    BY <1>3 DEF Replay, Request, NoContext, TypeInv, TypeOK
  <2> QED
    BY <1>3, <2>1
    DEF Replay, SameRequest, TypeInv, ClaimsTyped, ClaimDiscipline, ClaimNamesItsAttempt
<1>4. CASE CommitReply(a)
  <2> DEFINE m == EmailOf(a)
  <2>1. pc[a] = "committing" /\ (\E how : Finish(a, how))
    BY <1>4 DEF CommitReply
  <2>2. m \in Attempts /\ Emailed(m)
    BY <2>1 DEF ClaimDiscipline, RecordsWhatIsOut, Recording, EmailOf, TypeInv, TypeOK, CtxType
  <2>3. ctx[m].key = ctx[a].key /\ ctx[m].text = ctx[a].text
    BY DEF ClaimDiscipline, SettlingIsDecided, EmailOf
  <2>4. ctx'[a].key = ctx[a].key /\ ctx'[a].text = ctx[a].text
    BY <2>1, CallEnds
  <2> QED
    BY <1>1, <2>2, <2>3, <2>4
<1> QED
  BY <1>1, <1>2, <1>3, <1>4, Answers

(* A host who is shown a reply as sent has had that very text mailed to    *)
(* the inquirer: by this call, by the one it settled, or by the one whose  *)
(* sent claim it was answered with.                                        *)
THEOREM AnswersAreTrue == Spec => []AnswerIsTrue
<1>1. Init => AnswerIsTrue
  BY DEF Init, AnswerIsTrue
<1> QED
  BY <1>1, Disciplined, AnswerStep, PTL DEF Spec

-----------------------------------------------------------------------------
(* The inductive invariants of the records.                                *)

(* A sent claim has one message of its own email.                          *)
OneMessage ==
    \A k \in Keys :
        claim[k].status = "sent" =>
            \E m \in messages :
                {n \in messages : n.email = claim[k].message} = {m}

MessageIsOut ==
    \A m \in messages :
        /\ Emailed(m.email)
        /\ ctx[m.email].key # None => SentAs(ctx[m.email].key, m.email)

(* Whoever commits has logged its email.                                   *)
LoggedFirst ==
    /\ \A m \in messages : m.email \in appSent
    /\ \A a \in Attempts : pc[a] \in {"reading", "committing"} => EmailOf(a) \in appSent

(* Whoever commits has read the stage, and "new" is moved on, unless the   *)
(* host has set it since.                                                  *)
StillNew == inquiry.stage = "new" /\ ~ inquiry.reopened

StageMoves ==
    /\ messages # {} => ~ StillNew
    /\ \A a \in Attempts : pc[a] = "committing" /\ StillNew => ctx[a].stage = "new"

(* Some email that is out tells of the pets.                               *)
PetsTold == \E b \in Attempts : Emailed(b) /\ ctx[b].told

(* A reply written while there are pets tells of them, or had no need to.  *)
ToldOrKnown ==
    /\ \A a \in Attempts :
         ctx[a].account # None => ctx[a].pets /\ (ctx[a].told \/ PetsTold)
    /\ (\E m \in messages : m.told) => PetsTold
-----------------------------------------------------------------------------
(* One transaction records the message, the mark and the stage.            *)

CommitsAll(a) ==
    LET k == ctx[a].key
        m == EmailOf(a)
        s == NextStageForReply(ctx[a].stage)
    IN  /\ pc[a] = "committing"
        /\ k # None => HeldBy(k, m)
        /\ messages' = messages \union {[email |-> m, by |-> a, told |-> ctx[a].told]}
        /\ MarkSent(k)
        /\ inquiry' = IF s = ctx[a].stage THEN inquiry ELSE [inquiry EXCEPT !.stage = s]
        /\ Finish(a, "answered")
        /\ UNCHANGED <<aged, mailVars, appSent, conn>>

RecordsNothing ==
    /\ UNCHANGED messages
    /\ \A k \in Keys :
         claim[k].status = "sent" \/ claim'[k].status = "sent" => claim'[k] = claim[k]

LEMMA CommitsOrNot ==
    ASSUME TypeInv, [Next]_vars
    PROVE  (\E a \in Attempts : CommitsAll(a)) \/ RecordsNothing
<1> USE DEF TypeInv, TypeOK, RecordsNothing, recordVars
<1>1. ASSUME UNCHANGED <<claim, messages>> PROVE RecordsNothing
  BY <1>1
<1>2. ASSUME NEW k \in Keys, NEW c, UNCHANGED messages, claim' = [claim EXCEPT ![k] = c],
             claim[k].status # "sent", c.status # "sent"
      PROVE  RecordsNothing
  BY <1>2
<1>3. ASSUME NEW a \in Attempts, Call(a) PROVE CommitsAll(a) \/ RecordsNothing
  <2>1. ctx[a].key \in Keys \union {None}
    BY DEF CtxType
  <2>2. CASE \/ \E k \in Keys, t \in Texts : Replay(a, k, t)
             \/ \E k \in Keys \union {None}, t \in Texts, p \in Pets : Load(a, k, t, p)
    BY <1>1, <2>2 DEF Replay, Load
  <2>3. CASE \/ SearchGmail(a) \/ ReleaseRefused(a) \/ FailBeforeClaim(a) \/ ClaimRefused(a)
             \/ PostMessage(a) \/ ReceiveSentId(a) \/ SendRefused(a) \/ EndUnsettled(a)
             \/ RecordAppSent(a) \/ ReadInquiry(a)
    BY <1>1, <2>3 DEF SearchGmail, ReleaseRefused, FailBeforeClaim, ClaimRefused, PostMessage,
                      ReceiveSentId, SendRefused, EndUnsettled, RecordAppSent, ReadInquiry
  <2>4. CASE ReleaseEarlier(a)
    <3>1. ctx[a].key \in Keys
      BY <2>4 DEF ReleaseEarlier, ContextLoaded, BeforeClaim
    <3> QED
      BY <1>2, <2>4, <3>1 DEF ReleaseEarlier, HeldBy, NoClaim
  <2>5. CASE InsertClaim(a)
    <3>1. ctx[a].key \in Keys
      BY <2>5 DEF InsertClaim, ContextLoaded, BeforeClaim
    <3> QED
      BY <1>2, <2>5, <3>1 DEF InsertClaim, NoClaim
  <2>6. CASE ReleaseRefusedSend(a)
    BY <1>1, <1>2, <2>1, <2>6 DEF ReleaseRefusedSend, HeldBy, NoClaim
  <2>7. CASE CommitReply(a)
    BY <1>1, <2>7 DEF CommitReply, CommitsAll
  <2> QED
    BY <1>3, <2>2, <2>3, <2>4, <2>5, <2>6, <2>7 DEF Call, Settle, Claim, Send, RecordReply
<1>4. CASE World \/ UNCHANGED vars
  BY <1>1, <1>4 DEF World, vars, GmailAccepts, RequestLost, ClaimAges, UpsertGmail,
                    DisconnectGmail, UpdateInquiry, DeleteInquiry
<1> QED
  BY <1>3, <1>4 DEF Next

(* What is committed is one email's message, under its own key.            *)
LEMMA CommitFacts ==
    ASSUME TypeInv, ClaimDiscipline, NEW a \in Attempts, CommitsAll(a)
    PROVE  /\ EmailOf(a) \in Attempts /\ Emailed(EmailOf(a))
           /\ ctx[EmailOf(a)].key = ctx[a].key
           /\ HasClaimed(EmailOf(a))
<1>1. EmailOf(a) \in Attempts /\ Emailed(EmailOf(a))
  BY DEF CommitsAll, ClaimDiscipline, RecordsWhatIsOut, Recording, EmailOf, TypeInv, TypeOK, CtxType
<1>2. ctx[EmailOf(a)].key = ctx[a].key
  BY DEF ClaimDiscipline, SettlingIsDecided, EmailOf
<1> QED
  BY <1>1, <1>2 DEF ClaimDiscipline, NoTraceBeforeClaim

LEMMA RecordStep ==
    TypeInv /\ ClaimDiscipline /\ OneMessage /\ MessageIsOut /\ [Next]_vars
        => OneMessage' /\ MessageIsOut'
<1> SUFFICES ASSUME TypeInv, ClaimDiscipline, OneMessage, MessageIsOut, [Next]_vars
             PROVE  OneMessage' /\ MessageIsOut'
  OBVIOUS
<1>1. \A m \in messages : m.email \in Attempts
  BY DEF TypeInv, TypeOK, MessageType
<1>2. \A b \in Attempts : ctx[b].key \in Keys \union {None}
  BY DEF TypeInv, TypeOK, CtxType
<1>3. CASE RecordsNothing
  <2>1. OneMessage'
    BY <1>3 DEF OneMessage, RecordsNothing
  <2>2. MessageIsOut'
    BY <1>1, <1>2, <1>3, OutStays DEF MessageIsOut, RecordsNothing, SentAs
  <2> QED
    BY <2>1, <2>2
<1>4. ASSUME NEW a \in Attempts, CommitsAll(a) PROVE OneMessage' /\ MessageIsOut'
  <2> DEFINE k == ctx[a].key  e == EmailOf(a)
             new == [email |-> e, by |-> a, told |-> ctx[a].told]
  <2>1. e \in Attempts /\ Emailed(e) /\ ctx[e].key = k /\ k \in Keys \union {None}
    BY <1>2, <1>4, CommitFacts
  <2>2. new.email = e /\ messages' = messages \union {new} /\ (k # None => HeldBy(k, e))
    BY <1>4 DEF CommitsAll
  <2>3. /\ k # None => claim'[k].status = "sent" /\ claim'[k].message = e
        /\ \A q \in Keys : q # k => claim'[q] = claim[q]
    BY <1>4, <2>1, <2>2, ConstantsAssumption
    DEF CommitsAll, MarkSent, HeldBy, TypeInv, TypeOK, ClaimType
  <2> HIDE DEF k, e, new
  <2>4. k # None => \A m \in messages : m.email # e
    BY <2>1, <2>2 DEF MessageIsOut, SentAs, HeldBy
  <2>5. OneMessage'
    <3> SUFFICES ASSUME NEW q \in Keys, claim'[q].status = "sent"
                 PROVE  \E m \in messages' : {n \in messages' : n.email = claim'[q].message} = {m}
      BY DEF OneMessage
    <3>1. CASE q = k
      <4>1. {n \in messages' : n.email = e} = {new}
        BY <2>2, <2>4, <3>1, ConstantsAssumption
      <4> QED
        BY <2>2, <2>3, <3>1, <4>1, ConstantsAssumption
    <3>2. CASE q # k
      <4>1. claim'[q] = claim[q]
        BY <2>3, <3>2
      <4>2. ctx[claim[q].message].key = q
        BY <4>1 DEF ClaimDiscipline, ClaimNamesItsAttempt
      <4>3. claim[q].message # e
        BY <2>1, <3>2, <4>2
      <4>4. {n \in messages' : n.email = claim[q].message} = {n \in messages : n.email = claim[q].message}
        BY <2>2, <4>3
      <4> QED
        BY <2>2, <4>1, <4>4 DEF OneMessage
    <3> QED
      BY <3>1, <3>2
  <2>6. MessageIsOut'
    <3> SUFFICES ASSUME NEW m \in messages'
                 PROVE  /\ Emailed(m.email)'
                        /\ ctx'[m.email].key # None => SentAs(ctx[m.email].key, m.email)'
      BY DEF MessageIsOut
    <3>1. CASE m = new
      BY <2>1, <2>2, <2>3, <3>1, OutStays DEF SentAs
    <3>2. CASE m \in messages
      <4>1. m.email \in Attempts /\ Emailed(m.email)
        BY <1>1, <3>2 DEF MessageIsOut
      <4>2. Emailed(m.email)' /\ ctx'[m.email].key = ctx[m.email].key
        BY <4>1, OutStays
      <4>3. ctx[m.email].key # None => ctx[m.email].key # k
        BY <2>2, <2>4, <3>2 DEF MessageIsOut, SentAs, HeldBy
      <4> QED
        BY <1>2, <2>3, <3>2, <4>1, <4>2, <4>3 DEF MessageIsOut, SentAs
    <3> QED
      BY <2>2, <3>1, <3>2
  <2> QED
    BY <2>5, <2>6
<1> QED
  BY <1>3, <1>4, CommitsOrNot

(* A call comes to read or to commit by logging or by reading.             *)
LEMMA ReachesCommit ==
    ASSUME TypeInv, NEW a \in Attempts, Call(a), pc'[a] \in {"reading", "committing"}
    PROVE  \/ RecordAppSent(a)
           \/ /\ ReadInquiry(a) /\ pc[a] = "reading" /\ UNCHANGED <<appSent, inquiry>>
              /\ ctx'[a].earlier = ctx[a].earlier /\ ctx'[a].stage = inquiry.stage
<1> USE DEF TypeInv, TypeOK, Goto
<1>1. CASE \/ \E k \in Keys, t \in Texts : Replay(a, k, t)
           \/ \E k \in Keys \union {None}, t \in Texts, p \in Pets : Load(a, k, t, p)
  BY <1>1 DEF Replay, Load
<1>2. CASE ReleaseEarlier(a) \/ ReleaseRefused(a) \/ FailBeforeClaim(a) \/ ClaimRefused(a)
  BY <1>2 DEF ReleaseEarlier, ReleaseRefused, FailBeforeClaim, ClaimRefused, Return
<1>3. CASE SearchGmail(a) \/ InsertClaim(a) \/ PostMessage(a) \/ ReceiveSentId(a) \/ SendRefused(a)
  BY <1>3 DEF SearchGmail, InsertClaim, PostMessage, ReceiveSentId, SendRefused
<1>4. CASE ReleaseRefusedSend(a) \/ EndUnsettled(a) \/ CommitReply(a)
  BY <1>4 DEF ReleaseRefusedSend, EndUnsettled, CommitReply, Finish
<1>5. CASE ReadInquiry(a)
  BY <1>5 DEF ReadInquiry, Finish, CtxType, recordVars
<1> QED
  BY <1>1, <1>2, <1>3, <1>4, <1>5 DEF Call, Settle, Claim, Send, RecordReply

(* A log entry stays, and no stage but the host's becomes "new" again.     *)
LEMMA RecordsStay ==
    ASSUME TypeInv, [Next]_vars
    PROVE  /\ appSent \subseteq appSent'
           /\ StillNew' => StillNew
<1> USE DEF TypeInv, TypeOK, recordVars, StillNew
<1>1. ASSUME NEW a \in Attempts, Call(a)
      PROVE  appSent \subseteq appSent' /\ (StillNew' => StillNew)
  <2>1. CASE RecordAppSent(a)
    BY <2>1 DEF RecordAppSent
  <2>2. CASE CommitReply(a)
    BY <2>2 DEF CommitReply, NextStageForReply, InquiryType
  <2>3. CASE UNCHANGED recordVars
    BY <2>3
  <2> QED
    BY <1>1, <2>1, <2>2, <2>3
    DEF Call, Settle, Claim, Send, RecordReply, Replay, Load, SearchGmail, ReleaseEarlier,
        ReleaseRefused, FailBeforeClaim, InsertClaim, ClaimRefused, PostMessage, ReceiveSentId,
        SendRefused, ReleaseRefusedSend, EndUnsettled, ReadInquiry
<1>2. ASSUME NEW s \in Stages, UpdateInquiry(s)
      PROVE  appSent \subseteq appSent' /\ (StillNew' => StillNew)
  BY <1>2 DEF UpdateInquiry, InquiryType
<1>3. CASE DeleteInquiry
  BY <1>3 DEF DeleteInquiry, InquiryType
<1>4. CASE UNCHANGED recordVars
  BY <1>4
<1> QED
  BY <1>1, <1>2, <1>3, <1>4
  DEF Next, World, vars, GmailAccepts, RequestLost, ClaimAges, UpsertGmail, DisconnectGmail

LEMMA LogStep ==
    LogNeverFails /\ TypeInv /\ LoggedFirst /\ [Next]_vars => LoggedFirst'
<1> SUFFICES ASSUME LogNeverFails, TypeInv, LoggedFirst, [Next]_vars PROVE LoggedFirst'
  OBVIOUS
<1> USE DEF LoggedFirst
<1>1. \A m \in messages' : m.email \in appSent'
  BY CommitsOrNot, RecordsStay DEF CommitsAll, RecordsNothing
<1>2. ASSUME NEW a \in Attempts, pc'[a] \in {"reading", "committing"}
      PROVE  EmailOf(a)' \in appSent'
  <2>1. CASE pc'[a] = pc[a] /\ ctx'[a] = ctx[a]
    BY <1>2, <2>1, RecordsStay DEF EmailOf
  <2>2. CASE Call(a)
    BY <1>2, <2>2, ReachesCommit DEF RecordAppSent, EmailOf
  <2> QED
    BY <2>1, <2>2, OnlyItsCall
<1> QED
  BY <1>1, <1>2

LEMMA StageStep == TypeInv /\ StageMoves /\ [Next]_vars => StageMoves'
<1> SUFFICES ASSUME TypeInv, StageMoves, [Next]_vars PROVE StageMoves'
  OBVIOUS
<1> USE DEF StageMoves
<1>1. messages' # {} => ~ StillNew'
  <2>1. CASE RecordsNothing
    BY <2>1, RecordsStay DEF RecordsNothing
  <2>2. ASSUME NEW a \in Attempts, CommitsAll(a) PROVE ~ StillNew'
    BY <2>2 DEF CommitsAll, NextStageForReply, StillNew, InquiryType, TypeInv, TypeOK
  <2> QED
    BY <2>1, <2>2, CommitsOrNot
<1>2. ASSUME NEW a \in Attempts, pc'[a] = "committing", StillNew'
      PROVE  ctx'[a].stage = "new"
  <2>1. CASE pc'[a] = pc[a] /\ ctx'[a] = ctx[a]
    BY <1>2, <2>1, RecordsStay
  <2>2. CASE Call(a)
    <3>1. ~ RecordAppSent(a)
      BY <1>2 DEF RecordAppSent, Goto, TypeInv, TypeOK
    <3> QED
      BY <1>2, <2>2, <3>1, ReachesCommit DEF StillNew
  <2> QED
    BY <2>1, <2>2, OnlyItsCall
<1> QED
  BY <1>1, <1>2

(* A sent reply has one message, a recorded reply has its email out, its   *)
(* claim sent and its stage moved on, unless the host set it back,         *)
(* whoever records it; and when the log write reaches its commit, the      *)
(* email of every recorded reply is in the log.                            *)
THEOREM RepliesRecordedTogether ==
    ASSUME LogNeverFails
    PROVE  Spec => []RecordedTogether
<1> DEFINE Records == OneMessage /\ MessageIsOut /\ LoggedFirst /\ StageMoves
<1>1. Init => Records
  BY DEF Init, NoClaim, OneMessage, MessageIsOut, LoggedFirst, StageMoves
<1>2. TypeInv /\ ClaimDiscipline /\ Records /\ [Next]_vars => Records'
  BY RecordStep, LogStep, StageStep
<1>3. TypeInv /\ ClaimDiscipline /\ Records => RecordedTogether
  <2> SUFFICES ASSUME TypeInv, Records PROVE RecordedTogether
    OBVIOUS
  <2>1. ASSUME NEW k \in Keys, claim[k].status = "sent"
        PROVE  Cardinality({m \in messages : m.email = claim[k].message}) = 1
    BY <2>1, FS_Singleton DEF OneMessage
  <2> QED
    BY <2>1 DEF RecordedTogether, MessageIsOut, LoggedFirst, StageMoves, StillNew, SentAs
<1> QED
  BY <1>1, <1>2, <1>3, Disciplined, PTL DEF Spec

-----------------------------------------------------------------------------
(* The pets.                                                               *)

LEMMA PetsToldStays ==
    TypeInv /\ ClaimDiscipline /\ PetsTold /\ [Next]_vars => PetsTold'
BY OutStays DEF PetsTold

LEMMA ToldStep ==
    FALSE \notin Pets /\ TypeInv /\ ClaimDiscipline /\ ToldOrKnown /\ [Next]_vars => ToldOrKnown'
<1> SUFFICES ASSUME FALSE \notin Pets, TypeInv, ClaimDiscipline, ToldOrKnown, [Next]_vars
             PROVE  ToldOrKnown'
  OBVIOUS
<1> USE DEF ToldOrKnown, TypeInv, TypeOK, Goto
<1>1. ASSUME NEW a \in Attempts, ctx'[a].account # None
      PROVE  ctx'[a].pets /\ (ctx'[a].told \/ PetsTold')
  <2>1. ASSUME ctx'[a].pets = ctx[a].pets, ctx'[a].told = ctx[a].told, ctx[a].account # None
        PROVE  ctx'[a].pets /\ (ctx'[a].told \/ PetsTold')
    BY <2>1, PetsToldStays
  <2>2. ASSUME NEW how, Finish(a, how) PROVE ctx'[a].pets /\ (ctx'[a].told \/ PetsTold')
    BY <1>1, <2>1, <2>2, CallEnds
  <2>3. ASSUME NEW k \in Keys, NEW t \in Texts, Replay(a, k, t) PROVE ctx'[a].account = None
    BY <2>3 DEF Replay, Request, NoContext
  <2>4. ASSUME NEW k \in Keys \union {None}, NEW t \in Texts, NEW p \in Pets, Load(a, k, t, p)
        PROVE  ctx'[a].pets /\ (ctx'[a].told \/ PetsTold')
    <3>1. p = TRUE
      BY ConstantsAssumption
    <3>2. \E e : ctx'[a] = Context(k, t, p, e)
      BY <2>4 DEF Load
    <3>3. ctx'[a].pets = p /\ ctx'[a].told = BodyTells(p, t)
      BY <3>2 DEF Context, Request, NoContext
    <3>4. AlreadyTold => PetsTold'
      BY PetsToldStays DEF AlreadyTold
    <3> QED
      BY <3>1, <3>3, <3>4 DEF BodyTells
  <2>5. CASE ReleaseEarlier(a)
    <3>1. /\ ctx'[a].pets = ctx[a].pets /\ ctx'[a].told = ctx[a].told
          /\ ctx'[a].account = ctx[a].account
      BY <2>5 DEF ReleaseEarlier, CtxType
    <3> QED
      BY <1>1, <2>1, <3>1
  <2>6. CASE ReleaseRefused(a) \/ FailBeforeClaim(a) \/ ClaimRefused(a)
    BY <1>1, <2>6 DEF ReleaseRefused, FailBeforeClaim, ClaimRefused, Return, NoContext
  <2>7. CASE ReleaseRefusedSend(a) \/ EndUnsettled(a) \/ CommitReply(a)
    BY <2>2, <2>7 DEF ReleaseRefusedSend, EndUnsettled, CommitReply
  <2>8. CASE ReadInquiry(a)
    <3>1. CASE Finish(a, "ended")
      BY <2>2, <3>1
    <3>2. CASE ctx' = [ctx EXCEPT ![a].stage = inquiry.stage]
      <4>1. /\ ctx'[a].pets = ctx[a].pets /\ ctx'[a].told = ctx[a].told
            /\ ctx'[a].account = ctx[a].account
        BY <3>2 DEF CtxType
      <4> QED
        BY <1>1, <2>1, <4>1
    <3> QED
      BY <2>8, <3>1, <3>2 DEF ReadInquiry
  <2>9. CASE ctx'[a] = ctx[a]
    BY <1>1, <2>1, <2>9
  <2>10. CASE Call(a)
    BY <1>1, <2>3, <2>4, <2>5, <2>6, <2>7, <2>8, <2>9, <2>10
    DEF Call, Settle, Claim, Send, RecordReply, SearchGmail, InsertClaim, PostMessage,
        ReceiveSentId, SendRefused, RecordAppSent
  <2> QED
    BY <2>9, <2>10, OnlyItsCall
<1>2. (\E m \in messages' : m.told) => PetsTold'
  <2>1. CASE RecordsNothing
    BY <2>1, PetsToldStays DEF RecordsNothing
  <2>2. ASSUME NEW a \in Attempts, CommitsAll(a) PROVE PetsTold'
    <3>1. PetsTold
      BY <2>2, CommitFacts DEF PetsTold, HasClaimed
    <3> QED
      BY <3>1, PetsToldStays
  <2> QED
    BY <2>1, <2>2, CommitsOrNot
<1> QED
  BY <1>1, <1>2

(* Once a reply is out, a reply that tells of the pets is out, as long as  *)
(* the listing has pets: a reply says nothing of them only after a         *)
(* recorded one, and what is recorded as telling of them is out or had     *)
(* been preceded by one that is.                                           *)
THEOREM InquirerHeardOfPets ==
    ASSUME FALSE \notin Pets
    PROVE  Spec => []HeardOfPets
<1>1. Init => ToldOrKnown
  BY DEF Init, NoContext, ToldOrKnown
<1>2. TypeInv /\ ClaimDiscipline /\ ToldOrKnown => HeardOfPets
  BY DEF ToldOrKnown, HeardOfPets, PetsTold, ClaimDiscipline, NoTraceBeforeClaim, HasClaimed
<1> QED
  BY <1>1, <1>2, ToldStep, Disciplined, PTL DEF Spec

-----------------------------------------------------------------------------
(* ReplySend implements SendOnce.                                          *)

StateMap == [k \in Keys |-> AbstractState(k)]
MailMap == [k \in Keys |-> AbstractMail(k)]

(* Steps that move the status of one claim and mail nothing.               *)
LEMMA MoveMaps ==
    ASSUME NEW k \in Keys,
           UNCHANGED MailMap,
           \A q \in Keys \ {k} : claim'[q].status = claim[q].status,
           \/ claim[k].status = "none" /\ claim'[k].status = "sending"
           \/ claim[k].status = "sending" /\ claim'[k].status = "none" /\ AbstractMail(k) = {}
           \/ claim[k].status = "sending" /\ claim'[k].status = "sent" /\ AbstractMail(k) # {}
    PROVE  [Once!Next]_<<StateMap, MailMap>>
<1>1. StateMap' = [StateMap EXCEPT ![k] = AbstractState(k)']
  <2>1. \A q \in Keys \ {k} : AbstractState(q)' = AbstractState(q)
    BY DEF AbstractState
  <2>2. StateMap' = [q \in Keys |-> AbstractState(q)']
    BY DEF StateMap
  <2> QED
    BY <2>1, <2>2, Zenon DEF StateMap
<1>2. MailMap[k] = AbstractMail(k) /\ StateMap[k] = AbstractState(k)
  BY DEF StateMap, MailMap
<1>3. CASE claim[k].status = "none" /\ claim'[k].status = "sending"
  BY <1>1, <1>2, <1>3 DEF AbstractState, Once!Next, Once!Try, Once!Move, StateMap, MailMap
<1>4. CASE claim[k].status = "sending" /\ claim'[k].status = "none" /\ AbstractMail(k) = {}
  BY <1>1, <1>2, <1>4 DEF AbstractState, Once!Next, Once!GiveUp, Once!Move, StateMap, MailMap
<1>5. CASE claim[k].status = "sending" /\ claim'[k].status = "sent" /\ AbstractMail(k) # {}
  BY <1>1, <1>2, <1>5 DEF AbstractState, Once!Next, Once!Confirm, Once!Move, StateMap, MailMap
<1> QED
  BY <1>3, <1>4, <1>5

(* Steps that leave the claims and the mailbox alone.                      *)
LEMMA StutterMaps ==
    ASSUME UNCHANGED MailMap, UNCHANGED claim
    PROVE  [Once!Next]_<<StateMap, MailMap>>
<1>1. \A q \in Keys : AbstractState(q)' = AbstractState(q)
  BY DEF AbstractState
<1> QED
  BY <1>1 DEF StateMap

(* While the mailbox stays, so does every reply's mail: a call that sent   *)
(* keeps its key, and one that has not is no mail of any.                  *)
LEMMA MailStays ==
    ASSUME TypeInv, ClaimDiscipline, [Next]_vars, UNCHANGED mailbox
    PROVE  UNCHANGED MailMap
<1>1. \A a \in Attempts : Emailed(a) => ctx'[a].key = ctx[a].key
  BY OutStays
<1>2. \A k \in Keys : AbstractMail(k)' = AbstractMail(k)
  BY <1>1 DEF AbstractMail, Emailed
<1> QED
  BY <1>2 DEF MailMap

(* The email of a key under a claim is the claim's.                        *)
LEMMA MailOfClaim ==
    ASSUME HeaderKept, ClaimDiscipline, NEW k \in Keys, NEW m \in Attempts, HeldBy(k, m)
    PROVE  (AbstractMail(k) = {}) <=> ~ Emailed(m)
<1>1. \A a \in Attempts : Emailed(a) /\ ctx[a].key = k => a = m
  BY ConstantsAssumption DEF ClaimDiscipline, EmailIsClaimed, HeldBy, SentAs
<1>2. ctx[m].key = k
  BY DEF ClaimDiscipline, ClaimNamesItsAttempt, HeldBy
<1> QED
  BY <1>1, <1>2 DEF AbstractMail

LEMMA InitMaps == Init => Once!Init
<1> SUFFICES ASSUME Init PROVE Once!Init
  OBVIOUS
<1>1. \A k \in Keys : AbstractState(k) = "open"
  BY DEF Init, NoClaim, AbstractState
<1>2. \A k \in Keys : AbstractMail(k) = {}
  BY DEF Init, AbstractMail, Emailed
<1> QED
  BY <1>1, <1>2 DEF Once!Init

(* Every step of a call, and of the world, is a step of SendOnce or none.  *)
LEMMA CallMaps ==
    ASSUME HeaderKept, TypeInv, ClaimDiscipline, [Next]_vars, NEW a \in Attempts, Call(a)
    PROVE  [Once!Next]_<<StateMap, MailMap>>
<1> USE DEF mailVars, recordVars
<1>1. UNCHANGED MailMap
  <2>1. UNCHANGED mailbox
    BY DEF Call, Settle, Claim, Send, RecordReply, Replay, Load, SearchGmail, ReleaseEarlier,
           ReleaseRefused, FailBeforeClaim, InsertClaim, ClaimRefused, PostMessage, ReceiveSentId,
           SendRefused, ReleaseRefusedSend, EndUnsettled, RecordAppSent, ReadInquiry, CommitReply
  <2> QED
    BY <2>1, MailStays
<1>2. CASE UNCHANGED claim
  BY <1>1, <1>2, StutterMaps
<1>3. CASE ReleaseEarlier(a)
  <2> DEFINE k == ctx[a].key  m == ctx[a].earlier
  <2>1. k \in Keys /\ m \in Attempts /\ HeldBy(k, m) /\ ~ Emailed(m)
    BY <1>3, ConstantsAssumption
    DEF ReleaseEarlier, TypeInv, ContextLoaded, BeforeClaim, ClaimDiscipline, SettlingIsDecided
  <2>2. claim'[k].status = "none" /\ \A q \in Keys \ {k} : claim'[q] = claim[q]
    BY <1>3, <2>1 DEF ReleaseEarlier, NoClaim, TypeInv, TypeOK
  <2> HIDE DEF k, m
  <2> QED
    BY <1>1, <2>1, <2>2, MailOfClaim, MoveMaps DEF HeldBy
<1>4. CASE InsertClaim(a)
  <2> DEFINE k == ctx[a].key
  <2>1. k \in Keys /\ claim[k].status = "none"
    BY <1>4 DEF InsertClaim, NoClaim, TypeInv, ContextLoaded, BeforeClaim
  <2>2. claim'[k].status = "sending" /\ \A q \in Keys \ {k} : claim'[q] = claim[q]
    BY <1>4, <2>1 DEF InsertClaim, TypeInv, TypeOK
  <2> HIDE DEF k
  <2> QED
    BY <1>1, <2>1, <2>2, MoveMaps
<1>5. CASE ReleaseRefusedSend(a) /\ claim' # claim
  <2> DEFINE k == ctx[a].key
  <2>1. k \in Keys /\ HeldBy(k, a) /\ ~ Emailed(a)
    BY <1>5 DEF ReleaseRefusedSend, TypeInv, TypeOK, CtxType, ClaimDiscipline, WorkingHolds
  <2>2. claim'[k].status = "none" /\ \A q \in Keys \ {k} : claim'[q] = claim[q]
    BY <1>5, <2>1 DEF ReleaseRefusedSend, NoClaim, TypeInv, TypeOK
  <2> HIDE DEF k
  <2> QED
    BY <1>1, <2>1, <2>2, MailOfClaim, MoveMaps DEF HeldBy
<1>6. CASE CommitsAll(a) /\ claim' # claim
  <2> DEFINE k == ctx[a].key  m == EmailOf(a)
  <2>1. k \in Keys /\ m \in Attempts /\ HeldBy(k, m) /\ Emailed(m)
    BY <1>6, CommitFacts DEF CommitsAll, MarkSent, TypeInv, TypeOK, CtxType
  <2>2. claim'[k].status = "sent" /\ \A q \in Keys \ {k} : claim'[q] = claim[q]
    BY <1>6, <2>1, ConstantsAssumption DEF CommitsAll, MarkSent, TypeInv, TypeOK, ClaimType
  <2> HIDE DEF k, m
  <2> QED
    BY <1>1, <2>1, <2>2, MailOfClaim, MoveMaps DEF HeldBy
<1>7. CASE CommitReply(a)
  BY <1>2, <1>6, <1>7 DEF CommitReply, CommitsAll
<1> QED
  BY <1>2, <1>3, <1>4, <1>5, <1>7
  DEF Call, Settle, Claim, Send, RecordReply, Replay, Load, SearchGmail,
      ReleaseRefused, FailBeforeClaim, ClaimRefused, PostMessage, ReceiveSentId,
      SendRefused, EndUnsettled, RecordAppSent, ReadInquiry

LEMMA WorldMaps ==
    ASSUME HeaderKept, TypeInv, ClaimDiscipline, [Next]_vars, World
    PROVE  [Once!Next]_<<StateMap, MailMap>>
<1>1. ASSUME NEW a \in Attempts, GmailAccepts(a) PROVE [Once!Next]_<<StateMap, MailMap>>
  <2> DEFINE k == ctx[a].key
  <2>1. /\ UNCHANGED <<claim, ctx>> /\ ~ Emailed(a)
        /\ k # None => k \in Keys /\ HeldBy(k, a)
        /\ \A b \in Attempts : Emailed(b)' <=> (Emailed(b) \/ b = a)
    <3>1. HasClaimed(a) /\ ~ Emailed(a) /\ (k # None => k \in Keys /\ HeldBy(k, a))
      BY <1>1 DEF GmailAccepts, ClaimDiscipline, WorkingHolds, NoTraceBeforeClaim, TypeInv, TypeOK, CtxType
    <3> QED
      BY <1>1, <3>1 DEF GmailAccepts, HasClaimed, Emailed, TypeInv, TypeOK
  <2>2. \A q \in Keys : AbstractMail(q)' = {b \in Attempts : (Emailed(b) \/ b = a) /\ ctx[b].key = q}
    BY <2>1 DEF AbstractMail
  <2>3. CASE k = None
    <3>1. \A q \in Keys : AbstractMail(q)' = AbstractMail(q)
      BY <2>2, <2>3, ConstantsAssumption DEF AbstractMail
    <3>2. UNCHANGED MailMap
      BY <3>1 DEF MailMap
    <3> QED
      BY <2>1, <3>2, StutterMaps
  <2>4. CASE k # None
    <3>1. AbstractMail(k) = {}
      BY <2>1, <2>4, MailOfClaim
    <3>2. \A q \in Keys : AbstractMail(q)' = IF q = k THEN {a} ELSE AbstractMail(q)
      BY <2>2, <3>1 DEF AbstractMail
    <3>3. MailMap' = [MailMap EXCEPT ![k] = {a}]
      BY <2>1, <2>4, <3>2 DEF MailMap
    <3>4. UNCHANGED StateMap
      BY <2>1 DEF StateMap, AbstractState
    <3>5. StateMap[k] = "trying" /\ MailMap[k] = {} /\ k \in Keys
      BY <2>1, <2>4, <3>1 DEF StateMap, MailMap, AbstractState, HeldBy
    <3> QED
      BY <3>3, <3>4, <3>5 DEF Once!Next, Once!Deliver, StateMap, MailMap
  <2> QED
    BY <2>3, <2>4
<1>2. CASE UNCHANGED <<claim, mailbox>>
  BY <1>2, MailStays, StutterMaps
<1> QED
  BY <1>1, <1>2
  DEF World, RequestLost, ClaimAges, UpsertGmail, DisconnectGmail, UpdateInquiry, DeleteInquiry, mailVars

(* Sending replies implements SendOnce, as sending receipts does: a claim  *)
(* is confirmed only when its email is out, given up only when it is not,  *)
(* and its key never gets a second email; again if Gmail keeps the         *)
(* Message-ID.                                                             *)
THEOREM RepliesSendOnce ==
    ASSUME HeaderKept
    PROVE  Spec => SendsOnce
<1>1. TypeInv /\ ClaimDiscipline /\ [Next]_vars => [Once!Next]_<<StateMap, MailMap>>
  <2>1. ASSUME TypeInv, ClaimDiscipline, UNCHANGED vars PROVE UNCHANGED <<StateMap, MailMap>>
    BY <2>1 DEF vars, mailVars, StateMap, MailMap, AbstractState, AbstractMail, Emailed
  <2> QED
    BY <2>1, CallMaps, WorldMaps DEF Next
<1> QED
  BY <1>1, InitMaps, Disciplined, PTL DEF Spec, SendsOnce, Once!Spec, StateMap, MailMap

=============================================================================
