--------------------------- MODULE RentReminders ---------------------------
(***************************************************************************)
(* Rent reminders (MyBookkeeper): the rows of rent_reminder_sends for one  *)
(* plan and one due date, one row per channel, and everybody who writes    *)
(* them: the hourly sweep, the operator's "send now", the watchdog and the *)
(* webhooks of the phone that sends the texts.                             *)
(*                                                                         *)
(* A pass is one sweep of the plan or one "send now". It queues a channel  *)
(* at most once and then delivers it once, so the pass also stands for the *)
(* message it sends on that channel.                                       *)
(*                                                                         *)
(* Transactions read a row without a lock and write it later by its id, so *)
(* reading and writing are steps of their own; only the insert, unique by  *)
(* channel, and the requeue, an UPDATE WHERE failed, look again.           *)
(***************************************************************************)
EXTENDS Naturals, FiniteSets

CONSTANTS
    Passes,       \* sweeps and "send now" requests
    None,         \* nobody
    Plans,        \* the sets of channels the host switches on
    LostAnswers   \* TRUE: a provider may send and yet answer with an error

Channels == {"email", "sms"}

ASSUME ConstantsAssumption ==
    /\ None \notin Passes
    /\ Plans \subseteq (SUBSET Channels) \ {{}}
    /\ LostAnswers \in BOOLEAN

VARIABLES
    row,       \* row[c]: the reminder's row on channel c
    due,       \* the scheduled moment has come
    enabled,   \* the channels the plan has switched on
    pass,      \* pass[p]: what p is doing
    watched,   \* channels whose row the watchdog read and is about to fail
    phone,     \* texts httpSMS has accepted and the phone has not tried yet
    events,    \* what the phone has reported; delivered never, once or often
    hook,      \* the webhook being handled, and what it read
    out,       \* out[c]: the passes whose message on c has gone out
    doubted    \* doubted[c]: passes given up though their message may be out

vars == <<row, due, enabled, pass, watched, phone, events, hook, out, doubted>>

planVars == <<due, enabled>>
phoneVars == <<phone, events, hook>>
fateVars == <<out, doubted>>

-----------------------------------------------------------------------------
Statuses == {"absent", "queued", "sent_to_phone", "sent", "delivered", "failed"}

Errors == {"none", "certain", "presumed"}

(* early: failed before the scheduled moment. late: past the watchdog's    *)
(* deadline. owner: the pass that queued it last.               *)
RowType == [status : Statuses, error : Errors, early : BOOLEAN,
            late : BOOLEAN, owner : Passes \union {None}]

PassType == [at : {"idle", "claiming", "sending", "answered", "marking", "done"},
             todo : SUBSET Channels, retry : SUBSET Channels,
             now : BOOLEAN, ok : BOOLEAN, seen : Statuses]

EventType == [text : Passes, says : {"sent", "delivered", "failed"}]

Absent == [status |-> "absent", error |-> "none", early |-> FALSE,
           late |-> FALSE, owner |-> None]

NoPass == [at |-> "idle", todo |-> {}, retry |-> {}, now |-> FALSE,
           ok |-> FALSE, seen |-> "absent"]

HookType == [text : Passes, says : {"sent", "delivered", "failed"}, seen : Errors]

NoHook == [text |-> None, says |-> "none", seen |-> "none"]

Exists(c) == row[c].status # "absent"

Existing == {c \in Channels : Exists(c)}

(* Still owed an outcome.                                                  *)
Pending(c) == row[c].status \in {"queued", "sent_to_phone"}

(* Failures recorded for lack of news.                                     *)
Presumed(r) == r.status = "failed" /\ r.error = "presumed"

Rank(status) == CASE status = "queued" -> 0 [] status = "sent_to_phone" -> 1
                  [] status = "sent" -> 2   [] status = "delivered" -> 3
                  [] OTHER -> 4

(* A write stamps updated_at, which counts for failed rows only, as the    *)
(* deadline does for pending ones.                                         *)
Written(r) == [r EXCEPT !.early = r.status = "failed" /\ ~ due,
                        !.late = @ /\ r.status \in {"queued", "sent_to_phone"}]

QueuedBy(p) == Written([status |-> "queued", error |-> "none", early |-> FALSE,
                        late |-> FALSE, owner |-> p])

Failed(r, code) == Written([r EXCEPT !.status = "failed", !.error = code])

(* Email goes first.                                                       *)
Current(p) == IF "email" \in pass[p].todo THEN "email" ELSE "sms"

(* The pass is through with a channel.                                     *)
Through(p) ==
    LET rest == pass[p].todo \ {Current(p)} IN
    pass' = [pass EXCEPT ![p].todo = rest, ![p].seen = "absent", ![p].ok = FALSE,
                         ![p].retry = IF rest = {} /\ ~ pass[p].now THEN {} ELSE @,
                         ![p].at = CASE rest = {}                      -> "done"
                                     [] rest # {} /\ pass[p].now       -> "sending"
                                     [] rest # {} /\ ~ pass[p].now     -> "claiming"]

-----------------------------------------------------------------------------
Init ==
    /\ row = [c \in Channels |-> Absent]
    /\ due = FALSE
    /\ enabled \in Plans
    /\ pass = [p \in Passes |-> NoPass]
    /\ watched = {}
    /\ phone = {}
    /\ events = {}
    /\ hook = NoHook
    /\ out = [c \in Channels |-> {}]
    /\ doubted = [c \in Channels |-> {}]

-----------------------------------------------------------------------------
(* The sweep: _process_plan.                                               *)

(* A failure from before the scheduled moment gets its one retry.          *)
FailedEarly(c) == row[c].status = "failed" /\ row[c].early

ReadPlan(p) ==
    /\ pass[p].at = "idle"
    /\ due
    /\ \A c \in Existing : FailedEarly(c)
    /\ pass' = [pass EXCEPT ![p].at = "claiming", ![p].todo = enabled,
                            ![p].retry = enabled \intersect Existing]
    /\ UNCHANGED <<row, planVars, watched, phoneVars, fateVars>>

(* Wrong on purpose: the requeue does not ask whether the row still failed. *)
RequeueAlways(c) == Exists(c)

(* requeue: UPDATE ... WHERE status = 'failed'.                            *)
CanRequeue(c) == row[c].status = "failed"

(* One transaction per channel: insert a row, or requeue the failed one. A *)
(* row somebody else has claimed meanwhile is passed over.                 *)
ClaimChannel(p) ==
    LET c == Current(p)
        free == IF c \in pass[p].retry THEN CanRequeue(c) ELSE ~ Exists(c)
    IN  /\ pass[p].at = "claiming"
        /\ \/ /\ free
              /\ row' = [row EXCEPT ![c] = QueuedBy(p)]
              /\ pass' = [pass EXCEPT ![p].at = "sending"]
           \/ /\ ~ free
              /\ Through(p)
              /\ UNCHANGED row
        /\ UNCHANGED <<planVars, watched, phoneVars, fateVars>>

-----------------------------------------------------------------------------
(* Send now.                                                               *)

(* One transaction for every enabled channel: refused once any channel has *)
(* a row that has not failed.                                              *)
SendNow(p) ==
    /\ pass[p].at = "idle"
    /\ \A c \in Existing : CanRequeue(c)
    /\ row' = [c \in Channels |-> IF c \in enabled THEN QueuedBy(p) ELSE row[c]]
    /\ pass' = [pass EXCEPT ![p].at = "sending", ![p].todo = enabled, ![p].now = TRUE,
                            ![p].retry = enabled \intersect Existing]
    /\ UNCHANGED <<planVars, watched, phoneVars, fateVars>>

-----------------------------------------------------------------------------
(* _deliver.                                                               *)

Answer(p, ok) == pass' = [pass EXCEPT ![p].at = "answered", ![p].ok = ok]

(* The provider takes the message: an email is out, a text is in the hands *)
(* of httpSMS. An answer that gets lost on the way is an error to us.      *)
HandOver(p) ==
    LET c == Current(p) IN
    /\ pass[p].at = "sending"
    /\ IF c = "email" THEN out' = [out EXCEPT ![c] = @ \union {p}] /\ UNCHANGED phone
                      ELSE phone' = phone \union {p} /\ UNCHANGED out
    /\ \/ Answer(p, TRUE) /\ UNCHANGED doubted
       \/ /\ LostAnswers
          /\ Answer(p, FALSE)
          /\ doubted' = [doubted EXCEPT ![c] = @ \union {p}]
    /\ UNCHANGED <<row, planVars, watched, events, hook>>

(* No address, not configured, rejected.                                   *)
Undeliverable(p) ==
    /\ pass[p].at = "sending"
    /\ Answer(p, FALSE)
    /\ UNCHANGED <<row, planVars, watched, phoneVars, fateVars>>

ReadRow(p) ==
    /\ pass[p].at = "answered"
    /\ pass' = [pass EXCEPT ![p].at = "marking", ![p].seen = row[Current(p)].status]
    /\ UNCHANGED <<row, planVars, watched, phoneVars, fateVars>>

(* A column that already held the value when it was read is not written.   *)
NewStatus(p, r, status) == IF pass[p].seen = status THEN r.status ELSE status

(* Wrong on purpose: an email waits, too. *)
EveryChannelWaits(c) == TRUE

(* Wrong on purpose: what was handed over counts as sent. *)
NoChannelWaits(c) == FALSE

(* The phone has yet to confirm what the provider has taken.               *)
WaitsForPhone(c) == c = "sms"

(* The row after the outcome of p. A text that the phone has reported on   *)
(* already is left alone.                                                  *)
Marked(p, c, r) ==
    CASE ~ pass[p].ok ->
            [Failed(r, "certain") EXCEPT !.status = NewStatus(p, r, "failed")]
      [] pass[p].ok /\ ~ WaitsForPhone(c) ->
            Written([r EXCEPT !.status = NewStatus(p, r, "sent")])
      [] pass[p].ok /\ WaitsForPhone(c) /\ pass[p].seen = "queued" ->
            Written([r EXCEPT !.status = "sent_to_phone", !.late = FALSE])
      [] OTHER -> r

(* Nobody can tell any more whether the last try on channel c gets out.     *)
GiveUp(c) == [doubted EXCEPT ![c] = @ \union {row[c].owner}]

(* The outcome goes to the row, whichever try owns the row by then.        *)
MarkOutcome(p) ==
    LET c == Current(p)
        fails == row[c].status # "failed" /\ Marked(p, c, row[c]).status = "failed"
    IN  /\ pass[p].at = "marking"
        /\ row' = [row EXCEPT ![c] = Marked(p, c, @)]
        /\ doubted' = IF fails /\ row[c].owner # p THEN GiveUp(c) ELSE doubted
        /\ Through(p)
        /\ UNCHANGED <<planVars, watched, phoneVars, out>>

(* The process dies.                                                       *)
Crash(p) ==
    /\ pass[p].at \notin {"idle", "done"}
    /\ pass' = [pass EXCEPT ![p] = [NoPass EXCEPT !.at = "done", !.now = pass[p].now,
                                    !.retry = IF pass[p].now THEN pass[p].retry ELSE {}]]
    /\ UNCHANGED <<row, planVars, watched, phoneVars, fateVars>>

-----------------------------------------------------------------------------
(* The watchdog. Its deadline, an hour, is far longer than a delivery; a   *)
(* queued row that old has lost its pass.                                  *)

Delivering(p, c) == c \in pass[p].todo

DeadlinePasses(c) ==
    /\ Pending(c) /\ ~ row[c].late
    /\ ~ Delivering(row[c].owner, c)
    /\ row' = [row EXCEPT ![c].late = TRUE]
    /\ UNCHANGED <<planVars, pass, watched, phoneVars, fateVars>>

(* Wrong on purpose: only texts are watched. *)
UnconfirmedText(c) == row[c].status = "sent_to_phone" /\ row[c].late

(* Owed an outcome whose deadline has passed.                              *)
Unconfirmed(c) == Pending(c) /\ row[c].late

ListUnconfirmed(c) ==
    /\ Unconfirmed(c) /\ c \notin watched
    /\ watched' = watched \union {c}
    /\ UNCHANGED <<row, planVars, pass, phoneVars, fateVars>>

FailUnconfirmed(c) ==
    /\ c \in watched
    /\ row' = [row EXCEPT ![c] = Failed(@, "presumed")]
    /\ doubted' = GiveUp(c)
    /\ watched' = watched \ {c}
    /\ UNCHANGED <<planVars, pass, phoneVars, out>>

-----------------------------------------------------------------------------
(* The phone (external), and its webhooks.                                 *)

(* The phone sends a text and reports that, and later its delivery.        *)
PhoneSends(p) ==
    /\ p \in phone
    /\ phone' = phone \ {p}
    /\ out' = [out EXCEPT !["sms"] = @ \union {p}]
    /\ events' = events \union {[text |-> p, says |-> "sent"], [text |-> p, says |-> "delivered"]}
    /\ UNCHANGED <<row, planVars, pass, watched, hook, doubted>>

(* The phone reports a failure, or httpSMS gives up.                       *)
PhoneFails(p) ==
    /\ p \in phone
    /\ phone' = phone \ {p}
    /\ events' = events \union {[text |-> p, says |-> "failed"]}
    /\ UNCHANGED <<row, planVars, pass, watched, hook, fateVars>>

(* Statuses only move forward, but a failure that was presumed is taken    *)
(* back.                                                                   *)
CanConfirm(r, target) ==
    IF r.status = "failed" THEN Presumed(r) ELSE Rank(target) > Rank(r.status)

CanFail(r) == r.status \in {"queued", "sent_to_phone", "sent"}

(* Events carry the id of the row, not of the try; outdated ones are       *)
(* acknowledged and change nothing. httpSMS may repeat itself.             *)
ReceiveEvent(e) ==
    LET r == row["sms"] IN
    /\ e \in events /\ hook = NoHook
    /\ IF e.says = "failed" THEN CanFail(r) ELSE CanConfirm(r, e.says)
    /\ hook' = [text |-> e.text, says |-> e.says, seen |-> r.error]
    /\ UNCHANGED <<row, planVars, pass, watched, phone, events, fateVars>>

(* Only columns that differ from what was read are written.                *)
Confirmed(r, target) ==
    Written([r EXCEPT !.status = target,
                      !.error = IF hook.seen = "none" THEN @ ELSE "none"])

ApplyEvent ==
    /\ hook # NoHook
    /\ row' = [row EXCEPT !["sms"] = IF hook.says = "failed" THEN Failed(@, "certain")
                                                             ELSE Confirmed(@, hook.says)]
    /\ doubted' = IF hook.says = "failed" /\ hook.text # row["sms"].owner
                    THEN GiveUp("sms") ELSE doubted
    /\ hook' = NoHook
    /\ UNCHANGED <<planVars, pass, watched, phone, events, out>>

-----------------------------------------------------------------------------
(* The clock and the host.                                                 *)

MomentComes ==
    /\ ~ due
    /\ due' = TRUE
    /\ UNCHANGED <<row, enabled, pass, watched, phoneVars, fateVars>>

(* The host changes the plan; one channel at least stays on.               *)
SavePlan(channels) ==
    /\ channels # enabled
    /\ enabled' = channels
    /\ UNCHANGED <<row, due, pass, watched, phoneVars, fateVars>>

-----------------------------------------------------------------------------
Deliver(p) == HandOver(p) \/ Undeliverable(p) \/ ReadRow(p) \/ MarkOutcome(p)

Pass(p) == ReadPlan(p) \/ ClaimChannel(p) \/ SendNow(p) \/ Deliver(p) \/ Crash(p)

Watchdog(c) == ListUnconfirmed(c) \/ FailUnconfirmed(c)

Next ==
    \/ \E p \in Passes : Pass(p) \/ PhoneSends(p) \/ PhoneFails(p)
    \/ \E c \in Channels : DeadlinePasses(c) \/ Watchdog(c)
    \/ \E channels \in Plans : SavePlan(channels)
    \/ \E e \in events : ReceiveEvent(e)
    \/ ApplyEvent
    \/ MomentComes

Spec == Init /\ [][Next]_vars

(* A live process takes its next step, the hourly tick comes, time passes. *)
Fairness ==
    /\ \A p \in Passes : WF_vars(ClaimChannel(p) \/ Deliver(p))
    /\ \A c \in Channels : WF_vars(DeadlinePasses(c) \/ Watchdog(c))

FairSpec == Spec /\ Fairness

-----------------------------------------------------------------------------
(* Properties.                                                             *)

(* Every variable keeps its type, and phone-only states never appear on an *)
(* email row, which the CHECK constraint would refuse.                     *)
TypeOK ==
    /\ row \in [Channels -> RowType]
    /\ row["email"].status \notin {"sent_to_phone", "delivered"}
    /\ due \in BOOLEAN
    /\ enabled \in Plans
    /\ pass \in [Passes -> PassType]
    /\ watched \in SUBSET Channels
    /\ phone \in SUBSET Passes
    /\ events \in SUBSET EventType
    /\ hook \in {NoHook} \union HookType
    /\ out \in [Channels -> SUBSET Passes]
    /\ doubted \in [Channels -> SUBSET Passes]

(* A reminder goes out on a channel again only after an earlier try was    *)
(* given up in doubt: for lack of news, on an error that may hide a        *)
(* success, or on the report about another try, by webhook or by the pass  *)
(* that made it. However sweeps, requests, crashes and webhooks interleave, *)
(* at most one message more goes out than there were such tries.           *)
TwiceOnlyInDoubt ==
    \A c \in Channels : Cardinality(out[c]) <= 1 + Cardinality(doubted[c])

(* "Rather than risking a double text": nothing but the operator's "send   *)
(* now" sends a reminder that may have gone out before.                    *)
TwiceOnlyByHand ==
    \A c \in Channels :
        Cardinality(out[c]) <=
            1 + Cardinality({p \in Passes : pass[p].now /\ c \in pass[p].retry})

(* What the operator sees as sent was sent: an email by the very pass that *)
(* queued the row, a text by that pass or an earlier try of it.            *)
SentIsOut ==
    /\ row["email"].status = "sent" => row["email"].owner \in out["email"]
    /\ row["sms"].status \in {"sent", "delivered"} => out["sms"] # {}

(* A reminder comes to rest: whatever dies or gets lost on the way, no     *)
(* channel waits for its outcome for ever, since the watchdog fails what   *)
(* nobody reports on.                                                      *)
NotStuck ==
    (\E c \in Channels : Pending(c)) ~> (\A c \in Channels : ~ Pending(c))
=============================================================================
