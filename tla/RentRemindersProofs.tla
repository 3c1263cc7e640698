------------------------ MODULE RentRemindersProofs ------------------------
(* Theorems about RentReminders.                                           *)
EXTENDS RentReminders, FiniteSetTheorems, TLAPS

-----------------------------------------------------------------------------
(* Inductive invariants.                                                   *)

Delivers == {"sending", "answered", "marking"}

(* A row exists from the moment a pass queues it.                          *)
RowsOwned == \A c \in Channels : Exists(c) <=> row[c].owner \in Passes

(* A pass keeps its list of channels until it is through with the last.    *)
PassesInOrder ==
    \A p \in Passes :
        /\ pass[p].at \in {"idle", "done"} <=> pass[p].todo = {}
        /\ pass[p].now => pass[p].at \notin {"idle", "claiming"}
        /\ pass[p].now => \A c \in pass[p].todo : Exists(c)
        /\ pass[p].at \in Delivers => Exists(Current(p))

TypeInv ==
    /\ TypeOK
    /\ RowsOwned
    /\ PassesInOrder
    /\ watched \subseteq Existing
    /\ hook # NoHook => Exists("sms")

(* The provider has the message of p for channel c, or had it.             *)
Handed(p, c) == p \in out[c] \/ (c = "sms" /\ p \in phone)

(* p has not tried channel c yet.                                          *)
Fresh(p, c) ==
    \/ pass[p].at = "idle"
    \/ c \in pass[p].todo /\ (c # Current(p) \/ pass[p].at \in {"claiming", "sending"})

(* p has queued channel c and will hand its message over.                  *)
ToHand(p, c) ==
    /\ c \in pass[p].todo
    /\ pass[p].now \/ c = Current(p)
    /\ c # Current(p) \/ pass[p].at = "sending"

(* A message is handed over once and meets one fate; a report tells it.    *)
ReportsAreTrue ==
    /\ \A p \in Passes, c \in Channels : Fresh(p, c) => ~ Handed(p, c)
    /\ \A p \in phone : p \notin out["sms"]
    /\ \A e \in events : e.text \notin phone /\ ~ Fresh(e.text, "sms")
    /\ \A e \in events : e.says = "failed" <=> e.text \notin out["sms"]
    /\ hook # NoHook => [text |-> hook.text, says |-> hook.says] \in events

(* An error is final for the try that got it, or the try was given up.     *)
ErrorsEndTries ==
    \A p \in Passes :
        pass[p].at \in {"answered", "marking"} /\ ~ pass[p].ok
            => ~ Handed(p, Current(p)) \/ p \in doubted[Current(p)]

(* Only the owner of a row that has not failed may have sent its message,  *)
(* or may yet send it, without having been given up.                       *)
OthersGivenUp ==
    \A p \in Passes, c \in Channels :
        Handed(p, c) \/ ToHand(p, c)
            => p \in doubted[c] \/ (p = row[c].owner /\ row[c].status # "failed")

FewDoubts == \A c \in Channels : IsFiniteSet(doubted[c])

(* No webhook reports on emails, so the row stays with the pass that       *)
(* queued it until that pass has marked it or is dead.                     *)
EmailStaysQueued ==
    /\ \A p \in Passes :
           pass[p].at \in Delivers /\ Current(p) = "email"
               => row["email"].owner = p /\ row["email"].status = "queued"
    /\ \A p \in Passes :
           pass[p].at \in {"answered", "marking"} /\ pass[p].ok /\ Current(p) = "email"
               => p \in out["email"]
    /\ Exists("email") => pass[row["email"].owner].at # "idle"
    /\ row["email"].late => row["email"].status = "queued"
                             /\ "email" \notin pass[row["email"].owner].todo
    /\ "email" \in watched => row["email"].late

-----------------------------------------------------------------------------
(* Type correctness.                                                       *)

LEMMA CurrentIsOnTheList ==
    ASSUME TypeInv, NEW p \in Passes, pass[p].at \notin {"idle", "done"}
    PROVE  Current(p) \in pass[p].todo /\ Current(p) \in Channels
<1>1. pass[p].todo # {} /\ pass[p].todo \subseteq Channels
    BY DEF TypeInv, TypeOK, PassesInOrder, PassType
<1> QED
    BY <1>1 DEF Current, Channels

(* What being through with a channel does to a pass.                       *)
LEMMA ThroughEffect ==
    ASSUME TypeInv, NEW p \in Passes, pass[p].at \in {"claiming", "marking"}, Through(p)
    PROVE  /\ pass' \in [Passes -> PassType]
           /\ \A q \in Passes \ {p} : pass'[q] = pass[q]
           /\ pass'[p].todo = pass[p].todo \ {Current(p)}
           /\ pass'[p].now = pass[p].now
           /\ pass'[p].ok = FALSE
           /\ pass'[p].at = "done" <=> pass'[p].todo = {}
           /\ pass'[p].at \in {"done", "sending", "claiming"}
           /\ pass'[p].at = "sending" => pass[p].now
           /\ pass'[p].at = "claiming" => ~ pass[p].now
<1> DEFINE rest == pass[p].todo \ {Current(p)}
<1>1. pass \in [Passes -> PassType]
    BY DEF TypeInv, TypeOK
<1>2. pass[p] \in PassType
    BY <1>1
<1>3. rest \in SUBSET Channels
    BY <1>2 DEF PassType
<1> DEFINE next == CASE rest = {}                     -> "done"
                    [] rest # {} /\ pass[p].now       -> "sending"
                    [] rest # {} /\ ~ pass[p].now     -> "claiming"
           keep == IF rest = {} /\ ~ pass[p].now THEN {} ELSE pass[p].retry
<1>4. /\ next \in {"done", "sending", "claiming"}
      /\ next = "done" <=> rest = {}
      /\ next = "sending" => pass[p].now
      /\ next = "claiming" => ~ pass[p].now
    OBVIOUS
<1>5. keep \in SUBSET Channels
    BY <1>2 DEF PassType
<1>6. pass' = [pass EXCEPT ![p].todo = rest, ![p].seen = "absent", ![p].ok = FALSE,
                           ![p].retry = keep, ![p].at = next]
    BY DEF Through
<1> HIDE DEF next, keep, rest
<1>7. /\ pass'[p].at = next /\ pass'[p].todo = rest /\ pass'[p].retry = keep
      /\ pass'[p].now = pass[p].now /\ pass'[p].ok = FALSE /\ pass'[p].seen = "absent"
      /\ \A q \in Passes \ {p} : pass'[q] = pass[q]
    BY <1>1, <1>2, <1>6 DEF PassType
<1>8. pass' \in [Passes -> PassType]
    BY <1>1, <1>2, <1>3, <1>4, <1>5, <1>6 DEF PassType, Statuses
<1> QED
    BY <1>4, <1>7, <1>8 DEF rest

LEMMA WrittenRow ==
    ASSUME NEW r \in RowType
    PROVE  /\ Written(r) \in RowType
           /\ Written(r).status = r.status
           /\ Written(r).owner = r.owner
           /\ Written(r).late => r.late /\ r.status \in {"queued", "sent_to_phone"}
BY DEF Written, RowType

LEMMA QueuedRow ==
    ASSUME NEW p \in Passes
    PROVE  /\ QueuedBy(p) \in RowType
           /\ QueuedBy(p).status = "queued"
           /\ QueuedBy(p).owner = p
           /\ ~ QueuedBy(p).late
<1> DEFINE r == [status |-> "queued", error |-> "none", early |-> FALSE,
                 late |-> FALSE, owner |-> p]
<1>1. r \in RowType /\ r.status = "queued" /\ r.owner = p /\ ~ r.late
    BY DEF RowType, Statuses, Errors
<1>2. QueuedBy(p) = Written(r)
    BY DEF QueuedBy
<1> HIDE DEF r
<1> QED
    BY <1>1, <1>2, WrittenRow

LEMMA FailedRow ==
    ASSUME NEW r \in RowType, NEW code \in Errors
    PROVE  /\ Failed(r, code) \in RowType
           /\ Failed(r, code).status = "failed"
           /\ Failed(r, code).owner = r.owner
           /\ ~ Failed(r, code).late
<1> DEFINE f == [r EXCEPT !.status = "failed", !.error = code]
<1>1. f \in RowType /\ f.status = "failed" /\ f.owner = r.owner
    BY DEF RowType, Statuses
<1>2. Failed(r, code) = Written(f)
    BY DEF Failed
<1> HIDE DEF f
<1> QED
    BY <1>1, <1>2, WrittenRow

(* What the mark of an outcome does to a row.                              *)
LEMMA MarkedRow ==
    ASSUME NEW r \in RowType, NEW p \in Passes, NEW c \in Channels,
           pass[p].ok \in BOOLEAN
    PROVE  /\ Marked(p, c, r) \in RowType
           /\ Marked(p, c, r).owner = r.owner
           /\ ~ pass[p].ok => Marked(p, c, r).status \in {r.status, "failed"}
           /\ pass[p].ok /\ c = "email" => Marked(p, c, r).status \in {r.status, "sent"}
           /\ pass[p].ok /\ c = "sms"
                  => Marked(p, c, r).status \in {r.status, "sent_to_phone"}
           /\ Marked(p, c, r).late
                  => r.late /\ Marked(p, c, r).status = r.status
<1>1. CASE ~ pass[p].ok
    <2> DEFINE f == Failed(r, "certain")
    <2>1. f \in RowType /\ f.owner = r.owner /\ ~ f.late
        BY FailedRow DEF Errors
    <2>2. NewStatus(p, r, "failed") \in {r.status, "failed"} /\ r.status \in Statuses
        BY DEF NewStatus, RowType
    <2>3. Marked(p, c, r) = [f EXCEPT !.status = NewStatus(p, r, "failed")]
        BY <1>1 DEF Marked
    <2> HIDE DEF f
    <2> QED
        BY <1>1, <2>1, <2>2, <2>3 DEF RowType, Statuses
<1>2. CASE pass[p].ok /\ c = "email"
    <2> DEFINE f == [r EXCEPT !.status = NewStatus(p, r, "sent")]
    <2>1. NewStatus(p, r, "sent") \in {r.status, "sent"} /\ r.status \in Statuses
        BY DEF NewStatus, RowType
    <2>2. /\ f \in RowType /\ f.owner = r.owner /\ f.late = r.late
          /\ f.status \in {r.status, "sent"}
        BY <2>1 DEF RowType, Statuses
    <2>3. Marked(p, c, r) = Written(f)
        BY <1>2 DEF Marked, WaitsForPhone
    <2> HIDE DEF f
    <2> QED
        BY <1>2, <2>2, <2>3, WrittenRow
<1>3. CASE pass[p].ok /\ c = "sms" /\ pass[p].seen = "queued"
    <2> DEFINE f == [r EXCEPT !.status = "sent_to_phone", !.late = FALSE]
    <2>1. /\ f \in RowType /\ f.owner = r.owner /\ ~ f.late
          /\ f.status = "sent_to_phone"
        BY DEF RowType, Statuses
    <2>2. Marked(p, c, r) = Written(f)
        BY <1>3 DEF Marked, WaitsForPhone
    <2> HIDE DEF f
    <2> QED
        BY <1>3, <2>1, <2>2, WrittenRow
<1>4. CASE pass[p].ok /\ c = "sms" /\ pass[p].seen # "queued"
    BY <1>4 DEF Marked, WaitsForPhone
<1> QED
    BY <1>1, <1>2, <1>3, <1>4 DEF Channels

LEMMA ConfirmedRow ==
    ASSUME NEW r \in RowType, NEW target \in {"sent", "delivered"}
    PROVE  /\ Confirmed(r, target) \in RowType
           /\ Confirmed(r, target).status = target
           /\ Confirmed(r, target).owner = r.owner
<1> DEFINE f == [r EXCEPT !.status = target,
                          !.error = IF hook.seen = "none" THEN @ ELSE "none"]
<1>1. f \in RowType /\ f.status = target /\ f.owner = r.owner
    BY DEF RowType, Statuses, Errors
<1>2. Confirmed(r, target) = Written(f)
    BY DEF Confirmed
<1> HIDE DEF f
<1> QED
    BY <1>1, <1>2, WrittenRow

(* Writing one row leaves the rows well formed.                            *)
LEMMA RowWritten ==
    ASSUME TypeInv, NEW c \in Channels, NEW r \in RowType,
           r.status # "absent", r.owner \in Passes,
           c = "email" => r.status \notin {"sent_to_phone", "delivered"},
           row' = [row EXCEPT ![c] = r]
    PROVE  /\ row' \in [Channels -> RowType]
           /\ row'["email"].status \notin {"sent_to_phone", "delivered"}
           /\ RowsOwned'
           /\ \A d \in Channels : Exists(d) => Exists(d)'
           /\ row'[c] = r /\ \A d \in Channels \ {c} : row'[d] = row[d]
<1>1. row \in [Channels -> RowType] /\ row["email"].status \notin {"sent_to_phone", "delivered"}
    BY DEF TypeInv, TypeOK
<1>2. row' \in [Channels -> RowType]
    BY <1>1
<1>3. row'[c] = r /\ \A d \in Channels \ {c} : row'[d] = row[d]
    BY <1>1
<1>4. row'["email"].status \notin {"sent_to_phone", "delivered"}
    BY <1>1, <1>3 DEF Channels
<1> QED
    BY <1>2, <1>3, <1>4 DEF TypeInv, RowsOwned, Exists

(* A step that keeps the passes and only adds rows keeps them in order.    *)
LEMMA PassesKept ==
    ASSUME PassesInOrder, UNCHANGED pass, \A d \in Channels : Exists(d) => Exists(d)',
           TypeInv
    PROVE  PassesInOrder'
<1>1. \A p \in Passes : Current(p)' = Current(p) /\ Current(p) \in Channels
    BY DEF Current, Channels
<1>2. \A p \in Passes : pass[p].todo \subseteq Channels
    BY DEF TypeInv, TypeOK, PassType
<1> QED
    BY <1>1, <1>2 DEF PassesInOrder

LEMMA TypeInit ==
    Init => TypeInv
<1> SUFFICES ASSUME Init
             PROVE  TypeInv
    OBVIOUS
<1>1. Absent \in RowType /\ Absent.status = "absent" /\ Absent.owner \notin Passes
    BY ConstantsAssumption DEF Absent, RowType, Statuses, Errors
<1>2. NoPass \in PassType /\ NoPass.at = "idle" /\ NoPass.todo = {} /\ ~ NoPass.now
    BY DEF NoPass, PassType, Statuses
<1>3. TypeOK
    BY <1>1, <1>2 DEF Init, TypeOK, Channels
<1> QED
    BY <1>1, <1>2, <1>3 DEF Init, TypeInv, RowsOwned, PassesInOrder, Exists, Delivers

LEMMA TypeStep ==
    TypeInv /\ [Next]_vars => TypeInv'
<1> SUFFICES ASSUME TypeInv, [Next]_vars
             PROVE  TypeInv'
    OBVIOUS
<1>0. /\ row \in [Channels -> RowType]
      /\ row["email"].status \notin {"sent_to_phone", "delivered"}
      /\ due \in BOOLEAN
      /\ enabled \in Plans /\ enabled # {} /\ enabled \subseteq Channels
      /\ pass \in [Passes -> PassType]
      /\ watched \in SUBSET Channels
      /\ phone \in SUBSET Passes
      /\ events \in SUBSET EventType
      /\ hook \in {NoHook} \union HookType
      /\ out \in [Channels -> SUBSET Passes]
      /\ doubted \in [Channels -> SUBSET Passes]
    BY ConstantsAssumption DEF TypeInv, TypeOK
<1> USE DEF planVars, phoneVars, fateVars
<1>1. ASSUME NEW p \in Passes, ReadPlan(p)
      PROVE  TypeInv'
    <2> DEFINE kept == enabled \intersect Existing
    <2>1. pass' = [pass EXCEPT ![p].at = "claiming", ![p].todo = enabled, ![p].retry = kept]
        BY <1>1 DEF ReadPlan
    <2>2. kept \in SUBSET Channels
        BY <1>0
    <2> HIDE DEF kept
    <2>3. pass' \in [Passes -> PassType]
        <3>1. /\ enabled \in SUBSET Channels /\ pass \in [Passes -> PassType]
              /\ pass[p] \in PassType
            BY <1>0
        <3> QED
            BY <3>1, <2>1, <2>2 DEF PassType
    <2>4. TypeOK'
        BY <1>0, <1>1, <2>3 DEF TypeOK, ReadPlan
    <2>5. pass'[p].at = "claiming" /\ pass'[p].todo = enabled /\ pass'[p].now = pass[p].now
          /\ \A q \in Passes \ {p} : pass'[q] = pass[q]
        BY <1>0, <2>1 DEF PassType
    <2>6. ~ pass[p].now
        BY <1>1 DEF ReadPlan, TypeInv, PassesInOrder
    <2>7. PassesInOrder'
        BY <1>0, <1>1, <2>5, <2>6
        DEF PassesInOrder, TypeInv, ReadPlan, Exists, Delivers, Current
    <2> QED
        BY <1>1, <2>4, <2>7 DEF ReadPlan, TypeInv, RowsOwned, Existing, Exists
<1>2. ASSUME NEW p \in Passes, ClaimChannel(p)
      PROVE  TypeInv'
    <2> DEFINE c == Current(p)
    <2>1. c \in pass[p].todo /\ c \in Channels /\ pass[p].at = "claiming" /\ ~ pass[p].now
        BY <1>2, CurrentIsOnTheList DEF ClaimChannel, TypeInv, PassesInOrder
    <2>2. CASE row' = [row EXCEPT ![c] = QueuedBy(p)]
               /\ pass' = [pass EXCEPT ![p].at = "sending"]
        <3>1. /\ row' \in [Channels -> RowType]
              /\ row'["email"].status \notin {"sent_to_phone", "delivered"}
              /\ RowsOwned' /\ \A d \in Channels : Exists(d) => Exists(d)'
              /\ row'[c] = QueuedBy(p)
            BY <2>1, <2>2, QueuedRow, RowWritten
        <3>2. pass' \in [Passes -> PassType]
            BY <1>0, <2>2 DEF PassType
        <3>3. TypeOK'
            BY <1>0, <1>2, <3>1, <3>2 DEF TypeOK, ClaimChannel
        <3>4. row'[c].status # "absent"
            BY <3>1, QueuedRow
        <3>5. /\ pass'[p].at = "sending" /\ pass'[p].todo = pass[p].todo
              /\ pass'[p].now = pass[p].now
              /\ \A q \in Passes \ {p} : pass'[q] = pass[q]
            BY <1>0, <2>2 DEF PassType
        <3>6. \A q \in Passes : Current(q)' = Current(q) /\ Current(q) \in Channels
            BY <3>5 DEF Current, Channels
        <3>7. \A q \in Passes : pass[q].todo \subseteq Channels
            BY <1>0 DEF PassType
        <3> HIDE DEF c
        <3>8. PassesInOrder'
            BY <2>1, <3>1, <3>4, <3>5, <3>6, <3>7 DEF c, PassesInOrder, TypeInv, Delivers, Exists
        <3> QED
            BY <1>2, <3>1, <3>3, <3>8 DEF ClaimChannel, TypeInv, Existing, Channels
    <2>3. CASE Through(p) /\ UNCHANGED row
        <3>1. TypeOK'
            BY <1>0, <1>2, <2>1, <2>3, ThroughEffect DEF TypeOK, ClaimChannel
        <3>2. PassesInOrder'
            <4>1. /\ pass'[p].todo = pass[p].todo \ {c} /\ ~ pass'[p].now
                  /\ pass'[p].at \in {"done", "claiming"}
                  /\ pass'[p].at = "done" <=> pass'[p].todo = {}
                  /\ \A q \in Passes \ {p} : pass'[q] = pass[q]
                BY <2>1, <2>3, ThroughEffect
            <4>2. \A q \in Passes \ {p} : Current(q)' = Current(q)
                BY <4>1 DEF Current
            <4> QED
                BY <2>3, <4>1, <4>2 DEF PassesInOrder, TypeInv, Exists, Delivers
        <3> QED
            BY <1>2, <2>3, <3>1, <3>2 DEF ClaimChannel, TypeInv, RowsOwned, Existing, Exists
    <2> QED
        BY <1>2, <2>2, <2>3 DEF ClaimChannel
<1>3. ASSUME NEW p \in Passes, SendNow(p)
      PROVE  TypeInv'
    <2>1. /\ row' \in [Channels -> RowType]
          /\ \A c \in Channels : row'[c] = IF c \in enabled THEN QueuedBy(p) ELSE row[c]
        BY <1>0, <1>3, QueuedRow DEF SendNow
    <2>2. row'["email"].status \notin {"sent_to_phone", "delivered"}
        BY <1>0, <2>1, QueuedRow DEF Channels
    <2>3. RowsOwned' /\ \A d \in Channels : (Exists(d) \/ d \in enabled) => Exists(d)'
        BY <2>1, QueuedRow DEF RowsOwned, Exists, TypeInv
    <2> DEFINE kept == enabled \intersect Existing
    <2>4. pass' = [pass EXCEPT ![p].at = "sending", ![p].todo = enabled, ![p].now = TRUE,
                               ![p].retry = kept]
        BY <1>3 DEF SendNow
    <2>5. kept \in SUBSET Channels
        BY <1>0
    <2> HIDE DEF kept
    <2>6. pass' \in [Passes -> PassType]
        <3>1. /\ enabled \in SUBSET Channels /\ pass \in [Passes -> PassType]
              /\ pass[p] \in PassType
            BY <1>0
        <3> QED
            BY <3>1, <2>4, <2>5 DEF PassType
    <2>7. TypeOK'
        BY <1>0, <1>3, <2>1, <2>2, <2>6 DEF TypeOK, SendNow
    <2>8. pass'[p].at = "sending" /\ pass'[p].todo = enabled /\ pass'[p].now
          /\ \A q \in Passes \ {p} : pass'[q] = pass[q]
        BY <1>0, <2>4 DEF PassType
    <2>9. Current(p)' \in enabled /\ \A q \in Passes \ {p} : Current(q)' = Current(q)
        BY <1>0, <2>8 DEF Current, Channels
    <2>10. \A q \in Passes : pass[q].todo \subseteq Channels /\ Current(q) \in Channels
        BY <1>0 DEF PassType, Current, Channels
    <2>11. PassesInOrder'
        BY <1>0, <2>3, <2>8, <2>9, <2>10 DEF PassesInOrder, TypeInv, Delivers
    <2> QED
        BY <1>3, <2>3, <2>7, <2>11 DEF SendNow, TypeInv, Existing, Channels
<1>4. ASSUME NEW p \in Passes, HandOver(p)
      PROVE  TypeInv'
    <2>1. Current(p) \in Channels /\ pass[p].at = "sending"
        BY <1>4 DEF HandOver, Current, Channels
    <2>2. PICK ok \in BOOLEAN : pass' = [pass EXCEPT ![p].at = "answered", ![p].ok = ok]
        BY <1>4 DEF HandOver, Answer
    <2>3. pass' \in [Passes -> PassType]
        <3>1. pass \in [Passes -> PassType] /\ pass[p] \in PassType
            BY <1>0
        <3> QED
            BY <3>1, <2>2 DEF PassType
    <2>4. out' \in [Channels -> SUBSET Passes] /\ phone' \in SUBSET Passes
        BY <1>0, <1>4, <2>1 DEF HandOver
    <2>5. doubted' \in [Channels -> SUBSET Passes]
        <3>1. \/ doubted' = doubted
              \/ doubted' = [doubted EXCEPT ![Current(p)] = @ \union {p}]
            BY <1>4 DEF HandOver
        <3> QED
            BY <1>0, <2>1, <3>1
    <2>6. TypeOK'
        BY <1>0, <1>4, <2>3, <2>4, <2>5 DEF TypeOK, HandOver
    <2>7. pass'[p].at = "answered" /\ pass'[p].todo = pass[p].todo /\ pass'[p].now = pass[p].now
          /\ \A q \in Passes \ {p} : pass'[q] = pass[q]
        BY <1>0, <2>2 DEF PassType
    <2>8. UNCHANGED row /\ \A q \in Passes : Current(q)' = Current(q)
        BY <1>4, <2>7 DEF HandOver, Current
    <2>9. PassesInOrder'
        BY <2>1, <2>7, <2>8 DEF PassesInOrder, TypeInv, Delivers, Exists
    <2> QED
        BY <1>4, <2>6, <2>8, <2>9 DEF HandOver, TypeInv, RowsOwned, Existing, Exists
<1>5. ASSUME NEW p \in Passes, Undeliverable(p)
      PROVE  TypeInv'
    <2>2. pass' = [pass EXCEPT ![p].at = "answered", ![p].ok = FALSE] /\ pass[p].at = "sending"
        BY <1>5 DEF Undeliverable, Answer
    <2>3. pass' \in [Passes -> PassType]
        <3>1. pass \in [Passes -> PassType] /\ pass[p] \in PassType
            BY <1>0
        <3> QED
            BY <3>1, <2>2 DEF PassType, Statuses
    <2>6. TypeOK'
        BY <1>0, <1>5, <2>3 DEF TypeOK, Undeliverable
    <2>7. pass'[p].at = "answered" /\ pass'[p].todo = pass[p].todo /\ pass'[p].now = pass[p].now
          /\ \A q \in Passes \ {p} : pass'[q] = pass[q]
        BY <1>0, <2>2 DEF PassType
    <2>8. UNCHANGED row /\ \A q \in Passes : Current(q)' = Current(q)
        BY <1>5, <2>7 DEF Undeliverable, Current
    <2>1. pass[p].at = "sending"
        BY <2>2
    <2>9. PassesInOrder'
        BY <2>1, <2>7, <2>8 DEF PassesInOrder, TypeInv, Delivers, Exists
    <2> QED
        BY <1>5, <2>6, <2>8, <2>9 DEF Undeliverable, TypeInv, RowsOwned, Existing, Exists
<1>6. ASSUME NEW p \in Passes, ReadRow(p)
      PROVE  TypeInv'
    <2>1. Current(p) \in Channels
        BY DEF Current, Channels
    <2>2. PICK seen \in Statuses : pass' = [pass EXCEPT ![p].at = "marking", ![p].seen = seen]
        BY <1>0, <1>6, <2>1 DEF ReadRow, RowType
    <2>3. pass' \in [Passes -> PassType]
        <3>1. pass \in [Passes -> PassType] /\ pass[p] \in PassType
            BY <1>0
        <3> QED
            BY <3>1, <2>2 DEF PassType, Statuses
    <2>6. TypeOK'
        BY <1>0, <1>6, <2>3 DEF TypeOK, ReadRow
    <2>7. pass'[p].at = "marking" /\ pass'[p].todo = pass[p].todo /\ pass'[p].now = pass[p].now
          /\ \A q \in Passes \ {p} : pass'[q] = pass[q]
        BY <1>0, <2>2 DEF PassType
    <2>8. UNCHANGED row /\ \A q \in Passes : Current(q)' = Current(q)
        BY <1>6, <2>7 DEF ReadRow, Current
    <2>4. pass[p].at = "answered"
        BY <1>6 DEF ReadRow
    <2>9. PassesInOrder'
        BY <2>4, <2>7, <2>8 DEF PassesInOrder, TypeInv, Delivers, Exists
    <2> QED
        BY <1>6, <2>6, <2>8, <2>9 DEF ReadRow, TypeInv, RowsOwned, Existing, Exists
<1>7. ASSUME NEW p \in Passes, MarkOutcome(p)
      PROVE  TypeInv'
    <2> DEFINE c == Current(p)
    <2>1. c \in pass[p].todo /\ c \in Channels /\ pass[p].at = "marking" /\ Exists(c)
        BY <1>7, CurrentIsOnTheList DEF MarkOutcome, TypeInv, PassesInOrder, Delivers
    <2> DEFINE r == Marked(p, c, row[c])
    <2>2. row' = [row EXCEPT ![c] = r]
        BY <1>0, <1>7, <2>1 DEF MarkOutcome
    <2>3. row[c] \in RowType /\ pass[p].ok \in BOOLEAN /\ row[c].owner \in Passes
        BY <1>0, <2>1 DEF PassType, TypeInv, RowsOwned
    <2>4. /\ r \in RowType /\ r.owner \in Passes /\ r.status # "absent"
          /\ c = "email" => r.status \notin {"sent_to_phone", "delivered"}
        BY <1>0, <2>1, <2>3, MarkedRow DEF Exists, Channels
    <2> HIDE DEF r
    <2>5. /\ row' \in [Channels -> RowType]
          /\ row'["email"].status \notin {"sent_to_phone", "delivered"}
          /\ RowsOwned' /\ \A d \in Channels : Exists(d) => Exists(d)'
        BY <2>1, <2>2, <2>4, RowWritten
    <2>6. doubted' \in [Channels -> SUBSET Passes]
        BY <1>0, <1>7, <2>1, <2>3 DEF MarkOutcome, GiveUp
    <2>7. Through(p)
        BY <1>7 DEF MarkOutcome
    <2>8. TypeOK'
        BY <1>0, <1>7, <2>1, <2>5, <2>6, <2>7, ThroughEffect DEF TypeOK, MarkOutcome
    <2>9. \A q \in Passes : pass[q].todo \subseteq Channels /\ Current(q) \in Channels
        BY <1>0 DEF PassType, Current, Channels
    <2>10. PassesInOrder'
        <3>1. \A q \in Passes \ {p} : pass'[q] = pass[q] /\ Current(q)' = Current(q)
            BY <2>1, <2>7, ThroughEffect DEF Current
        <3>2. pass'[p].todo # {} => Current(p)' \in pass'[p].todo
            <4>1. pass'[p].todo = pass[p].todo \ {c}
                BY <2>1, <2>7, ThroughEffect
            <4>2. pass'[p].todo \subseteq Channels
                BY <4>1, <2>9
            <4> HIDE DEF c
            <4> QED
                BY <4>2 DEF Current, Channels
        <3> QED
            BY <2>1, <2>5, <2>7, <2>9, <3>1, <3>2, ThroughEffect
            DEF PassesInOrder, TypeInv, Delivers
    <2> QED
        BY <1>7, <2>5, <2>8, <2>10 DEF MarkOutcome, TypeInv, Existing, Channels
<1>8. ASSUME NEW p \in Passes, Crash(p)
      PROVE  TypeInv'
    <2> DEFINE keep == IF pass[p].now THEN pass[p].retry ELSE {}
               dead == [NoPass EXCEPT !.at = "done", !.now = pass[p].now, !.retry = keep]
    <2>1. keep \in SUBSET Channels /\ pass[p].now \in BOOLEAN
        BY <1>0 DEF PassType
    <2>2. pass' = [pass EXCEPT ![p] = dead]
        BY <1>8 DEF Crash
    <2> HIDE DEF keep
    <2>3. dead \in PassType /\ dead.at = "done" /\ dead.todo = {}
        BY <2>1 DEF PassType, NoPass, Statuses
    <2> HIDE DEF dead
    <2>4. pass' \in [Passes -> PassType] /\ pass'[p] = dead
          /\ \A q \in Passes \ {p} : pass'[q] = pass[q]
        BY <1>0, <2>2, <2>3
    <2>5. TypeOK'
        BY <1>0, <1>8, <2>4 DEF TypeOK, Crash
    <2>6. UNCHANGED row /\ \A q \in Passes \ {p} : Current(q)' = Current(q)
        BY <1>8, <2>4 DEF Crash, Current
    <2>7. PassesInOrder'
        BY <2>3, <2>4, <2>6 DEF PassesInOrder, TypeInv, Delivers, Exists
    <2> QED
        BY <1>8, <2>5, <2>6, <2>7 DEF Crash, TypeInv, RowsOwned, Existing, Exists
<1>9. ASSUME NEW p \in Passes, PhoneSends(p) \/ PhoneFails(p)
      PROVE  TypeInv'
    <2>1. events' \in SUBSET EventType
        BY <1>0, <1>9 DEF PhoneSends, PhoneFails, EventType
    <2>2. phone' \in SUBSET Passes /\ out' \in [Channels -> SUBSET Passes]
        BY <1>0, <1>9 DEF PhoneSends, PhoneFails, Channels
    <2>3. UNCHANGED <<row, due, enabled, pass, watched, hook, doubted>>
        BY <1>9 DEF PhoneSends, PhoneFails
    <2>4. TypeOK'
        BY <1>0, <2>1, <2>2, <2>3 DEF TypeOK
    <2>5. PassesInOrder'
        BY <2>3 DEF PassesInOrder, TypeInv, Exists, Current
    <2> QED
        BY <2>3, <2>4, <2>5 DEF TypeInv, RowsOwned, Existing, Exists
<1>10. ASSUME NEW c \in Channels, DeadlinePasses(c) \/ FailUnconfirmed(c)
       PROVE  TypeInv'
    <2>1. Exists(c) /\ row[c] \in RowType /\ row[c].owner \in Passes
        BY <1>0, <1>10
        DEF DeadlinePasses, FailUnconfirmed, Pending, TypeInv, Existing, Exists, RowsOwned
    <2>2. PICK r \in RowType : /\ row' = [row EXCEPT ![c] = r]
                               /\ r.owner = row[c].owner /\ r.status # "absent"
                               /\ r.status \in {row[c].status, "failed"}
        <3>1. CASE DeadlinePasses(c)
            <4>1. row' = [row EXCEPT ![c] = [row[c] EXCEPT !.late = TRUE]]
                BY <1>0, <3>1 DEF DeadlinePasses
            <4>2. [row[c] EXCEPT !.late = TRUE] \in RowType
                BY <2>1 DEF RowType
            <4>3. /\ [row[c] EXCEPT !.late = TRUE].owner = row[c].owner
                  /\ [row[c] EXCEPT !.late = TRUE].status = row[c].status
                BY <2>1 DEF RowType
            <4> QED
                BY <2>1, <4>1, <4>2, <4>3 DEF Exists
        <3>2. CASE FailUnconfirmed(c)
            <4>1. row' = [row EXCEPT ![c] = Failed(row[c], "presumed")]
                BY <1>0, <3>2 DEF FailUnconfirmed
            <4> QED
                BY <2>1, <4>1, FailedRow DEF Errors
        <3> QED
            BY <1>10, <3>1, <3>2
    <2>3. c = "email" => r.status \notin {"sent_to_phone", "delivered"}
        BY <1>0, <2>2
    <2>4. /\ row' \in [Channels -> RowType]
          /\ row'["email"].status \notin {"sent_to_phone", "delivered"}
          /\ RowsOwned' /\ \A d \in Channels : Exists(d) => Exists(d)'
        BY <2>1, <2>2, <2>3, RowWritten
    <2>5. doubted' \in [Channels -> SUBSET Passes] /\ watched' \in SUBSET watched
        BY <1>0, <1>10, <2>1 DEF DeadlinePasses, FailUnconfirmed, GiveUp
    <2>6. UNCHANGED <<due, enabled, pass, phone, events, hook, out>>
        BY <1>10 DEF DeadlinePasses, FailUnconfirmed
    <2>7. TypeOK'
        BY <1>0, <2>4, <2>5, <2>6 DEF TypeOK
    <2>8. PassesInOrder'
        BY <2>4, <2>6, PassesKept DEF TypeInv
    <2> QED
        BY <2>4, <2>5, <2>6, <2>7, <2>8 DEF TypeInv, Existing, Channels
<1>11. ASSUME NEW c \in Channels, ListUnconfirmed(c)
       PROVE  TypeInv'
    <2>1. UNCHANGED <<row, due, enabled, pass, phone, events, hook, out, doubted>>
          /\ watched' = watched \union {c} /\ Exists(c)
        BY <1>11 DEF ListUnconfirmed, Unconfirmed, Pending, Exists
    <2>2. TypeOK'
        BY <1>0, <2>1 DEF TypeOK
    <2>3. PassesInOrder'
        BY <2>1 DEF PassesInOrder, TypeInv, Exists, Current
    <2> QED
        BY <2>1, <2>2, <2>3 DEF TypeInv, RowsOwned, Existing, Exists
<1>12. ASSUME NEW channels \in Plans, SavePlan(channels)
       PROVE  TypeInv'
    <2>1. UNCHANGED <<row, due, pass, watched, phone, events, hook, out, doubted>>
          /\ enabled' = channels
        BY <1>12 DEF SavePlan
    <2>2. TypeOK'
        BY <1>0, <2>1 DEF TypeOK
    <2>3. PassesInOrder'
        BY <2>1 DEF PassesInOrder, TypeInv, Exists, Current
    <2> QED
        BY <2>1, <2>2, <2>3 DEF TypeInv, RowsOwned, Existing, Exists
<1>13. ASSUME NEW e \in events, ReceiveEvent(e)
       PROVE  TypeInv'
    <2>1. UNCHANGED <<row, due, enabled, pass, watched, phone, events, out, doubted>>
        BY <1>13 DEF ReceiveEvent
    <2>2. Exists("sms")
        BY <1>0, <1>13 DEF ReceiveEvent, CanFail, CanConfirm, Exists, Rank, EventType
    <2>3. hook' \in HookType
        BY <1>0, <1>13 DEF ReceiveEvent, HookType, EventType, RowType, Channels
    <2>4. TypeOK'
        BY <1>0, <2>1, <2>3 DEF TypeOK
    <2>5. PassesInOrder'
        BY <2>1 DEF PassesInOrder, TypeInv, Exists, Current
    <2> QED
        BY <2>1, <2>2, <2>4, <2>5 DEF TypeInv, RowsOwned, Existing, Exists
<1>14. ASSUME ApplyEvent
       PROVE  TypeInv'
    <2>1. Exists("sms") /\ row["sms"] \in RowType /\ row["sms"].owner \in Passes
          /\ hook \in HookType /\ "sms" \in Channels
        BY <1>0, <1>14 DEF ApplyEvent, TypeInv, RowsOwned, Channels
    <2>2. PICK r \in RowType : /\ row' = [row EXCEPT !["sms"] = r]
                               /\ r.owner = row["sms"].owner /\ r.status # "absent"
        <3>1. CASE hook.says = "failed"
            <4>1. row' = [row EXCEPT !["sms"] = Failed(row["sms"], "certain")]
                BY <1>0, <1>14, <3>1 DEF ApplyEvent
            <4> QED
                BY <2>1, <4>1, FailedRow DEF Errors
        <3>2. CASE hook.says # "failed"
            <4>1. row' = [row EXCEPT !["sms"] = Confirmed(row["sms"], hook.says)]
                BY <1>0, <1>14, <3>2 DEF ApplyEvent
            <4>2. hook.says \in {"sent", "delivered"}
                BY <2>1, <3>2 DEF HookType
            <4> QED
                BY <2>1, <4>1, <4>2, ConfirmedRow
        <3> QED
            BY <3>1, <3>2
    <2>3. /\ row' \in [Channels -> RowType]
          /\ row'["email"].status \notin {"sent_to_phone", "delivered"}
          /\ RowsOwned' /\ \A d \in Channels : Exists(d) => Exists(d)'
        BY <2>1, <2>2, RowWritten
    <2>4. doubted' \in [Channels -> SUBSET Passes]
        BY <1>0, <1>14, <2>1 DEF ApplyEvent, GiveUp
    <2>5. UNCHANGED <<due, enabled, pass, watched, phone, events, out>> /\ hook' = NoHook
        BY <1>14 DEF ApplyEvent
    <2>6. TypeOK'
        BY <1>0, <2>3, <2>4, <2>5 DEF TypeOK
    <2>7. PassesInOrder'
        BY <2>3, <2>5, PassesKept DEF TypeInv
    <2> QED
        BY <2>3, <2>5, <2>6, <2>7 DEF TypeInv, Existing, Channels
<1>15. ASSUME MomentComes
       PROVE  TypeInv'
    <2>1. UNCHANGED <<row, enabled, pass, watched, phone, events, hook, out, doubted>> /\ due'
        BY <1>15 DEF MomentComes
    <2>2. TypeOK'
        BY <1>0, <2>1 DEF TypeOK
    <2>3. PassesInOrder'
        BY <2>1 DEF PassesInOrder, TypeInv, Exists, Current
    <2> QED
        BY <2>1, <2>2, <2>3 DEF TypeInv, RowsOwned, Existing, Exists
<1>16. CASE UNCHANGED vars
    <2>1. PassesInOrder'
        BY <1>16 DEF vars, PassesInOrder, TypeInv, Exists, Current
    <2> QED
        BY <1>0, <1>16, <2>1 DEF vars, TypeInv, TypeOK, RowsOwned, Existing, Exists
<1> QED
    BY <1>1, <1>2, <1>3, <1>4, <1>5, <1>6, <1>7, <1>8, <1>9, <1>10, <1>11, <1>12, <1>13,
       <1>14, <1>15, <1>16
    DEF Next, Pass, Deliver, Watchdog

(* Every state the reminders reach is well typed.                          *)
THEOREM TypeCorrect ==
    Spec => []TypeOK
<1>1. TypeInv => TypeOK
    BY DEF TypeInv
<1> QED
    BY <1>1, TypeInit, TypeStep, PTL DEF Spec

-----------------------------------------------------------------------------
(* What a step may do to a pass, to a row and to a message.                *)

(* p inserts or requeues the row of channel c.                             *)
Claims(p, c) ==
    /\ row[c].status \in {"absent", "failed"}
    /\ row'[c].status = "queued"
    /\ row'[c].owner = p

Stays(p) == pass'[p] = pass[p]

Starts(p) ==
    /\ ReadPlan(p)
    /\ pass[p].at = "idle"
    /\ pass'[p].at = "claiming"
    /\ ~ pass'[p].now

ClaimsOne(p) ==
    /\ ClaimChannel(p)
    /\ pass[p].at = "claiming" /\ pass'[p].at = "sending"
    /\ pass'[p].todo = pass[p].todo /\ pass'[p].now = pass[p].now
    /\ Claims(p, Current(p))

ClaimsAll(p) ==
    /\ SendNow(p)
    /\ pass[p].at = "idle" /\ pass'[p].at = "sending"
    /\ \A c \in pass'[p].todo : Claims(p, c)

IsAnswered(p) ==
    /\ HandOver(p) \/ Undeliverable(p)
    /\ pass[p].at = "sending" /\ pass'[p].at = "answered"
    /\ pass'[p].todo = pass[p].todo /\ pass'[p].now = pass[p].now

Reads(p) ==
    /\ ReadRow(p)
    /\ pass[p].at = "answered" /\ pass'[p].at = "marking"
    /\ pass'[p].todo = pass[p].todo /\ pass'[p].now = pass[p].now
    /\ pass'[p].ok = pass[p].ok

GoesOn(p) ==
    /\ ClaimChannel(p) \/ MarkOutcome(p)
    /\ Current(p) \in pass[p].todo
    /\ pass[p].at \in {"claiming", "marking"}
    /\ pass'[p].todo = pass[p].todo \ {Current(p)}
    /\ pass'[p].now = pass[p].now
    /\ pass'[p].at \in {"done", "sending", "claiming"}
    /\ pass'[p].at = "sending" => pass[p].now

Dies(p) ==
    /\ Crash(p)
    /\ pass'[p].at = "done" /\ pass'[p].todo = {}

LEMMA PassMoves ==
    ASSUME TypeInv, [Next]_vars, NEW p \in Passes
    PROVE  \/ Stays(p) \/ Starts(p) \/ ClaimsOne(p) \/ ClaimsAll(p) \/ IsAnswered(p)
           \/ Reads(p) \/ GoesOn(p) \/ Dies(p)
<1>0. /\ pass \in [Passes -> PassType] /\ row \in [Channels -> RowType]
      /\ \A q \in Passes : pass[q] \in PassType
    BY DEF TypeInv, TypeOK
<1> USE DEF planVars, phoneVars, fateVars
<1>1. ASSUME NEW q \in Passes, ReadPlan(q)
      PROVE  Stays(p) \/ Starts(p)
    <2>1. pass' = [pass EXCEPT ![q].at = "claiming", ![q].todo = enabled,
                               ![q].retry = enabled \intersect Existing]
        BY <1>1 DEF ReadPlan
    <2>2. pass[q].at = "idle" /\ ~ pass[q].now
        BY <1>1 DEF ReadPlan, TypeInv, PassesInOrder
    <2>3. pass[p] \in PassType
        BY <1>0
    <2>4. p # q => pass'[p] = pass[p]
        BY <1>0, <2>1
    <2>5. p = q => pass'[p].at = "claiming" /\ pass'[p].now = pass[p].now
        BY <1>0, <2>1, <2>3 DEF PassType
    <2> QED
        BY <1>1, <2>2, <2>4, <2>5 DEF Stays, Starts
<1>2. ASSUME NEW q \in Passes, ClaimChannel(q)
      PROVE  Stays(p) \/ ClaimsOne(p) \/ GoesOn(p)
    <2> DEFINE c == Current(q)
    <2>1. c \in pass[q].todo /\ c \in Channels /\ pass[q].at = "claiming"
        BY <1>2, CurrentIsOnTheList DEF ClaimChannel
    <2>2. CASE Through(q)
        BY <1>2, <2>1, <2>2, ThroughEffect DEF Stays, GoesOn
    <2>3. CASE ~ Through(q)
        <3>1. /\ IF c \in pass[q].retry THEN CanRequeue(c) ELSE ~ Exists(c)
              /\ row' = [row EXCEPT ![c] = QueuedBy(q)]
              /\ pass' = [pass EXCEPT ![q].at = "sending"]
            BY <1>2, <2>3 DEF ClaimChannel
        <3>2. row[c].status \in {"absent", "failed"}
            BY <3>1 DEF CanRequeue, Exists
        <3>3. row'[c] = QueuedBy(q)
            BY <1>0, <2>1, <3>1
        <3>4. Claims(q, c)
            BY <3>2, <3>3, QueuedRow DEF Claims
        <3>5. p # q => pass'[p] = pass[p]
            BY <1>0, <3>1
        <3>6. /\ pass'[q].at = "sending" /\ pass'[q].todo = pass[q].todo
              /\ pass'[q].now = pass[q].now
            BY <1>0, <3>1 DEF PassType
        <3> QED
            BY <1>2, <2>1, <3>4, <3>5, <3>6 DEF Stays, ClaimsOne
    <2> QED
        BY <2>2, <2>3
<1>3. ASSUME NEW q \in Passes, SendNow(q)
      PROVE  Stays(p) \/ ClaimsAll(p)
    <2>1. pass' = [pass EXCEPT ![q].at = "sending", ![q].todo = enabled, ![q].now = TRUE,
                               ![q].retry = enabled \intersect Existing]
        BY <1>3 DEF SendNow
    <2>2. pass[q].at = "idle"
        BY <1>3 DEF SendNow
    <2>3. pass[p] \in PassType
        BY <1>0
    <2>4. p # q => pass'[p] = pass[p]
        BY <1>0, <2>1
    <2>5. p = q => pass'[p].at = "sending" /\ pass'[p].todo = enabled
        BY <1>0, <2>1, <2>3 DEF PassType
    <2>6. \A c \in enabled : Claims(q, c)
        <3>1. enabled \subseteq Channels
            BY ConstantsAssumption DEF TypeInv, TypeOK
        <3>2. \A c \in enabled : row'[c] = QueuedBy(q)
            BY <1>3, <3>1 DEF SendNow
        <3>3. \A c \in enabled : row[c].status \in {"absent", "failed"}
            BY <1>3, <3>1 DEF SendNow, Existing, Exists, CanRequeue
        <3> QED
            BY <3>2, <3>3, QueuedRow DEF Claims
    <2> QED
        BY <1>3, <2>2, <2>4, <2>5, <2>6 DEF Stays, ClaimsAll
<1>4. ASSUME NEW q \in Passes, HandOver(q) \/ Undeliverable(q)
      PROVE  Stays(p) \/ IsAnswered(p)
    <2>1. PICK ok : pass' = [pass EXCEPT ![q].at = "answered", ![q].ok = ok]
        BY <1>4 DEF HandOver, Undeliverable, Answer
    <2>2. pass[q].at = "sending"
        BY <1>4 DEF HandOver, Undeliverable
    <2>3. pass[p] \in PassType
        BY <1>0
    <2>4. p # q => pass'[p] = pass[p]
        BY <1>0, <2>1
    <2>5. p = q => /\ pass'[p].at = "answered" /\ pass'[p].todo = pass[p].todo
                   /\ pass'[p].now = pass[p].now
        BY <1>0, <2>1, <2>3 DEF PassType
    <2> QED
        BY <1>4, <2>2, <2>4, <2>5 DEF Stays, IsAnswered
<1>5. ASSUME NEW q \in Passes, ReadRow(q)
      PROVE  Stays(p) \/ Reads(p)
    <2>1. pass' = [pass EXCEPT ![q].at = "marking", ![q].seen = row[Current(q)].status]
        BY <1>5 DEF ReadRow
    <2>2. pass[q].at = "answered"
        BY <1>5 DEF ReadRow
    <2>3. pass[p] \in PassType
        BY <1>0
    <2>4. p # q => pass'[p] = pass[p]
        BY <1>0, <2>1
    <2>5. p = q => /\ pass'[p].at = "marking" /\ pass'[p].todo = pass[p].todo
                   /\ pass'[p].now = pass[p].now /\ pass'[p].ok = pass[p].ok
        BY <1>0, <2>1, <2>3 DEF PassType
    <2> QED
        BY <1>5, <2>2, <2>4, <2>5 DEF Stays, Reads
<1>6. ASSUME NEW q \in Passes, MarkOutcome(q)
      PROVE  Stays(p) \/ GoesOn(p)
    <2>1. pass[q].at = "marking" /\ Through(q)
        BY <1>6 DEF MarkOutcome
    <2>2. Current(q) \in pass[q].todo
        BY <2>1, CurrentIsOnTheList
    <2> QED
        BY <1>6, <2>1, <2>2, ThroughEffect DEF Stays, GoesOn
<1>7. ASSUME NEW q \in Passes, Crash(q)
      PROVE  Stays(p) \/ Dies(p)
    <2>1. PICK keep : pass' = [pass EXCEPT ![q] = [NoPass EXCEPT !.at = "done",
                                                   !.now = pass[q].now, !.retry = keep]]
        BY <1>7 DEF Crash
    <2>2. p # q => pass'[p] = pass[p]
        BY <1>0, <2>1
    <2>3. p = q => pass'[p] = [NoPass EXCEPT !.at = "done", !.now = pass[q].now, !.retry = keep]
        BY <1>0, <2>1
    <2> QED
        BY <1>7, <2>2, <2>3 DEF Stays, Dies, NoPass
<1>8. ASSUME \/ \E q \in Passes : PhoneSends(q) \/ PhoneFails(q)
             \/ \E c \in Channels : DeadlinePasses(c) \/ Watchdog(c)
             \/ \E channels \in Plans : SavePlan(channels)
             \/ \E e \in events : ReceiveEvent(e)
             \/ ApplyEvent \/ MomentComes \/ UNCHANGED vars
      PROVE  Stays(p)
    BY <1>8
    DEF PhoneSends, PhoneFails, DeadlinePasses, Watchdog, ListUnconfirmed, FailUnconfirmed,
        SavePlan, ReceiveEvent, ApplyEvent, MomentComes, vars, Stays
<1> QED
    BY <1>1, <1>2, <1>3, <1>4, <1>5, <1>6, <1>7, <1>8 DEF Next, Pass, Deliver

LEMMA ToHandIsFresh ==
    ASSUME NEW p, NEW c, ToHand(p, c)
    PROVE  Fresh(p, c)
BY DEF ToHand, Fresh

(* No pass forgets that it has tried a channel, and what it has to hand    *)
(* over it has claimed.                                                    *)
LEMMA PassSteps ==
    ASSUME TypeInv, [Next]_vars, NEW p \in Passes, NEW c \in Channels
    PROVE  /\ Fresh(p, c)' => Fresh(p, c)
           /\ ToHand(p, c)' => ToHand(p, c) \/ Claims(p, c)
<1>0. /\ TypeInv' /\ \A q \in Passes : pass[q].todo \subseteq Channels
      /\ \A q \in Passes : pass'[q].todo \subseteq Channels
    BY TypeStep DEF TypeInv, TypeOK, PassType
<1>1. pass'[p].todo = pass[p].todo => Current(p)' = Current(p)
    BY DEF Current
<1>2. /\ pass[p].at \in {"idle", "done"} <=> pass[p].todo = {}
      /\ pass'[p].at \in {"idle", "done"} <=> pass'[p].todo = {}
      /\ pass[p].now => pass[p].at \notin {"idle", "claiming"}
    BY <1>0 DEF TypeInv, PassesInOrder
<1>3. CASE Stays(p)
    BY <1>3, <1>1 DEF Stays, Fresh, ToHand
<1>4. CASE Starts(p)
    BY <1>4 DEF Starts, Fresh, ToHand
<1>5. CASE ClaimsOne(p)
    BY <1>5, <1>1, <1>2 DEF ClaimsOne, Fresh, ToHand
<1>6. CASE ClaimsAll(p)
    BY <1>6 DEF ClaimsAll, Fresh, ToHand
<1>7. CASE IsAnswered(p)
    BY <1>7, <1>1 DEF IsAnswered, Fresh, ToHand
<1>8. CASE Reads(p)
    BY <1>8, <1>1 DEF Reads, Fresh, ToHand
<1>9. CASE GoesOn(p)
    BY <1>9, <1>2 DEF GoesOn, Fresh, ToHand
<1>10. CASE Dies(p)
    BY <1>10 DEF Dies, Fresh, ToHand
<1> QED
    BY <1>3, <1>4, <1>5, <1>6, <1>7, <1>8, <1>9, <1>10, PassMoves

LEMMA MessageSteps ==
    ASSUME TypeInv, [Next]_vars, NEW p \in Passes, NEW c \in Channels
    PROVE  /\ Handed(p, c)' => Handed(p, c) \/ (HandOver(p) /\ c = Current(p))
           /\ p \in out[c] => p \in out'[c]
           /\ p \in out'[c] => p \in out[c] \/ (c = "email" /\ HandOver(p) /\ c = Current(p))
                                            \/ (c = "sms" /\ p \in phone)
           /\ p \in doubted[c] => p \in doubted'[c]
<1>0. /\ out \in [Channels -> SUBSET Passes] /\ doubted \in [Channels -> SUBSET Passes]
      /\ hook # NoHook => Exists("sms")
    BY DEF TypeInv, TypeOK
<1> USE DEF planVars, phoneVars, fateVars
<1>1. ASSUME NEW q \in Passes, HandOver(q)
      PROVE  /\ Handed(p, c)' => Handed(p, c) \/ (p = q /\ c = Current(p))
             /\ p \in out[c] => p \in out'[c]
             /\ p \in out'[c] => p \in out[c] \/ (c = "email" /\ p = q /\ c = Current(p))
             /\ p \in doubted[c] => p \in doubted'[c]
    <2>1. Current(q) \in Channels
        BY DEF Current, Channels
    <2>2. CASE Current(q) = "email"
        <3>1. out' = [out EXCEPT !["email"] = @ \union {q}] /\ UNCHANGED phone
            BY <1>1, <2>2 DEF HandOver
        <3>2. \/ doubted' = doubted
              \/ doubted' = [doubted EXCEPT !["email"] = @ \union {q}]
            BY <1>1, <2>2 DEF HandOver
        <3> QED
            BY <1>0, <2>2, <3>1, <3>2 DEF Handed, Channels
    <2>3. CASE Current(q) # "email"
        <3>1. phone' = phone \union {q} /\ UNCHANGED out /\ Current(q) = "sms"
            BY <1>1, <2>1, <2>3 DEF HandOver, Channels
        <3>2. \/ doubted' = doubted
              \/ doubted' = [doubted EXCEPT !["sms"] = @ \union {q}]
            BY <1>1, <3>1 DEF HandOver
        <3> QED
            BY <1>0, <3>1, <3>2 DEF Handed, Channels
    <2> QED
        BY <2>2, <2>3
<1>2. ASSUME NEW q \in Passes, PhoneSends(q)
      PROVE  /\ Handed(p, c)' => Handed(p, c)
             /\ p \in out[c] => p \in out'[c]
             /\ p \in out'[c] => p \in out[c] \/ (c = "sms" /\ p \in phone)
             /\ UNCHANGED doubted
    BY <1>0, <1>2 DEF PhoneSends, Handed, Channels
<1>3. ASSUME NEW q \in Passes, PhoneFails(q)
      PROVE  (Handed(p, c)' => Handed(p, c)) /\ UNCHANGED <<out, doubted>>
    BY <1>3 DEF PhoneFails, Handed
<1>4. ASSUME \/ \E q \in Passes : MarkOutcome(q)
             \/ \E d \in Channels : FailUnconfirmed(d)
             \/ ApplyEvent
      PROVE  UNCHANGED <<out, phone>> /\ (p \in doubted[c] => p \in doubted'[c])
    BY <1>0, <1>4 DEF MarkOutcome, FailUnconfirmed, ApplyEvent, GiveUp
<1>5. ASSUME \/ \E q \in Passes : \/ ReadPlan(q) \/ ClaimChannel(q) \/ SendNow(q)
                                  \/ Undeliverable(q) \/ ReadRow(q) \/ Crash(q)
             \/ \E d \in Channels : DeadlinePasses(d) \/ ListUnconfirmed(d)
             \/ \E channels \in Plans : SavePlan(channels)
             \/ \E e \in events : ReceiveEvent(e)
             \/ MomentComes \/ UNCHANGED vars
      PROVE  UNCHANGED <<out, phone, doubted>>
    BY <1>5
    DEF ReadPlan, ClaimChannel, SendNow, Undeliverable, ReadRow, Crash, DeadlinePasses,
        ListUnconfirmed, SavePlan, ReceiveEvent, MomentComes, vars
<1> QED
    BY <1>1, <1>2, <1>3, <1>4, <1>5 DEF Next, Pass, Deliver, Watchdog, Handed

(* A row changes hands when a pass claims it. It fails on the report about *)
(* its owner's own try, or its owner is given up.                          *)
Kept(c) ==
    /\ row'[c].owner = row[c].owner
    /\ row'[c].status = "failed" => row[c].status = "failed"

OwnTryFails(c) ==
    /\ row'[c].owner = row[c].owner
    /\ \/ /\ MarkOutcome(row[c].owner)
          /\ c = Current(row[c].owner) /\ ~ pass[row[c].owner].ok
       \/ /\ ApplyEvent
          /\ c = "sms" /\ hook.says = "failed" /\ hook.text = row[c].owner

LEMMA RowSteps ==
    ASSUME TypeInv, [Next]_vars, NEW c \in Channels
    PROVE  \/ \E q \in Passes : Claims(q, c)
           \/ Kept(c)
           \/ row'[c].owner = row[c].owner /\ row[c].owner \in doubted'[c]
           \/ OwnTryFails(c)
<1>0. /\ row \in [Channels -> RowType] /\ \A d \in Channels : row[d] \in RowType
      /\ doubted \in [Channels -> SUBSET Passes]
      /\ hook \in {NoHook} \union HookType
      /\ pass \in [Passes -> PassType]
    BY DEF TypeInv, TypeOK
<1> USE DEF planVars, phoneVars, fateVars
<1>1. ASSUME NEW p \in Passes, ClaimChannel(p), row' # row
      PROVE  (\E q \in Passes : Claims(q, c)) \/ Kept(c)
    <2>1. /\ IF Current(p) \in pass[p].retry THEN CanRequeue(Current(p)) ELSE ~ Exists(Current(p))
          /\ row' = [row EXCEPT ![Current(p)] = QueuedBy(p)]
        BY <1>1 DEF ClaimChannel
    <2>2. c = Current(p) => Claims(p, c)
        BY <1>0, <2>1, QueuedRow DEF Claims, CanRequeue, Exists
    <2>3. c # Current(p) => Kept(c)
        BY <1>0, <2>1 DEF Kept
    <2> QED
        BY <2>2, <2>3
<1>2. ASSUME NEW p \in Passes, SendNow(p)
      PROVE  (\E q \in Passes : Claims(q, c)) \/ Kept(c)
    <2>1. row'[c] = IF c \in enabled THEN QueuedBy(p) ELSE row[c]
        BY <1>2 DEF SendNow
    <2>2. row[c].status \in {"absent", "failed"}
        BY <1>2 DEF SendNow, Existing, Exists, CanRequeue
    <2> QED
        BY <2>1, <2>2, QueuedRow DEF Claims, Kept
<1>3. ASSUME NEW p \in Passes, MarkOutcome(p)
      PROVE  \/ Kept(c) \/ OwnTryFails(c)
             \/ row'[c].owner = row[c].owner /\ row[c].owner \in doubted'[c]
    <2> DEFINE d == Current(p)
               r == Marked(p, d, row[d])
    <2>1. d \in Channels
        BY DEF Current, Channels
    <2>2. row' = [row EXCEPT ![d] = r]
        BY <1>0, <1>3, <2>1 DEF MarkOutcome
    <2>3. /\ r.owner = row[d].owner
          /\ pass[p].ok => r.status # "failed" \/ r.status = row[d].status
        BY <1>0, <2>1, MarkedRow DEF PassType, Channels
    <2>4. doubted' = IF row[d].status # "failed" /\ r.status = "failed" /\ row[d].owner # p
                       THEN GiveUp(d) ELSE doubted
        BY <1>3 DEF MarkOutcome
    <2> HIDE DEF r
    <2>5. CASE c # d
        BY <1>0, <2>2, <2>5 DEF Kept
    <2>9. ASSUME c = d
          PROVE  row'[c].owner = row[c].owner /\ row'[c] = r
        BY <1>0, <2>2, <2>3, <2>9
    <2>6. CASE c = d /\ (r.status # "failed" \/ row[d].status = "failed")
        <3>1. row'[c].owner = row[c].owner /\ row'[c] = r
            BY <2>6, <2>9
        <3> HIDE DEF d
        <3> QED
            BY <2>6, <3>1 DEF Kept
    <2>7. CASE c = d /\ r.status = "failed" /\ row[d].status # "failed" /\ row[d].owner = p
        <3>1. row'[c].owner = row[c].owner /\ row[c].owner = p
            BY <2>7, <2>9
        <3>2. ~ pass[p].ok
            BY <2>3, <2>7
        <3> QED
            BY <1>3, <2>7, <3>1, <3>2 DEF OwnTryFails
    <2>8. CASE c = d /\ r.status = "failed" /\ row[d].status # "failed" /\ row[d].owner # p
        <3>1. row'[c].owner = row[c].owner
            BY <2>8, <2>9
        <3>2. doubted' = GiveUp(d)
            BY <2>4, <2>8
        <3> HIDE DEF d
        <3>3. row[c].owner \in doubted'[c]
            BY <1>0, <2>8, <3>2 DEF GiveUp
        <3> QED
            BY <3>1, <3>3
    <2> QED
        BY <2>5, <2>6, <2>7, <2>8
<1>4. ASSUME NEW d \in Channels, DeadlinePasses(d)
      PROVE  Kept(c)
    <2>1. row' = [row EXCEPT ![d].late = TRUE]
        BY <1>4 DEF DeadlinePasses
    <2> QED
        BY <1>0, <2>1 DEF Kept, RowType
<1>5. ASSUME NEW d \in Channels, FailUnconfirmed(d)
      PROVE  \/ Kept(c)
             \/ row'[c].owner = row[c].owner /\ row[c].owner \in doubted'[c]
    <2>1. row' = [row EXCEPT ![d] = Failed(row[d], "presumed")] /\ doubted' = GiveUp(d)
        BY <1>0, <1>5 DEF FailUnconfirmed
    <2>2. Failed(row[d], "presumed").owner = row[d].owner
        BY <1>0, FailedRow DEF Errors
    <2> QED
        BY <1>0, <2>1, <2>2 DEF Kept, GiveUp
<1>6. ASSUME ApplyEvent
      PROVE  \/ Kept(c) \/ OwnTryFails(c)
             \/ row'[c].owner = row[c].owner /\ row[c].owner \in doubted'[c]
    <2>1. hook \in HookType /\ "sms" \in Channels
        BY <1>0, <1>6 DEF ApplyEvent, Channels
    <2>2. CASE c # "sms"
        <3>1. row'[c] = row[c]
            BY <1>0, <1>6, <2>2 DEF ApplyEvent
        <3> QED
            BY <3>1 DEF Kept
    <2>3. CASE c = "sms" /\ hook.says # "failed"
        <3>1. row'["sms"] = Confirmed(row["sms"], hook.says)
            BY <1>0, <1>6, <2>1, <2>3 DEF ApplyEvent
        <3>2. hook.says \in {"sent", "delivered"}
            BY <2>1, <2>3 DEF HookType
        <3> QED
            BY <1>0, <2>1, <2>3, <3>1, <3>2, ConfirmedRow DEF Kept
    <2>4. CASE c = "sms" /\ hook.says = "failed"
        <3>1. row'["sms"] = Failed(row["sms"], "certain")
            BY <1>0, <1>6, <2>1, <2>4 DEF ApplyEvent
        <3>2. row'[c].owner = row[c].owner
            BY <1>0, <2>1, <2>4, <3>1, FailedRow DEF Errors
        <3>3. hook.text # row["sms"].owner => doubted' = GiveUp("sms")
            BY <1>6, <2>4 DEF ApplyEvent
        <3>4. hook.text # row["sms"].owner => row[c].owner \in doubted'[c]
            BY <1>0, <2>1, <2>4, <3>3 DEF GiveUp
        <3> QED
            BY <1>6, <2>4, <3>2, <3>4 DEF OwnTryFails
    <2> QED
        BY <2>2, <2>3, <2>4
<1>7. ASSUME UNCHANGED row
      PROVE  Kept(c)
    BY <1>7 DEF Kept
<1>8. ASSUME \/ \E q \in Passes : \/ ReadPlan(q) \/ HandOver(q) \/ Undeliverable(q)
                                  \/ ReadRow(q) \/ Crash(q) \/ PhoneSends(q) \/ PhoneFails(q)
             \/ \E d \in Channels : ListUnconfirmed(d)
             \/ \E channels \in Plans : SavePlan(channels)
             \/ \E e \in events : ReceiveEvent(e)
             \/ MomentComes \/ UNCHANGED vars
      PROVE  UNCHANGED row
    BY <1>8
    DEF ReadPlan, HandOver, Undeliverable, ReadRow, Crash, PhoneSends, PhoneFails,
        ListUnconfirmed, SavePlan, ReceiveEvent, MomentComes, vars
<1> QED
    BY <1>1, <1>2, <1>3, <1>4, <1>5, <1>6, <1>7, <1>8 DEF Next, Pass, Deliver, Watchdog

-----------------------------------------------------------------------------
(* At most one message more than tries given up.                           *)

FatesKnown == ReportsAreTrue /\ ErrorsEndTries /\ OthersGivenUp /\ FewDoubts

LEMMA FatesInit ==
    Init => FatesKnown
<1> SUFFICES ASSUME Init
             PROVE  FatesKnown
    OBVIOUS
<1>1. \A p \in Passes, c \in Channels : ~ Handed(p, c) /\ ~ ToHand(p, c)
    BY DEF Init, Handed, ToHand, NoPass
<1>2. ReportsAreTrue
    BY <1>1 DEF Init, ReportsAreTrue
<1>3. ErrorsEndTries
    BY DEF Init, ErrorsEndTries, NoPass
<1>4. FewDoubts
    BY FS_EmptySet DEF Init, FewDoubts
<1> QED
    BY <1>1, <1>2, <1>3, <1>4 DEF FatesKnown, OthersGivenUp

LEMMA ReportsStep ==
    ASSUME TypeInv, ReportsAreTrue, [Next]_vars
    PROVE  ReportsAreTrue'
<1>0. /\ \A e \in events : e.text \in Passes /\ e.says \in {"sent", "delivered", "failed"}
      /\ out \in [Channels -> SUBSET Passes] /\ phone \in SUBSET Passes
      /\ "sms" \in Channels
    BY DEF TypeInv, TypeOK, EventType, Channels
<1>1. ASSUME NEW p \in Passes, NEW c \in Channels, Fresh(p, c)'
      PROVE  ~ Handed(p, c)'
    <2>1. Fresh(p, c) /\ ~ Handed(p, c)
        BY <1>1, PassSteps DEF ReportsAreTrue
    <2>2. ASSUME HandOver(p), c = Current(p)
          PROVE  FALSE
        <3>1. pass[p].at = "sending" /\ pass'[p].at = "answered" /\ pass'[p].todo = pass[p].todo
            BY <2>2, PassMoves
            DEF HandOver, Answer, Stays, Starts, ClaimsOne, ClaimsAll, IsAnswered, Reads,
                GoesOn, Dies, TypeInv, TypeOK, PassType
        <3>2. Current(p)' = c
            BY <2>2, <3>1 DEF Current
        <3> QED
            BY <1>1, <3>1, <3>2 DEF Fresh
    <2> QED
        BY <2>1, <2>2, MessageSteps
<1>2. ASSUME NEW p \in Passes, HandOver(p)
      PROVE  ReportsAreTrue'
    <2>1. Current(p) \in pass[p].todo /\ Current(p) \in Channels /\ pass[p].at = "sending"
        BY <1>2, CurrentIsOnTheList DEF HandOver
    <2>2. Fresh(p, Current(p)) /\ ~ Handed(p, Current(p))
        BY <2>1 DEF Fresh, ReportsAreTrue
    <2>3. UNCHANGED <<events, hook>>
        BY <1>2 DEF HandOver
    <2>4. CASE Current(p) = "email"
        <3>1. UNCHANGED phone /\ out'["sms"] = out["sms"]
            BY <1>0, <1>2, <2>4 DEF HandOver, Channels
        <3> QED
            BY <1>0, <1>1, <2>3, <3>1, PassSteps DEF ReportsAreTrue
    <2>5. CASE Current(p) = "sms"
        <3>1. phone' = phone \union {p} /\ UNCHANGED out
            BY <1>2, <2>5 DEF HandOver
        <3>2. p \notin out["sms"] /\ \A e \in events : e.text # p
            BY <2>2, <2>5 DEF Handed, ReportsAreTrue
        <3> QED
            BY <1>0, <1>1, <2>3, <3>1, <3>2, PassSteps DEF ReportsAreTrue
    <2> QED
        BY <2>1, <2>4, <2>5 DEF Channels
<1>3. ASSUME NEW p \in Passes, PhoneSends(p) \/ PhoneFails(p)
      PROVE  ReportsAreTrue'
    <2>1. /\ p \in phone /\ phone' = phone \ {p}
          /\ p \notin out["sms"] /\ ~ Fresh(p, "sms") /\ \A e \in events : e.text # p
        BY <1>0, <1>3 DEF PhoneSends, PhoneFails, ReportsAreTrue, Handed
    <2>2. UNCHANGED hook /\ events \subseteq events'
        BY <1>3 DEF PhoneSends, PhoneFails
    <2>3. CASE PhoneSends(p)
        <3>1. out'["sms"] = out["sms"] \union {p}
            BY <1>0, <2>3 DEF PhoneSends
        <3>2. \A e \in events' : e \in events \/ (e.text = p /\ e.says # "failed")
            BY <2>3 DEF PhoneSends
        <3>3. \A e \in events' : e.text \in Passes
            BY <1>0, <3>2
        <3> QED
            BY <1>0, <1>1, <2>1, <2>2, <3>1, <3>2, <3>3, PassSteps DEF ReportsAreTrue
    <2>4. CASE PhoneFails(p)
        <3>1. UNCHANGED out
            BY <2>4 DEF PhoneFails, fateVars
        <3>2. \A e \in events' : e \in events \/ (e.text = p /\ e.says = "failed")
            BY <2>4 DEF PhoneFails
        <3>3. \A e \in events' : e.text \in Passes
            BY <1>0, <3>2
        <3> QED
            BY <1>0, <1>1, <2>1, <2>2, <3>1, <3>2, <3>3, PassSteps DEF ReportsAreTrue
    <2> QED
        BY <1>3, <2>3, <2>4
<1>4. ASSUME UNCHANGED <<out, phone, events>>,
             hook' = hook \/ hook' = NoHook
                 \/ \E e \in events : ReceiveEvent(e)
      PROVE  ReportsAreTrue'
    <2>1. hook' # NoHook => [text |-> hook'.text, says |-> hook'.says] \in events
        <3>1. CASE hook' = hook \/ hook' = NoHook
            BY <3>1 DEF ReportsAreTrue
        <3>2. ASSUME NEW e \in events, ReceiveEvent(e)
              PROVE  [text |-> hook'.text, says |-> hook'.says] \in events
            <4>1. hook'.text = e.text /\ hook'.says = e.says
                BY <3>2 DEF ReceiveEvent
            <4>2. e \in EventType
                BY DEF TypeInv, TypeOK
            <4>3. [text |-> e.text, says |-> e.says] = e
                BY <4>2 DEF EventType
            <4> QED
                BY <4>1, <4>3
        <3> QED
            BY <1>4, <3>1, <3>2
    <2> QED
        BY <1>0, <1>1, <1>4, <2>1, PassSteps DEF ReportsAreTrue
<1>5. ASSUME \/ \E q \in Passes : \/ ReadPlan(q) \/ ClaimChannel(q) \/ SendNow(q) \/ MarkOutcome(q)
                                  \/ Undeliverable(q) \/ ReadRow(q) \/ Crash(q)
             \/ \E d \in Channels : DeadlinePasses(d) \/ Watchdog(d)
             \/ \E channels \in Plans : SavePlan(channels)
             \/ \E e \in events : ReceiveEvent(e)
             \/ ApplyEvent \/ MomentComes \/ UNCHANGED vars
      PROVE  ReportsAreTrue'
    <2>1. UNCHANGED <<out, phone, events>>
        BY <1>5
        DEF ReadPlan, ClaimChannel, SendNow, MarkOutcome, Undeliverable, ReadRow, Crash,
            DeadlinePasses, Watchdog, ListUnconfirmed, FailUnconfirmed, SavePlan, ReceiveEvent,
            ApplyEvent, MomentComes, vars, phoneVars, fateVars
    <2>2. hook' = hook \/ hook' = NoHook \/ \E e \in events : ReceiveEvent(e)
        BY <1>5
        DEF ReadPlan, ClaimChannel, SendNow, MarkOutcome, Undeliverable, ReadRow, Crash,
            DeadlinePasses, Watchdog, ListUnconfirmed, FailUnconfirmed, SavePlan,
            ApplyEvent, MomentComes, vars, phoneVars
    <2> QED
        BY <1>4, <2>1, <2>2
<1> QED
    BY <1>2, <1>3, <1>5 DEF Next, Pass, Deliver

LEMMA ErrorsStep ==
    ASSUME TypeInv, ReportsAreTrue, ErrorsEndTries, [Next]_vars
    PROVE  ErrorsEndTries'
<1> SUFFICES ASSUME NEW p \in Passes,
                    pass'[p].at \in {"answered", "marking"}, ~ pass'[p].ok
             PROVE  ~ Handed(p, Current(p))' \/ p \in doubted'[Current(p)']
    BY DEF ErrorsEndTries
<1>0. PICK c \in Channels : c = Current(p)
    BY DEF Current, Channels
<1>1. ASSUME pass[p].at \in {"answered", "marking"}, ~ pass[p].ok, Current(p)' = Current(p),
             ~ HandOver(p)
      PROVE  ~ Handed(p, Current(p))' \/ p \in doubted'[Current(p)']
    <2>1. ~ Handed(p, c) \/ p \in doubted[c]
        BY <1>0, <1>1 DEF ErrorsEndTries
    <2>2. ~ Handed(p, c)' \/ p \in doubted'[c]
        BY <1>1, <2>1, MessageSteps
    <2> QED
        BY <1>0, <1>1, <2>2 DEF Handed
<1>2. CASE Stays(p)
    BY <1>1, <1>2 DEF Stays, Current, HandOver
<1>3. CASE Reads(p)
    BY <1>1, <1>3 DEF Reads, Current, HandOver
<1>4. CASE IsAnswered(p)
    <2>1. Current(p)' = c
        BY <1>0, <1>4 DEF IsAnswered, Current
    <2>2. /\ pass \in [Passes -> PassType] /\ pass[p] \in PassType
          /\ doubted \in [Channels -> SUBSET Passes]
        BY DEF TypeInv, TypeOK
    <2>3. CASE HandOver(p)
        <3>1. doubted' = [doubted EXCEPT ![c] = @ \union {p}]
            <4>1. ~ Answer(p, TRUE)
                BY <2>2 DEF Answer, PassType
            <4> QED
                BY <1>0, <2>3, <4>1 DEF HandOver
        <3> QED
            BY <2>1, <2>2, <3>1
    <2>4. CASE Undeliverable(p)
        <3>1. c \in pass[p].todo /\ pass[p].at = "sending"
            BY <1>0, <1>4, CurrentIsOnTheList DEF IsAnswered
        <3>2. ~ Handed(p, c)
            BY <1>0, <3>1 DEF ReportsAreTrue, Fresh
        <3>3. UNCHANGED <<out, phone>>
            BY <2>4 DEF Undeliverable, phoneVars, fateVars
        <3> QED
            BY <2>1, <3>2, <3>3 DEF Handed
    <2> QED
        BY <1>4, <2>3, <2>4 DEF IsAnswered
<1> QED
    BY <1>2, <1>3, <1>4, PassMoves DEF Starts, ClaimsOne, ClaimsAll, GoesOn, Dies

LEMMA OthersStep ==
    ASSUME TypeInv, ReportsAreTrue, ErrorsEndTries, OthersGivenUp, [Next]_vars
    PROVE  OthersGivenUp'
<1> SUFFICES ASSUME NEW p \in Passes, NEW c \in Channels,
                    Handed(p, c)' \/ ToHand(p, c)', p \notin doubted'[c]
             PROVE  p = row'[c].owner /\ row'[c].status # "failed"
    BY DEF OthersGivenUp
<1>1. CASE Claims(p, c)
    BY <1>1 DEF Claims
<1>2. CASE ~ Claims(p, c)
    <2>1. Handed(p, c) \/ ToHand(p, c)
        <3>1. ASSUME HandOver(p), c = Current(p)
              PROVE  ToHand(p, c)
            <4>1. c \in pass[p].todo /\ pass[p].at = "sending"
                BY <3>1, CurrentIsOnTheList DEF HandOver
            <4> QED
                BY <3>1, <4>1 DEF ToHand
        <3> QED
            BY <1>2, <3>1, MessageSteps, PassSteps
    <2>2. p = row[c].owner /\ row[c].status # "failed"
        BY <2>1, MessageSteps DEF OthersGivenUp
    <2>3. row[c].status # "absent"
        BY <2>2 DEF TypeInv, RowsOwned, Exists
    <2>4. ~ \E q \in Passes : Claims(q, c)
        BY <2>2, <2>3 DEF Claims
    <2>5. ~ OwnTryFails(c)
        <3>1. ASSUME MarkOutcome(p), c = Current(p), ~ pass[p].ok
              PROVE  FALSE
            <4>1. pass[p].at = "marking"
                BY <3>1 DEF MarkOutcome
            <4>2. ~ ToHand(p, c)
                BY <3>1, <4>1 DEF ToHand
            <4>3. p \in doubted[c]
                BY <2>1, <3>1, <4>1, <4>2 DEF ErrorsEndTries
            <4> QED
                BY <4>3, MessageSteps
        <3>2. ASSUME ApplyEvent, c = "sms", hook.says = "failed", hook.text = p
              PROVE  FALSE
            <4>1. [text |-> p, says |-> "failed"] \in events
                BY <3>2 DEF ApplyEvent, ReportsAreTrue
            <4> DEFINE e == [text |-> p, says |-> "failed"]
            <4>2. e \in events /\ e.text = p /\ e.says = "failed"
                BY <4>1
            <4> HIDE DEF e
            <4>3. p \notin phone /\ p \notin out["sms"] /\ ~ Fresh(p, "sms")
                BY <4>2 DEF ReportsAreTrue
            <4> QED
                BY <2>1, <3>2, <4>3, ToHandIsFresh DEF Handed
        <3> QED
            BY <2>2, <3>1, <3>2 DEF OwnTryFails
    <2> QED
        BY <2>2, <2>4, <2>5, RowSteps DEF Kept
<1> QED
    BY <1>1, <1>2

LEMMA DoubtsStep ==
    ASSUME TypeInv, FewDoubts, [Next]_vars
    PROVE  FewDoubts'
<1>0. doubted \in [Channels -> SUBSET Passes]
    BY DEF TypeInv, TypeOK
<1>1. ASSUME NEW d \in Channels, NEW x, doubted' = [doubted EXCEPT ![d] = @ \union {x}]
      PROVE  FewDoubts'
    <2>1. \A c \in Channels : doubted'[c] = doubted[c] \/ doubted'[c] = doubted[c] \union {x}
        BY <1>0, <1>1
    <2> QED
        BY <2>1, FS_AddElement DEF FewDoubts
<1>2. CASE UNCHANGED doubted
    BY <1>2 DEF FewDoubts
<1>3. ASSUME NEW p \in Passes, HandOver(p) \/ MarkOutcome(p)
      PROVE  FewDoubts'
    <2>1. Current(p) \in Channels
        BY DEF Current, Channels
    <2> QED
        BY <1>1, <1>2, <1>3, <2>1 DEF HandOver, MarkOutcome, GiveUp
<1>4. ASSUME ApplyEvent \/ \E d \in Channels : FailUnconfirmed(d)
      PROVE  FewDoubts'
    BY <1>1, <1>2, <1>4 DEF ApplyEvent, FailUnconfirmed, GiveUp, Channels
<1>5. ASSUME \/ \E q \in Passes : \/ ReadPlan(q) \/ ClaimChannel(q) \/ SendNow(q)
                                  \/ Undeliverable(q) \/ ReadRow(q) \/ Crash(q)
                                  \/ PhoneSends(q) \/ PhoneFails(q)
             \/ \E d \in Channels : DeadlinePasses(d) \/ ListUnconfirmed(d)
             \/ \E channels \in Plans : SavePlan(channels)
             \/ \E e \in events : ReceiveEvent(e)
             \/ MomentComes \/ UNCHANGED vars
      PROVE  UNCHANGED doubted
    BY <1>5
    DEF ReadPlan, ClaimChannel, SendNow, Undeliverable, ReadRow, Crash, PhoneSends, PhoneFails,
        DeadlinePasses, ListUnconfirmed, SavePlan, ReceiveEvent, MomentComes, vars, fateVars
<1> QED
    BY <1>2, <1>3, <1>4, <1>5 DEF Next, Pass, Deliver, Watchdog

LEMMA OneMoreThanDoubted ==
    ASSUME TypeInv, OthersGivenUp, FewDoubts
    PROVE  TwiceOnlyInDoubt
<1> SUFFICES ASSUME NEW c \in Channels
             PROVE  Cardinality(out[c]) <= 1 + Cardinality(doubted[c])
    BY DEF TwiceOnlyInDoubt
<1> DEFINE given == doubted[c] \union {row[c].owner}
<1>1. out[c] \subseteq given
    BY DEF TypeInv, TypeOK, OthersGivenUp, Handed
<1>2. IsFiniteSet(doubted[c]) /\ Cardinality(doubted[c]) \in Nat
    BY FS_CardinalityType DEF FewDoubts
<1>3. /\ IsFiniteSet(given)
      /\ Cardinality(given) = Cardinality(doubted[c])
             \/ Cardinality(given) = Cardinality(doubted[c]) + 1
    BY <1>2, FS_AddElement
<1>4. /\ IsFiniteSet(out[c])
      /\ Cardinality(out[c]) <= Cardinality(given)
    BY <1>1, <1>3, FS_Subset
<1>5. Cardinality(out[c]) \in Nat /\ Cardinality(given) \in Nat
    BY <1>3, <1>4, FS_CardinalityType
<1> HIDE DEF given
<1> QED
    BY <1>2, <1>3, <1>4, <1>5

(* However many sweeps and requests to send now race, whatever dies or is  *)
(* lost on the way and however late and often the phone reports, at most   *)
(* one message more goes out on a channel than there were tries given up   *)
(* in doubt.                                                               *)
THEOREM AgainOnlyInDoubt ==
    Spec => []TwiceOnlyInDoubt
<1>1. Init => TypeInv /\ FatesKnown
    BY TypeInit, FatesInit
<1>2. TypeInv /\ FatesKnown /\ [Next]_vars => (TypeInv /\ FatesKnown)'
    BY TypeStep, ReportsStep, ErrorsStep, OthersStep, DoubtsStep DEF FatesKnown
<1>3. TypeInv /\ FatesKnown => TwiceOnlyInDoubt
    BY OneMoreThanDoubted DEF FatesKnown
<1> QED
    BY <1>1, <1>2, <1>3, PTL DEF Spec

-----------------------------------------------------------------------------
(* "Sent" is true.                                                         *)

EmailSentIsOut == row["email"].status = "sent" => row["email"].owner \in out["email"]

TextSentIsOut == row["sms"].status \in {"sent", "delivered"} => out["sms"] # {}

(* The row of an email is written by its pass and by the watchdog only.    *)
ClaimedBy(q) ==
    /\ Claims(q, "email")
    /\ ~ row'["email"].late
    /\ pass'[q].at # "idle"

MarkedBy(q) ==
    /\ MarkOutcome(q)
    /\ Current(q) = "email" /\ "email" \in pass[q].todo /\ "email" \notin pass'[q].todo
    /\ row'["email"] = Marked(q, "email", row["email"])

LEMMA EmailRowSteps ==
    ASSUME TypeInv, [Next]_vars
    PROVE  \/ row'["email"] = row["email"]
           \/ \E q \in Passes : ClaimedBy(q)
           \/ \E q \in Passes : MarkedBy(q)
           \/ DeadlinePasses("email")
           \/ FailUnconfirmed("email")
<1>0. row \in [Channels -> RowType] /\ pass \in [Passes -> PassType] /\ "email" \in Channels
    BY DEF TypeInv, TypeOK, Channels
<1>1. ASSUME NEW q \in Passes, ClaimChannel(q), row'["email"] # row["email"]
      PROVE  ClaimedBy(q)
    <2>1. /\ IF Current(q) \in pass[q].retry THEN CanRequeue(Current(q)) ELSE ~ Exists(Current(q))
          /\ row' = [row EXCEPT ![Current(q)] = QueuedBy(q)]
          /\ pass' = [pass EXCEPT ![q].at = "sending"]
        BY <1>1 DEF ClaimChannel
    <2>2. Current(q) = "email" /\ row'["email"] = QueuedBy(q)
        BY <1>0, <1>1, <2>1
    <2>3. row["email"].status \in {"absent", "failed"}
        BY <2>1, <2>2 DEF CanRequeue, Exists
    <2>4. pass'[q].at = "sending"
        BY <1>0, <2>1 DEF PassType
    <2> QED
        BY <2>2, <2>3, <2>4, QueuedRow DEF ClaimedBy, Claims
<1>2. ASSUME NEW q \in Passes, SendNow(q), row'["email"] # row["email"]
      PROVE  ClaimedBy(q)
    <2>1. row'["email"] = IF "email" \in enabled THEN QueuedBy(q) ELSE row["email"]
        BY <1>0, <1>2 DEF SendNow
    <2>2. row'["email"] = QueuedBy(q)
        BY <1>2, <2>1
    <2>3. row["email"].status \in {"absent", "failed"}
        BY <1>0, <1>2 DEF SendNow, Existing, Exists, CanRequeue
    <2>4. pass' = [pass EXCEPT ![q].at = "sending", ![q].todo = enabled, ![q].now = TRUE,
                               ![q].retry = enabled \intersect Existing]
        BY <1>2 DEF SendNow
    <2>5. pass'[q].at = "sending"
        BY <1>0, <2>4 DEF PassType
    <2> QED
        BY <2>2, <2>3, <2>5, QueuedRow DEF ClaimedBy, Claims
<1>3. ASSUME NEW q \in Passes, MarkOutcome(q), row'["email"] # row["email"]
      PROVE  MarkedBy(q)
    <2>1. Current(q) \in Channels
        BY DEF Current, Channels
    <2>2. row' = [row EXCEPT ![Current(q)] = Marked(q, Current(q), row[Current(q)])]
        BY <1>0, <1>3, <2>1 DEF MarkOutcome
    <2>3. Current(q) = "email" /\ row'["email"] = Marked(q, "email", row["email"])
        BY <1>0, <1>3, <2>1, <2>2
    <2>4. pass[q].at = "marking" /\ Through(q)
        BY <1>3 DEF MarkOutcome
    <2>5. "email" \in pass[q].todo /\ "email" \notin pass'[q].todo
        BY <2>3, <2>4, CurrentIsOnTheList, ThroughEffect
    <2> QED
        BY <1>3, <2>3, <2>5 DEF MarkedBy
<1>4. ASSUME NEW d \in Channels, DeadlinePasses(d) \/ FailUnconfirmed(d), d # "email"
      PROVE  row'["email"] = row["email"]
    BY <1>0, <1>4 DEF DeadlinePasses, FailUnconfirmed
<1>5. ASSUME ApplyEvent
      PROVE  row'["email"] = row["email"]
    BY <1>0, <1>5 DEF ApplyEvent
<1>6. ASSUME \/ \E q \in Passes : \/ ReadPlan(q) \/ HandOver(q) \/ Undeliverable(q)
                                  \/ ReadRow(q) \/ Crash(q) \/ PhoneSends(q) \/ PhoneFails(q)
             \/ \E d \in Channels : ListUnconfirmed(d)
             \/ \E channels \in Plans : SavePlan(channels)
             \/ \E e \in events : ReceiveEvent(e)
             \/ MomentComes \/ UNCHANGED vars
      PROVE  UNCHANGED row
    BY <1>6
    DEF ReadPlan, HandOver, Undeliverable, ReadRow, Crash, PhoneSends, PhoneFails,
        ListUnconfirmed, SavePlan, ReceiveEvent, MomentComes, vars
<1> QED
    BY <1>1, <1>2, <1>3, <1>4, <1>5, <1>6 DEF Next, Pass, Deliver, Watchdog

LEMMA EmailInit ==
    Init => EmailStaysQueued /\ EmailSentIsOut
BY DEF Init, EmailStaysQueued, EmailSentIsOut, Delivers, NoPass, Absent, Exists, Channels

LEMMA EmailStep ==
    ASSUME TypeInv, EmailStaysQueued, EmailSentIsOut, [Next]_vars
    PROVE  EmailStaysQueued' /\ EmailSentIsOut'
<1> DEFINE m == row["email"]
<1>0. /\ row["email"] \in RowType /\ row'["email"] \in RowType /\ "email" \in Channels
      /\ m.status \notin {"sent_to_phone", "delivered"}
      /\ out \in [Channels -> SUBSET Passes]
      /\ pass \in [Passes -> PassType] /\ \A p \in Passes : pass[p] \in PassType
      /\ m.status # "absent" => m.owner \in Passes
      /\ watched \in SUBSET Channels
    BY TypeStep DEF TypeInv, TypeOK, Channels, RowsOwned, Exists
<1>1. \A p \in Passes : Current(p) = "email" <=> "email" \in pass[p].todo
    BY DEF Current
<1>2. \A p \in Passes : Current(p)' = "email" <=> "email" \in pass'[p].todo
    BY DEF Current
(* Only the pass itself touches the row of an email it is delivering.      *)
<1>3. ASSUME NEW p \in Passes, pass[p].at \in Delivers, "email" \in pass[p].todo
      PROVE  /\ m.owner = p /\ m.status = "queued" /\ ~ m.late /\ "email" \notin watched
             /\ row'["email"] = m \/ MarkedBy(p)
    <2>1. m.owner = p /\ m.status = "queued" /\ ~ m.late /\ "email" \notin watched
        BY <1>1, <1>3 DEF EmailStaysQueued
    <2>2. ~ DeadlinePasses("email")
        BY <1>3, <2>1 DEF DeadlinePasses, Delivering
    <2>3. ~ FailUnconfirmed("email")
        BY <2>1 DEF FailUnconfirmed
    <2>4. \A q \in Passes : ~ ClaimedBy(q)
        BY <2>1 DEF ClaimedBy, Claims
    <2>5. \A q \in Passes : MarkedBy(q) => q = p
        BY <1>1, <2>1 DEF MarkedBy, MarkOutcome, EmailStaysQueued, Delivers
    <2> QED
        BY <2>1, <2>2, <2>3, <2>4, <2>5, EmailRowSteps
<1>4. ASSUME NEW p \in Passes, pass'[p].at \in Delivers, "email" \in pass'[p].todo
      PROVE  row'["email"].owner = p /\ row'["email"].status = "queued"
    <2>1. ASSUME pass[p].at \in Delivers, "email" \in pass[p].todo
          PROVE  row'["email"].owner = p /\ row'["email"].status = "queued"
        BY <1>3, <1>4, <2>1 DEF MarkedBy
    <2>2. CASE Stays(p) \/ IsAnswered(p) \/ Reads(p)
        BY <1>4, <2>1, <2>2 DEF Stays, IsAnswered, Reads, Delivers
    <2>3. CASE ClaimsOne(p)
        BY <1>1, <1>4, <2>3 DEF ClaimsOne, Claims
    <2>4. CASE ClaimsAll(p)
        BY <1>4, <2>4 DEF ClaimsAll, Claims
    <2>5. CASE GoesOn(p)
        BY <1>1, <1>4, <2>5 DEF GoesOn
    <2> QED
        BY <1>4, <2>2, <2>3, <2>4, <2>5, PassMoves DEF Starts, Dies, Delivers
<1>5. ASSUME NEW p \in Passes, pass'[p].at \in {"answered", "marking"}, pass'[p].ok,
             "email" \in pass'[p].todo
      PROVE  p \in out'["email"]
    <2>1. CASE Stays(p) \/ Reads(p)
        <3>1. p \in out["email"]
            BY <1>1, <1>5, <2>1 DEF Stays, Reads, EmailStaysQueued
        <3> QED
            BY <1>0, <3>1, MessageSteps
    <2>2. CASE IsAnswered(p)
        <3>1. Current(p) = "email"
            BY <1>1, <1>5, <2>2 DEF IsAnswered
        <3>2. ~ Undeliverable(p)
            BY <1>0, <1>5 DEF Undeliverable, Answer, PassType
        <3> QED
            BY <1>0, <2>2, <3>1, <3>2 DEF IsAnswered, HandOver
    <2> QED
        BY <1>5, <2>1, <2>2, PassMoves DEF Starts, ClaimsOne, ClaimsAll, GoesOn, Dies
<1>6. ASSUME NEW p \in Passes, pass[p].at # "idle"
      PROVE  pass'[p].at # "idle" /\ ("email" \in pass'[p].todo => "email" \in pass[p].todo)
    BY <1>6, PassMoves
    DEF Stays, Starts, ClaimsOne, ClaimsAll, IsAnswered, Reads, GoesOn, Dies
<1>7. ASSUME row'["email"] = m
      PROVE  /\ Exists("email")' => pass'[m.owner].at # "idle"
             /\ m.late => m.status = "queued" /\ "email" \notin pass'[m.owner].todo
             /\ m.status = "sent" => m.owner \in out'["email"]
    <2>1. m.status # "absent" => m.owner \in Passes /\ pass[m.owner].at # "idle"
        BY <1>0 DEF EmailStaysQueued, Exists
    <2>2. m.status = "sent" => m.owner \in out'["email"]
        BY <1>0, <2>1, MessageSteps DEF EmailSentIsOut
    <2> QED
        BY <1>6, <1>7, <2>1, <2>2 DEF EmailStaysQueued, Exists
<1>8. "email" \in watched' => ("email" \in watched \/ m.late) /\ ~ FailUnconfirmed("email")
    <2>1. ASSUME NEW d \in Channels, ListUnconfirmed(d)
          PROVE  "email" \in watched' => ("email" \in watched \/ m.late)
        BY <2>1 DEF ListUnconfirmed, Unconfirmed
    <2>2. FailUnconfirmed("email") => "email" \notin watched'
        BY DEF FailUnconfirmed
    <2>3. ASSUME \A d \in Channels : ~ ListUnconfirmed(d)
          PROVE  watched' \subseteq watched
        BY <2>3
        DEF Next, Pass, Deliver, Watchdog, ReadPlan, ClaimChannel, SendNow, HandOver,
            Undeliverable, ReadRow, MarkOutcome, Crash, PhoneSends, PhoneFails, DeadlinePasses,
            FailUnconfirmed, SavePlan, ReceiveEvent, ApplyEvent, MomentComes, vars
    <2> QED
        BY <2>1, <2>2, <2>3
<1>9. ASSUME row'["email"] = m
      PROVE  "email" \in watched' => m.late
    BY <1>8 DEF EmailStaysQueued
<1>10. CASE row'["email"] = m
    BY <1>2, <1>4, <1>5, <1>7, <1>9, <1>10 DEF EmailStaysQueued, EmailSentIsOut
<1>11. ASSUME NEW q \in Passes, ClaimedBy(q)
       PROVE  EmailStaysQueued' /\ EmailSentIsOut'
    <2>1. /\ row'["email"].owner = q /\ row'["email"].status = "queued"
          /\ ~ row'["email"].late /\ pass'[q].at # "idle"
          /\ m.status \in {"absent", "failed"}
        BY <1>11 DEF ClaimedBy, Claims
    <2>2. "email" \notin watched' /\ ~ m.late
        BY <1>8, <2>1 DEF EmailStaysQueued
    <2> QED
        BY <1>2, <1>4, <1>5, <2>1, <2>2 DEF EmailStaysQueued, EmailSentIsOut
<1>12. ASSUME NEW q \in Passes, MarkedBy(q)
       PROVE  EmailStaysQueued' /\ EmailSentIsOut'
    <2>1. pass[q].at = "marking" /\ "email" \in pass[q].todo /\ Current(q) = "email"
        BY <1>12 DEF MarkedBy, MarkOutcome
    <2>2. m.owner = q /\ m.status = "queued" /\ ~ m.late /\ "email" \notin watched
        BY <1>3, <2>1 DEF Delivers
    <2>3. /\ row'["email"].owner = q /\ ~ row'["email"].late
          /\ pass[q].ok => row'["email"].status \in {"queued", "sent"}
          /\ ~ pass[q].ok => row'["email"].status \in {"queued", "failed"}
        <3>1. pass[q].ok \in BOOLEAN
            BY <1>0 DEF PassType
        <3>2. row'["email"] = Marked(q, "email", row["email"])
            BY <1>12 DEF MarkedBy
        <3> QED
            BY <1>0, <2>2, <3>1, <3>2, MarkedRow
    <2>4. pass[q].ok => q \in out'["email"]
        BY <1>0, <2>1, MessageSteps DEF EmailStaysQueued
    <2>5. pass'[q].at # "idle" /\ "email" \notin watched'
        BY <1>6, <1>8, <2>1, <2>2
    <2> QED
        BY <1>2, <1>4, <1>5, <2>3, <2>4, <2>5 DEF EmailStaysQueued, EmailSentIsOut
<1>13. CASE DeadlinePasses("email")
    <2>1. row' = [row EXCEPT !["email"].late = TRUE] /\ UNCHANGED <<pass, watched, out>>
        BY <1>13 DEF DeadlinePasses, fateVars
    <2>2. /\ row'["email"].owner = m.owner /\ row'["email"].status = m.status
          /\ row'["email"].late
        <3>1. row \in [Channels -> RowType]
            BY DEF TypeInv, TypeOK
        <3> QED
            BY <1>0, <2>1, <3>1 DEF RowType
    <2>3. m.status = "queued" /\ "email" \notin pass[m.owner].todo /\ m.owner \in Passes
        BY <1>0, <1>13 DEF DeadlinePasses, Pending, Delivering
    <2>4. pass'[m.owner].at # "idle"
        BY <1>6, <2>3 DEF EmailStaysQueued, Exists
    <2> QED
        BY <1>2, <1>4, <1>5, <2>1, <2>2, <2>3, <2>4 DEF EmailStaysQueued, EmailSentIsOut
<1>14. CASE FailUnconfirmed("email")
    <2>1. row' = [row EXCEPT !["email"] = Failed(row["email"], "presumed")]
        <3>1. row \in [Channels -> RowType]
            BY DEF TypeInv, TypeOK
        <3> QED
            BY <1>0, <1>14, <3>1 DEF FailUnconfirmed
    <2>2. /\ row'["email"].owner = m.owner /\ row'["email"].status = "failed"
          /\ ~ row'["email"].late
        <3>1. row'["email"] = Failed(row["email"], "presumed")
            BY <1>0, <2>1 DEF TypeInv, TypeOK
        <3> QED
            BY <1>0, <3>1, FailedRow DEF Errors
    <2>3. m.status = "queued" /\ m.owner \in Passes
        BY <1>0, <1>14 DEF FailUnconfirmed, EmailStaysQueued
    <2>4. pass'[m.owner].at # "idle" /\ "email" \notin watched'
        BY <1>6, <1>8, <1>14, <2>3 DEF EmailStaysQueued, Exists
    <2> QED
        BY <1>2, <1>4, <1>5, <2>2, <2>4 DEF EmailStaysQueued, EmailSentIsOut
<1> QED
    BY <1>10, <1>11, <1>12, <1>13, <1>14, EmailRowSteps

LEMMA TextStep ==
    ASSUME TypeInv, ReportsAreTrue, TextSentIsOut, [Next]_vars
    PROVE  TextSentIsOut'
<1>0. /\ row \in [Channels -> RowType] /\ \A d \in Channels : row[d] \in RowType
      /\ "sms" \in Channels
      /\ hook \in {NoHook} \union HookType
      /\ \A p \in Passes : pass[p].ok \in BOOLEAN
    BY DEF TypeInv, TypeOK, Channels, PassType
<1> DEFINE Sent == {"sent", "delivered"}
<1>1. ASSUME row'["sms"].status \in Sent => row["sms"].status \in Sent
      PROVE  TextSentIsOut'
    <2>1. out["sms"] \subseteq Passes
        BY <1>0 DEF TypeInv, TypeOK
    <2>2. out["sms"] # {} => out'["sms"] # {}
        BY <1>0, <2>1, MessageSteps
    <2> QED
        BY <1>1, <2>2 DEF TextSentIsOut
<1>2. ASSUME NEW q \in Passes, ClaimChannel(q) \/ SendNow(q)
      PROVE  row'["sms"].status \in Sent => row["sms"].status \in Sent
    <2>1. QueuedBy(q).status = "queued"
        BY QueuedRow
    <2>2. row'["sms"] = row["sms"] \/ row'["sms"] = QueuedBy(q)
        BY <1>0, <1>2 DEF ClaimChannel, SendNow
    <2> QED
        BY <2>1, <2>2
<1>3. ASSUME NEW q \in Passes, MarkOutcome(q)
      PROVE  row'["sms"].status \in Sent => row["sms"].status \in Sent
    <2>1. PICK c \in Channels : c = Current(q)
        BY DEF Current, Channels
    <2>2. row' = [row EXCEPT ![c] = Marked(q, c, row[c])]
        BY <1>0, <1>3, <2>1 DEF MarkOutcome
    <2>3. CASE c = "sms"
        <3>1. Marked(q, "sms", row["sms"]).status \in {row["sms"].status, "failed", "sent_to_phone"}
            BY <1>0, MarkedRow
        <3>2. row'["sms"] = Marked(q, "sms", row["sms"])
            BY <1>0, <2>2, <2>3
        <3> QED
            BY <3>1, <3>2
    <2>4. CASE c # "sms"
        BY <1>0, <2>2, <2>4
    <2> QED
        BY <2>3, <2>4
<1>4. ASSUME NEW d \in Channels, DeadlinePasses(d) \/ FailUnconfirmed(d)
      PROVE  row'["sms"].status \in Sent => row["sms"].status \in Sent
    <2>1. CASE DeadlinePasses(d)
        <3>1. row' = [row EXCEPT ![d].late = TRUE]
            BY <2>1 DEF DeadlinePasses
        <3> QED
            BY <1>0, <3>1 DEF RowType
    <2>2. CASE FailUnconfirmed(d)
        <3>1. row' = [row EXCEPT ![d] = Failed(row[d], "presumed")]
            BY <1>0, <2>2 DEF FailUnconfirmed
        <3>2. Failed(row[d], "presumed").status = "failed"
            BY <1>0, FailedRow DEF Errors
        <3> QED
            BY <1>0, <3>1, <3>2
    <2> QED
        BY <1>4, <2>1, <2>2
<1>5. ASSUME ApplyEvent
      PROVE  TextSentIsOut'
    <2>1. hook \in HookType /\ [text |-> hook.text, says |-> hook.says] \in events
        BY <1>0, <1>5 DEF ApplyEvent, ReportsAreTrue
    <2>2. CASE hook.says = "failed"
        <3>1. row'["sms"] = Failed(row["sms"], "certain")
            BY <1>0, <1>5, <2>2 DEF ApplyEvent
        <3>2. row'["sms"].status = "failed"
            BY <1>0, <3>1, FailedRow DEF Errors
        <3> QED
            BY <1>1, <3>2
    <2>3. CASE hook.says # "failed"
        <3> DEFINE e == [text |-> hook.text, says |-> hook.says]
        <3>1. e \in events /\ e.says # "failed"
            BY <2>1, <2>3
        <3> HIDE DEF e
        <3>2. out["sms"] # {}
            BY <3>1 DEF ReportsAreTrue
        <3>3. UNCHANGED out
            BY <1>5 DEF ApplyEvent
        <3> QED
            BY <3>2, <3>3 DEF TextSentIsOut
    <2> QED
        BY <2>2, <2>3
<1>6. ASSUME \/ \E q \in Passes : \/ ReadPlan(q) \/ HandOver(q) \/ Undeliverable(q)
                                  \/ ReadRow(q) \/ Crash(q) \/ PhoneSends(q) \/ PhoneFails(q)
             \/ \E d \in Channels : ListUnconfirmed(d)
             \/ \E channels \in Plans : SavePlan(channels)
             \/ \E e \in events : ReceiveEvent(e)
             \/ MomentComes \/ UNCHANGED vars
      PROVE  UNCHANGED row
    BY <1>6
    DEF ReadPlan, HandOver, Undeliverable, ReadRow, Crash, PhoneSends, PhoneFails,
        ListUnconfirmed, SavePlan, ReceiveEvent, MomentComes, vars
<1> QED
    BY <1>1, <1>2, <1>3, <1>4, <1>5, <1>6 DEF Next, Pass, Deliver, Watchdog

(* What the operator sees as sent was sent: an email by the very pass that *)
(* queued the row, a text by that pass or an earlier try of it, even       *)
(* though a mark and a webhook write by the row's id, whoever owns it.     *)
THEOREM SentReallyWent ==
    Spec => []SentIsOut
<1> DEFINE Known == TypeInv /\ FatesKnown /\ EmailStaysQueued /\ EmailSentIsOut /\ TextSentIsOut
<1>1. Init => Known
    <2>1. Init => TextSentIsOut
        BY DEF Init, TextSentIsOut, Absent, Channels
    <2> QED
        BY <2>1, TypeInit, FatesInit, EmailInit
<1>2. Known /\ [Next]_vars => Known'
    BY TypeStep, ReportsStep, ErrorsStep, OthersStep, DoubtsStep, EmailStep, TextStep
    DEF FatesKnown
<1>3. Known => SentIsOut
    BY DEF SentIsOut, EmailSentIsOut, TextSentIsOut
<1> QED
    BY <1>1, <1>2, <1>3, PTL DEF Spec

=============================================================================
