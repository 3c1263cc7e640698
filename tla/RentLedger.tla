----------------------------- MODULE RentLedger -----------------------------
(***************************************************************************)
(* The rent ledger of one tenant (MyBookkeeper): the rent_schedules, the   *)
(* rent_charges generated from them whenever the ledger is read or a       *)
(* schedule is saved, and the settlement of charges by payments.           *)
(*                                                                         *)
(* Generating takes several statements of one transaction. It reads the    *)
(* schedules, then their charges, and writes what it decided from both;    *)
(* nothing is locked, so others commit in between. Only the unique index   *)
(* on (schedule_id, period_start) looks again, and it leaves out the       *)
(* charges entered by hand, of which a day may have several. Everything    *)
(* else the host does is one read and one write of a row by its id: a      *)
(* step.                                                                   *)
(***************************************************************************)
EXTENDS Naturals, FiniteSetsExt, SequencesExt

CONSTANTS
    Schedules,     \* ids of rent_schedules rows of the tenant
    Calls,         \* requests that generate charges
    None,          \* SQL NULL
    LastDay,       \* bound on the clock: days are 0 .. LastDay
    MonthFirsts,   \* the days that are the 1st of a month
    CadenceDays,   \* RENT_CADENCE_DAYS
    Terms,         \* [start, end, cadence, amount] of the schedules a host enters
    EndDates,      \* end dates a host may move a schedule to
    OneOffs,       \* [due, amount] of the charges a host may enter by hand
    PaymentLists,  \* payments attributed to the tenant, oldest first
    MaxEdits       \* bound on what the host enters or changes

Days == 0 .. LastDay

ASSUME ConstantsAssumption ==
    /\ None \notin Schedules /\ None \notin Calls /\ None \notin Nat
    /\ LastDay \in Nat
    /\ MonthFirsts \subseteq Nat /\ 0 \in MonthFirsts
    /\ \E f \in MonthFirsts : f > LastDay
    /\ CadenceDays \in [DOMAIN CadenceDays -> Nat \ {0}]
    /\ "monthly" \notin DOMAIN CadenceDays
    /\ Terms \subseteq [start : Days, end : Days \union {None},
                        cadence : {"monthly"} \union DOMAIN CadenceDays, amount : Nat]
    /\ \A t \in Terms : t.end # None => t.end >= t.start
    /\ EndDates \subseteq Days \union {None}
    /\ OneOffs \subseteq [due : Days, amount : Nat]
    /\ PaymentLists \subseteq Seq(Nat \ {0})
    /\ MaxEdits \in Nat

VARIABLES
    today,       \* the host's date
    schedules,   \* schedules[s]: the row, "absent" before it is inserted
    charges,     \* the live rows of rent_charges
    calls,       \* calls[c]: what the request has read so far
    edits,       \* how often the host has entered or changed something
    raced        \* a schedule was saved that had been checked against old rows

vars == <<today, schedules, charges, calls, edits, raced>>

-----------------------------------------------------------------------------
ScheduleType ==
    [status : {"absent", "live", "deleted"}, start : Days, end : Days \union {None},
     cadence : {"monthly"} \union DOMAIN CadenceDays, amount : Nat]

(* number tells the one-offs apart (schedule None), which may be alike in  *)
(* everything but their ids.                                               *)
ChargeType ==
    {x \in [schedule : Schedules \union {None}, start : Days, end : Nat,
            amount : Nat, waived : BOOLEAN, number : 0 .. MaxEdits] :
        x.schedule = None \/ x.number = 0}

(* own, row: the schedule the request writes, and how. seen: the schedules *)
(* it has read. inserts, moves, deletes: what it has decided to write.     *)
(* checked: no schedule was saved since it looked for overlaps. alone:     *)
(* nothing at all was committed since it began.                            *)
CallType ==
    [at : {"idle", "saving", "loading", "writing"},
     own : Schedules \union {None}, row : ScheduleType, through : Days,
     seen : [Schedules -> ScheduleType],
     inserts : SUBSET ChargeType, moves : SUBSET ChargeType,
     deletes : SUBSET (Schedules \X Days \X {0}),
     checked : BOOLEAN, alone : BOOLEAN]

NoSchedule == [status |-> "absent", start |-> 0, end |-> None,
               cadence |-> "monthly", amount |-> 0]

NothingSeen == [s \in Schedules |-> NoSchedule]

NoCall == [at |-> "idle", own |-> None, row |-> NoSchedule, through |-> 0,
           seen |-> NothingSeen, inserts |-> {}, moves |-> {}, deletes |-> {},
           checked |-> TRUE, alone |-> TRUE]

Charge(s, begin, finish, amount) ==
    [schedule |-> s, start |-> begin, end |-> finish, amount |-> amount,
     waived |-> FALSE, number |-> 0]

(* What tells one row from another: by the unique index no two charges of  *)
(* a schedule begin on one day.                                            *)
Key(x) == <<x.schedule, x.start, x.number>>

Live(s, rows) == rows[s].status = "live"

-----------------------------------------------------------------------------
(* rent_period_math. A period is named by a day it contains.               *)

(* The whole period around day d, wherever the schedule sits in it.        *)
NaturalBounds(s, d) ==
    IF s.cadence = "monthly"
      THEN [first |-> Max({f \in MonthFirsts : f <= d}),
            last |-> Min({f \in MonthFirsts : f > d}) - 1]
      ELSE LET span == CadenceDays[s.cadence]
               first == s.start + span * ((d - s.start) \div span)
           IN  [first |-> first, last |-> first + span - 1]

(* full * billed / whole, rounded half up to the cent.                     *)
ProratedAmount(full, billed, whole) == (2 * full * billed + whole) \div (2 * whole)

(* What the schedule bills for the period around day d.                    *)
BilledPeriod(s, d) ==
    LET whole == NaturalBounds(s, d)
        begin == Max({whole.first, s.start})
        finish == IF s.end = None THEN whole.last ELSE Min({whole.last, s.end})
    IN  [start |-> begin, end |-> finish,
         amount |-> ProratedAmount(s.amount, finish - begin + 1,
                                   whole.last - whole.first + 1)]

(* Every period begun by day through.                                      *)
BilledPeriods(s, through) ==
    LET horizon == IF s.end = None THEN through ELSE Min({through, s.end})
    IN  {BilledPeriod(s, d) : d \in s.start .. horizon}

-----------------------------------------------------------------------------
(* rent_allocation: charges oldest first, payments oldest first.           *)

Remaining(x, taken) == IF x.waived THEN 0 ELSE x.amount - taken

(* A one-off falls due on its day, rent on the first day of its period.    *)
SettlementOrder(shown) ==
    LET order[rows \in SUBSET shown] ==
            IF rows = {} THEN <<>>
            ELSE LET x == CHOOSE x \in rows : \A y \in rows : x.start <= y.start
                 IN  <<x>> \o order[rows \ {x}]
    IN  order[shown]

(* Wrong on purpose: the charge that took the last of the payment is left  *)
(* behind, filled or not.                                                  *)
PassesTheLast(left, cursor, n) == Min({i \in cursor .. n : left[i] = 0} \union {n}) + 1

(* Where the cursor stops: at the charge with which the payment is used    *)
(* up, the next payment may fill it.                                       *)
StopsAt(left, cursor, n) == Min({i \in cursor .. n : left[i] = 0} \union {n + 1})

(* One payment goes to the charges from the cursor on: left[i] of it goes  *)
(* on past charge i.                                                       *)
ApplyPayment(order, taken, cursor, amount) ==
    LET left[i \in 0 .. Len(order)] ==
            IF i < cursor THEN amount
            ELSE LET had == left[i - 1]
                 IN  had - Min({had, Remaining(order[i], taken[i])})
    IN  [taken |-> [i \in DOMAIN order |-> taken[i] + left[i - 1] - left[i]],
         left |-> left[Len(order)],
         cursor |-> StopsAt(left, cursor, Len(order))]

(* unapplied: what no charge could take, of all the payments together.     *)
Allocate(order, payments) ==
    LET after[k \in 0 .. Len(payments)] ==
            IF k = 0 THEN [taken |-> [i \in DOMAIN order |-> 0], unapplied |-> 0, cursor |-> 1]
            ELSE LET had == after[k - 1]
                     done == ApplyPayment(order, had.taken, had.cursor, payments[k])
                 IN  [taken |-> done.taken, unapplied |-> had.unapplied + done.left,
                      cursor |-> done.cursor]
    IN  after[Len(payments)]

(* What a ledger as of a day shows: rent begun by then, and every one-off. *)
Shown(asOf, rows) == {x \in rows : x.schedule = None \/ x.start <= asOf}

-----------------------------------------------------------------------------
(* Reconciling one schedule s, of which the charges existing were found.   *)

(* Wrong on purpose: only periods begun by the date of the call. *)
HorizonOfCall(existing, through) == through

(* Charges written past the date of the call are reconciled too.           *)
Horizon(existing, through) == Max({through} \union {x.start : x \in existing})

MissingPeriods(s, existing, through) ==
    {p \in BilledPeriods(s, Horizon(existing, through)) :
        p.start <= through /\ \A x \in existing : x.start # p.start}

(* Wrong on purpose: a period that has a charge is left as it is. *)
NeverMoved(s, existing, through) == {}

(* Unwaived charges whose period or amount the schedule bills differently. *)
MovedPeriods(s, existing, through) ==
    {p \in BilledPeriods(s, Horizon(existing, through)) :
        \E x \in existing : /\ x.start = p.start /\ ~ x.waived
                            /\ x.end # p.end \/ x.amount # p.amount}

(* Wrong on purpose: waived charges go with the others. *)
RetiredThoughWaived(s, existing, through) ==
    {x \in existing : \A p \in BilledPeriods(s, Horizon(existing, through)) : p.start # x.start}

(* Unwaived charges of periods the schedule does not bill any more.        *)
Retired(s, existing, through) ==
    {x \in existing :
        /\ ~ x.waived
        /\ \A p \in BilledPeriods(s, Horizon(existing, through)) : p.start # x.start}

AsCharges(s, periods) == {Charge(s, p.start, p.end, p.amount) : p \in periods}

FoundForSchedule(s) == {x \in charges : x.schedule = s}

(* Wrong on purpose: there is no unique index. *)
NeverDuplicates(c) == FALSE

(* uq_rent_charges_schedule_period, over the charges of schedules.         *)
Duplicates(c) == \E x \in charges, y \in calls[c].inserts : Key(x) = Key(y)

-----------------------------------------------------------------------------
(* Two inclusive ranges, the end of either may be open.                    *)

(* Wrong on purpose: a schedule may begin on the day another one ends. *)
OverlapsInside(a, b) ==
    /\ a.end # None => a.end > b.start
    /\ b.end # None => b.end > a.start

Overlaps(a, b) ==
    /\ a.end # None => a.end >= b.start
    /\ b.end # None => b.end >= a.start

NoOverlap(s, terms) ==
    \A t \in Schedules \ {s} : Live(t, schedules) => ~ Overlaps(terms, schedules[t])

(* Rows were committed, by call c or by none of the calls, schedules among *)
(* them if saved. The charges with the given keys are deleted: what        *)
(* another call writes to them by id is seen by nobody.                    *)
Disturbed(c, deleted, saved) ==
    [d \in Calls |->
        IF d = c THEN NoCall
        ELSE IF calls[d].at = "idle" THEN calls[d]
        ELSE [calls[d] EXCEPT !.alone = FALSE,
                              !.checked = @ /\ ~ saved,
                              !.moves = {x \in @ : Key(x) \notin deleted},
                              !.deletes = @ \ deleted]]

-----------------------------------------------------------------------------
Init ==
    /\ today = 0
    /\ schedules = [s \in Schedules |-> NoSchedule]
    /\ charges = {}
    /\ calls = [c \in Calls |-> NoCall]
    /\ edits = 0
    /\ raced = FALSE

NextDay ==
    /\ today < LastDay
    /\ today' = today + 1
    /\ UNCHANGED <<schedules, charges, calls, edits, raced>>

Begin(c, where, own, row, through, seen) ==
    /\ calls[c].at = "idle"
    /\ calls' = [calls EXCEPT ![c] = [NoCall EXCEPT !.at = where, !.own = own, !.row = row,
                                                    !.through = through, !.seen = seen]]
    /\ UNCHANGED <<today, schedules, charges, raced>>

Edit == edits < MaxEdits /\ edits' = edits + 1

(* The transaction that inserts schedule s, up to its reading the          *)
(* schedules. An overlap ends it with nothing written.                     *)
CreateSchedule(c, s, terms) ==
    LET row == [status |-> "live", start |-> terms.start, end |-> terms.end,
                cadence |-> terms.cadence, amount |-> terms.amount]
    IN  /\ schedules[s].status = "absent"
        /\ Edit
        /\ \A d \in Calls : calls[d].own # s
        /\ NoOverlap(s, row)
        /\ Begin(c, "loading", s, row, today, [schedules EXCEPT ![s] = row])

(* Only the end date, the grace days and the notes can be edited.          *)
UpdateSchedule(c, s, end) ==
    LET row == [schedules[s] EXCEPT !.end = end] IN
    /\ Live(s, schedules)
    /\ Edit
    /\ end # None => end >= row.start
    /\ NoOverlap(s, row)
    /\ Begin(c, "saving", s, row, today, [schedules EXCEPT ![s] = row])

(* A transaction holds the lock on a schedule's row from its UPDATE on.    *)
Unlocked(s) == \A d \in Calls : calls[d].own = s => calls[d].at \notin {"loading", "writing"}

(* The UPDATE, once nobody else is writing the row; the other schedules    *)
(* stay as the session has loaded them.                                    *)
UpdateTerms(c) ==
    LET s == calls[c].own IN
    /\ calls[c].at = "saving"
    /\ Unlocked(s)
    /\ calls' = [calls EXCEPT ![c].at = "loading",
                              ![c].seen[s].status = schedules[s].status]
    /\ UNCHANGED <<today, schedules, charges, edits, raced>>

GetLedger(c, asOf) ==
    /\ asOf <= today
    /\ Begin(c, "loading", None, NoSchedule, asOf, schedules)
    /\ UNCHANGED edits

(* The charges of every schedule that is alive, and what to write.         *)
ListForSchedule(c) ==
    LET seen == calls[c].seen
        through == calls[c].through
        alive == {s \in Schedules : Live(s, seen)}
        found == [s \in alive |-> FoundForSchedule(s)]
    IN  /\ calls[c].at = "loading"
        /\ calls' = [calls EXCEPT
              ![c].at = "writing",
              ![c].seen = NothingSeen,
              ![c].inserts = UNION {AsCharges(s, MissingPeriods(seen[s], found[s], through)) :
                                        s \in alive},
              ![c].moves = UNION {AsCharges(s, MovedPeriods(seen[s], found[s], through)) :
                                        s \in alive},
              ![c].deletes = UNION {{Key(x) : x \in Retired(seen[s], found[s], through)} :
                                        s \in alive}]
        /\ UNCHANGED <<today, schedules, charges, edits, raced>>

(* The own schedule's row is inserted, or gets its new end date and keeps  *)
(* whatever else has become of it.                                         *)
SavedSchedules(c) ==
    LET s == calls[c].own IN
    IF s = None THEN schedules
    ELSE IF schedules[s].status = "absent" THEN [schedules EXCEPT ![s] = calls[c].row]
    ELSE [schedules EXCEPT ![s].end = calls[c].row.end]

Moved(x, moves) ==
    IF \E y \in moves : Key(y) = Key(x)
      THEN LET y == CHOOSE y \in moves : Key(y) = Key(x)
           IN  [x EXCEPT !.end = y.end, !.amount = y.amount]
      ELSE x

Commit(c) ==
    /\ calls[c].at = "writing"
    /\ ~ Duplicates(c)
    /\ charges' = {Moved(x, calls[c].moves) : x \in {y \in charges : Key(y) \notin calls[c].deletes}}
                    \union calls[c].inserts
    /\ schedules' = SavedSchedules(c)
    /\ raced' = (raced \/ (calls[c].own # None /\ ~ calls[c].checked))
    /\ calls' = IF charges' = charges /\ schedules' = schedules
                  THEN [calls EXCEPT ![c] = NoCall]
                  ELSE Disturbed(c, calls[c].deletes, schedules' # schedules)
    /\ UNCHANGED <<today, edits>>

(* The insert of another request came first: IntegrityError, and all of it *)
(* is rolled back. A request that dies has written nothing either.         *)
RollBack(c) ==
    /\ calls[c].at = "writing"
    /\ Duplicates(c)
    /\ calls' = [calls EXCEPT ![c] = NoCall]
    /\ UNCHANGED <<today, schedules, charges, edits, raced>>

-----------------------------------------------------------------------------
(* Requests that generate nothing.                                         *)

(* The charges keep the id of the deleted schedule.                        *)
DeleteSchedule(s) ==
    /\ Live(s, schedules)
    /\ Unlocked(s)
    /\ Edit
    /\ schedules' = [schedules EXCEPT ![s].status = "deleted"]
    /\ calls' = Disturbed(None, {}, TRUE)
    /\ UNCHANGED <<today, charges, raced>>

(* A one-off may repeat another of the same day: "a host may legitimately  *)
(* add two late fees on one day" (rent_charge).                            *)
AddCharge(o) ==
    /\ Edit
    /\ charges' = charges \union
          {[Charge(None, o.due, o.due, o.amount) EXCEPT !.number = edits']}
    /\ calls' = Disturbed(None, {}, FALSE)
    /\ UNCHANGED <<today, schedules, raced>>

SetWaiver(x, waived) ==
    /\ x.waived # waived
    /\ Edit
    /\ charges' = (charges \ {x}) \union {[x EXCEPT !.waived = waived]}
    /\ calls' = Disturbed(None, {}, FALSE)
    /\ UNCHANGED <<today, schedules, raced>>

DeleteCharge(x) ==
    /\ Edit
    /\ charges' = charges \ {x}
    /\ calls' = Disturbed(None, {Key(x)}, FALSE)
    /\ UNCHANGED <<today, schedules, raced>>

-----------------------------------------------------------------------------
Request(c) ==
    \/ \E s \in Schedules, terms \in Terms : CreateSchedule(c, s, terms)
    \/ \E s \in Schedules, end \in EndDates : UpdateSchedule(c, s, end)
    \/ \E asOf \in Days : GetLedger(c, asOf)
    \/ UpdateTerms(c) \/ ListForSchedule(c) \/ Commit(c) \/ RollBack(c)

Next ==
    \/ NextDay
    \/ \E c \in Calls : Request(c)
    \/ \E s \in Schedules : DeleteSchedule(s)
    \/ \E o \in OneOffs : AddCharge(o)
    \/ \E x \in charges : SetWaiver(x, TRUE) \/ SetWaiver(x, FALSE) \/ DeleteCharge(x)

Spec == Init /\ [][Next]_vars

-----------------------------------------------------------------------------
TypeOK ==
    /\ today \in Days
    /\ schedules \in [Schedules -> ScheduleType]
    /\ charges \subseteq ChargeType
    /\ \A x, y \in charges : Key(x) = Key(y) => x = y
    /\ \A x \in charges : x.number <= edits
    /\ calls \in [Calls -> CallType]
    /\ edits \in 0 .. MaxEdits
    /\ raced \in BOOLEAN

-----------------------------------------------------------------------------
(* What the ledger should say, stated by day.                              *)

BillsOn(s, d) == s.start <= d /\ (s.end # None => d <= s.end)

DaysOf(x) == x.start .. x.end

NearestCent(amount, full, billed, whole) ==
    /\ 2 * amount * whole <= 2 * full * billed + whole
    /\ 2 * full * billed + whole < 2 * (amount + 1) * whole

(* The unwaived charges of schedule s cover no day it does not bill, and   *)
(* are worth their share of the period; and of the periods begun by        *)
(* through every billed day is covered, or the host has waived the period. *)
RightlyBilled(s, row, through, rows) ==
    LET own == {x \in rows : x.schedule = s}
        whole(d) == NaturalBounds(row, d)
    IN  /\ \A x \in {y \in own : ~ y.waived} :
             /\ \A d \in DaysOf(x) : BillsOn(row, d) /\ whole(d) = whole(x.start)
             /\ NearestCent(x.amount, row.amount, x.end - x.start + 1,
                            whole(x.start).last - whole(x.start).first + 1)
        /\ \A d \in row.start .. whole(through).last :
             BillsOn(row, d) /\ Max({whole(d).first, row.start}) <= through
               => \E x \in own : \/ d \in DaysOf(x)
                                 \/ x.waived /\ whole(x.start) = whole(d)

(* The transaction of c commits. *)
Answered(c) == calls[c].at = "writing" /\ calls'[c].at = "idle" /\ ~ Duplicates(c)

(* A request nobody disturbed never runs into the unique index, which is   *)
(* there for requests that cross, and leaves the ledger right: whatever    *)
(* requests on stale rows, edits and deletions came before it, every live  *)
(* schedule is billed as it stands: "no drift between a schedule and its   *)
(* charges" (rent_ledger_service).                                         *)
ReadsHeal ==
    [][\A c \in Calls : calls[c].alone =>
          /\ ~ RollBack(c)
          /\ Answered(c) => \A s \in Schedules : Live(s, schedules') =>
                RightlyBilled(s, schedules'[s], calls[c].through, charges')]_vars

(* No day is charged twice in a ledger nobody disturbed, except for rent   *)
(* a deleted schedule has left behind, or after two schedules were saved   *)
(* at once.                                                                *)
DaysBilledOnce ==
    [][\A c \in Calls : Answered(c) /\ calls[c].alone =>
          \A x, y \in charges' :
              /\ x # y /\ ~ x.waived /\ ~ y.waived
              /\ x.schedule # None /\ y.schedule # None
              /\ DaysOf(x) \intersect DaysOf(y) # {}
              => \/ raced'
                 \/ ~ Live(x.schedule, schedules') \/ ~ Live(y.schedule, schedules')]_vars

(* Reading a ledger, as of whatever day, deletes no charge but unwaived    *)
(* rent for days after the schedule's end: a read as of a past date takes  *)
(* nothing a later one has written.                                        *)
ReadsKeepHistory ==
    [][\A c \in Calls : Answered(c) /\ calls[c].own = None /\ calls[c].alone =>
          \A x \in charges : (\A y \in charges' : Key(y) # Key(x)) =>
              /\ x.schedule # None /\ ~ x.waived
              /\ ~ BillsOn(schedules[x.schedule], x.start)]_vars

(* A charge the host has waived goes only when the host deletes it, or     *)
(* with a request that had read the charges before ("regenerating would    *)
(* quietly undo it").                                                      *)
WaiversStand ==
    [][\A x \in charges : x.waived /\ (\A y \in charges' : Key(y) # Key(x)) =>
          \/ DeleteCharge(x)
          \/ \E c \in Calls : Answered(c) /\ ~ calls[c].alone]_vars

SumTo(amounts, n) == SumFunctionOnSet(amounts, 1 .. n)

(* In the ledger of any day, all payments together fill the charges shown  *)
(* in order of their due dates, none short while a later one has money,    *)
(* and what is left when all are full is credit: no charge is passed over, *)
(* no cent is lost or used twice. (Looked at whenever no request is under  *)
(* way.)                                                                   *)
SettledOldestFirst ==
    (\A c \in Calls : calls[c].at = "idle") =>
      \A asOf \in 0 .. today, payments \in PaymentLists :
        LET shown == Shown(asOf, charges)
            order == SettlementOrder(shown)
            owed == [i \in DOMAIN order |-> IF order[i].waived THEN 0 ELSE order[i].amount]
            before(i) == SumTo(owed, i - 1)
            paid == SumTo(payments, Len(payments))
            result == Allocate(order, payments)
        IN  /\ {order[i] : i \in DOMAIN order} = shown
            /\ \A i, j \in DOMAIN order : i < j =>
                  order[i] # order[j] /\ order[i].start <= order[j].start
            /\ \A i \in DOMAIN order : result.taken[i] =
                 IF paid <= before(i) THEN 0 ELSE Min({owed[i], paid - before(i)})
            /\ result.unapplied = IF paid <= SumTo(owed, Len(order)) THEN 0
                                  ELSE paid - SumTo(owed, Len(order))
=============================================================================
