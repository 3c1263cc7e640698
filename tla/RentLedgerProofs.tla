-------------------------- MODULE RentLedgerProofs --------------------------
(***************************************************************************)
(* What TLAPS proves of RentLedger, for every calendar, every cadence, all *)
(* schedules and any number of requests.                                   *)
(*                                                                         *)
(* The arithmetic comes first: the periods of a schedule divide its days,  *)
(* and the billed part of a period is worth its share to the nearest cent. *)
(* Then what a request decides from the schedules and charges it has read, *)
(* as operators of these alone; and last the transactions.                 *)
(***************************************************************************)
EXTENDS RentLedger, TLAPS

WF == INSTANCE WellFoundedInduction

-----------------------------------------------------------------------------
(* Numbers.                                                                *)

LEMMA LeastOf ==
    ASSUME NEW T, T \subseteq Nat, T # {}
    PROVE  \E x \in T : \A y \in T : x <= y
<1> DEFINE R == WF!OpToRel(<, Nat)
<1>1. WF!IsWellFoundedOn(R, Nat)
  BY WF!NatLessThanWellFounded
<1>2. \A x, y \in Nat : y < x => <<y, x>> \in R
  BY DEF WF!OpToRel
<1> HIDE DEF R
<1>3. PICK x \in T : \A y \in T : ~ (<<y, x>> \in R)
  BY <1>1, WF!WFMin
<1>4. x \in Nat /\ \A y \in T : y \in Nat /\ ~ (y < x)
  BY <1>2, <1>3
<1> QED
  BY <1>4

LEMMA GreatestOf ==
    ASSUME NEW T, T \subseteq Nat, T # {}, NEW b \in Nat, \A y \in T : y <= b
    PROVE  \E x \in T : \A y \in T : x >= y
<1> DEFINE Slack == {b - y : y \in T}
<1>1. \A y \in T : y \in Nat /\ y <= b /\ b - y \in Nat
  OBVIOUS
<1>2. Slack \subseteq Nat
  BY <1>1
<1>3. Slack # {}
  OBVIOUS
<1>4. PICK z \in Slack : \A w \in Slack : z <= w
  BY <1>2, <1>3, LeastOf
<1>5. PICK x \in T : z = b - x
  BY <1>4
<1>6. \A y \in T : b - x <= b - y
  BY <1>4, <1>5
<1> QED
  BY <1>1, <1>6

LEMMA MaxIs ==
    ASSUME NEW T, T \subseteq Nat, NEW x \in T, \A y \in T : x >= y
    PROVE  Max(T) = x
<1>1. Max(T) \in T /\ \A y \in T : Max(T) >= y
  BY DEF Max
<1>2. PICK m : m = Max(T)
  OBVIOUS
<1>3. m \in Nat /\ x \in Nat /\ x >= m /\ m >= x
  BY <1>1, <1>2
<1> QED
  BY <1>2, <1>3

LEMMA MinIs ==
    ASSUME NEW T, T \subseteq Nat, NEW x \in T, \A y \in T : x =< y
    PROVE  Min(T) = x
<1>1. Min(T) \in T /\ \A y \in T : Min(T) =< y
  BY DEF Min
<1>2. PICK m : m = Min(T)
  OBVIOUS
<1>3. m \in Nat /\ x \in Nat /\ x =< m /\ m =< x
  BY <1>1, <1>2
<1> QED
  BY <1>2, <1>3

LEMMA OfTwo ==
    ASSUME NEW a \in Nat, NEW b \in Nat
    PROVE  /\ Max({a, b}) = IF a >= b THEN a ELSE b
           /\ Min({a, b}) = IF a <= b THEN a ELSE b
<1>1. CASE a >= b
  <2>1. Max({a, b}) = a
    BY <1>1, MaxIs
  <2>2. Min({a, b}) = b
    BY <1>1, MinIs
  <2> QED
    BY <1>1, <2>1, <2>2
<1>2. CASE ~ (a >= b)
  <2>1. Max({a, b}) = b
    BY <1>2, MaxIs
  <2>2. Min({a, b}) = a
    BY <1>2, MinIs
  <2> QED
    BY <1>2, <2>1, <2>2
<1> QED
  BY <1>1, <1>2

LEMMA DivBounds ==
    ASSUME NEW a \in Int, NEW b \in Nat \ {0}
    PROVE  /\ a \div b \in Int
           /\ b * (a \div b) <= a /\ a < b * (a \div b) + b
OBVIOUS

LEMMA DivUnique ==
    ASSUME NEW a \in Int, NEW c \in Int, NEW b \in Nat \ {0},
           b * (a \div b) <= c, c < b * (a \div b) + b
    PROVE  c \div b = a \div b
BY DivBounds

-----------------------------------------------------------------------------
(* The calendar. The period around a day holds the day, and is the period  *)
(* around each of its days.                                                *)

(* The calendar goes on after day d.                                       *)
InReach(s, d) ==
    /\ d \in Nat /\ s.start <= d
    /\ s.cadence = "monthly" => \E f \in MonthFirsts : f > d

LEMMA ScheduleFields ==
    ASSUME NEW s \in ScheduleType
    PROVE  /\ s.start \in Nat /\ s.start \in Days /\ s.amount \in Nat
           /\ s.end # None => s.end \in Nat /\ s.end \in Days
           /\ s.cadence # "monthly" => CadenceDays[s.cadence] \in Nat \ {0}
BY ConstantsAssumption DEF ScheduleType, Days

LEMMA DaysInReach ==
    ASSUME NEW s \in ScheduleType, NEW d \in Days, s.start <= d
    PROVE  InReach(s, d)
BY ConstantsAssumption DEF InReach, Days

LEMMA MonthAround ==
    ASSUME NEW d \in Nat, \E f \in MonthFirsts : f > d
    PROVE  \E F, G \in MonthFirsts :
              /\ F = Max({f \in MonthFirsts : f <= d}) /\ G = Min({f \in MonthFirsts : f > d})
              /\ F \in Nat /\ G \in Nat /\ F <= d /\ d < G
              /\ \A f \in MonthFirsts : f <= F \/ f >= G
<1> DEFINE past == {f \in MonthFirsts : f <= d}
           future == {f \in MonthFirsts : f > d}
<1>1. MonthFirsts \subseteq Nat /\ 0 \in MonthFirsts
  BY ConstantsAssumption
<1>2. past \subseteq Nat /\ past # {} /\ \A y \in past : y <= d
  <2>1. 0 \in past
    BY <1>1
  <2> QED
    BY <1>1, <2>1
<1>3. future \subseteq Nat /\ future # {}
  BY <1>1
<1>4. PICK F \in past : \A y \in past : F >= y
  BY <1>2, GreatestOf
<1>5. PICK G \in future : \A y \in future : G <= y
  BY <1>3, LeastOf
<1>6. Max(past) = F /\ Min(future) = G
  BY <1>2, <1>3, <1>4, <1>5, MaxIs, MinIs
<1>7. ASSUME NEW f \in MonthFirsts PROVE f <= F \/ f >= G
  <2>1. f \in Nat
    BY <1>1
  <2>2. f <= d => F >= f
    BY <1>4
  <2>3. f > d => G <= f
    BY <1>5
  <2>4. F \in Nat /\ G \in Nat
    BY <1>1
  <2> QED
    BY <2>1, <2>2, <2>3, <2>4
<1> QED
  BY <1>1, <1>4, <1>5, <1>6, <1>7

LEMMA MonthShared ==
    ASSUME NEW d \in Nat, NEW e \in Nat, NEW F \in Nat, NEW G \in Nat,
           F \in MonthFirsts, G \in MonthFirsts, F <= e, e < G,
           \A f \in MonthFirsts : f <= F \/ f >= G
    PROVE  /\ F = Max({f \in MonthFirsts : f <= e})
           /\ G = Min({f \in MonthFirsts : f > e})
<1>0. MonthFirsts \subseteq Nat
  BY ConstantsAssumption
<1>1. F \in {f \in MonthFirsts : f <= e} /\ \A y \in {f \in MonthFirsts : f <= e} : F >= y
  BY <1>0
<1>2. G \in {f \in MonthFirsts : f > e} /\ \A y \in {f \in MonthFirsts : f > e} : G <= y
  BY <1>0
<1>3. {f \in MonthFirsts : f <= e} \subseteq Nat /\ {f \in MonthFirsts : f > e} \subseteq Nat
  BY <1>0
<1> QED
  BY <1>1, <1>2, <1>3, MaxIs, MinIs

LEMMA PeriodHolds ==
    ASSUME NEW s \in ScheduleType, NEW d, InReach(s, d)
    PROVE  /\ NaturalBounds(s, d).first \in Nat /\ NaturalBounds(s, d).last \in Nat
           /\ NaturalBounds(s, d).first <= d /\ d <= NaturalBounds(s, d).last
<1> USE ScheduleFields DEF InReach
<1>1. CASE s.cadence = "monthly"
  <2>1. PICK F, G \in MonthFirsts :
              /\ F = Max({f \in MonthFirsts : f <= d}) /\ G = Min({f \in MonthFirsts : f > d})
              /\ F \in Nat /\ G \in Nat /\ F <= d /\ d < G
    BY <1>1, MonthAround
  <2>2. NaturalBounds(s, d) = [first |-> F, last |-> G - 1]
    BY <1>1, <2>1 DEF NaturalBounds
  <2> QED
    BY <2>1, <2>2
<1>2. CASE s.cadence # "monthly"
  <2>1. PICK span \in Nat \ {0} : span = CadenceDays[s.cadence]
    BY <1>2
  <2>2. PICK q \in Int : q = (d - s.start) \div span
    BY <2>1, DivBounds
  <2>3. span * q <= d - s.start /\ d - s.start < span * q + span
    <3>1. d - s.start \in Int
      OBVIOUS
    <3> QED
      BY <2>1, <2>2, <3>1, DivBounds
  <2>4. PICK m \in Int : m = span * q
    BY <2>1, <2>2
  <2>5. NaturalBounds(s, d) = [first |-> s.start + m, last |-> s.start + m + span - 1]
    BY <1>2, <2>1, <2>2, <2>4 DEF NaturalBounds
  <2>6. m \in Nat
    <3>1. q \in Nat
      BY <2>1, <2>2
    <3> QED
      BY <2>1, <2>4, <3>1
  <2> QED
    BY <2>1, <2>3, <2>4, <2>5, <2>6
<1> QED
  BY <1>1, <1>2

LEMMA PeriodShared ==
    ASSUME NEW s \in ScheduleType, NEW d, InReach(s, d),
           NEW e \in Nat, s.start <= e,
           NaturalBounds(s, d).first <= e, e <= NaturalBounds(s, d).last
    PROVE  InReach(s, e) /\ NaturalBounds(s, e) = NaturalBounds(s, d)
<1> USE ScheduleFields DEF InReach
<1>1. CASE s.cadence = "monthly"
  <2>1. PICK F, G \in MonthFirsts :
              /\ F = Max({f \in MonthFirsts : f <= d}) /\ G = Min({f \in MonthFirsts : f > d})
              /\ F \in Nat /\ G \in Nat /\ F <= d /\ d < G
              /\ \A f \in MonthFirsts : f <= F \/ f >= G
    BY <1>1, MonthAround
  <2>2. NaturalBounds(s, d) = [first |-> F, last |-> G - 1]
    BY <1>1, <2>1 DEF NaturalBounds
  <2>3. F <= e /\ e < G
    BY <2>1, <2>2
  <2>4. F = Max({f \in MonthFirsts : f <= e}) /\ G = Min({f \in MonthFirsts : f > e})
    BY <2>1, <2>3, MonthShared
  <2>5. NaturalBounds(s, e) = [first |-> F, last |-> G - 1]
    BY <1>1, <2>4 DEF NaturalBounds
  <2> QED
    BY <2>1, <2>2, <2>3, <2>5
<1>2. CASE s.cadence # "monthly"
  <2>1. PICK span \in Nat \ {0} : span = CadenceDays[s.cadence]
    BY <1>2
  <2>2. PICK q \in Int : q = (d - s.start) \div span
    BY <2>1, DivBounds
  <2>3. NaturalBounds(s, d) = [first |-> s.start + span * q, last |-> s.start + span * q + span - 1]
    BY <1>2, <2>1, <2>2 DEF NaturalBounds
  <2>4. span * q <= e - s.start /\ e - s.start < span * q + span
    <3>1. PICK m \in Int : m = span * q
      BY <2>1, <2>2
    <3> QED
      BY <2>1, <2>3, <3>1
  <2>5. (e - s.start) \div span = q
    <3>1. d - s.start \in Int /\ e - s.start \in Int
      OBVIOUS
    <3> QED
      BY <2>1, <2>2, <2>4, <3>1, DivUnique
  <2>6. NaturalBounds(s, e) = [first |-> s.start + span * q, last |-> s.start + span * q + span - 1]
    BY <1>2, <2>1, <2>5 DEF NaturalBounds
  <2> QED
    BY <1>2, <2>3, <2>6
<1> QED
  BY <1>1, <1>2

-----------------------------------------------------------------------------
(* What a schedule bills: the days of a period it bills at all, for their  *)
(* share of the rent to the nearest cent.                                  *)

LEMMA Prorated ==
    ASSUME NEW full \in Nat, NEW billed \in Nat, NEW whole \in Nat \ {0}
    PROVE  /\ ProratedAmount(full, billed, whole) \in Nat
           /\ NearestCent(ProratedAmount(full, billed, whole), full, billed, whole)
<1>1. PICK n \in Nat : n = 2 * full * billed + whole
  OBVIOUS
<1>2. PICK b \in Nat \ {0} : b = 2 * whole
  OBVIOUS
<1>3. PICK a \in Int : a = n \div b
  BY <1>1, <1>2
<1>4. b * a <= n /\ n < b * a + b
  <2>1. n \in Int
    OBVIOUS
  <2> QED
    BY <1>3, <2>1, DivBounds
<1>5. a \in Nat
  <2>1. ASSUME a < 0 PROVE b * a + b <= 0
    BY <1>2, <1>3, <2>1
  <2> QED
    BY <1>1, <1>3, <1>4, <2>1
<1>6. ProratedAmount(full, billed, whole) = a
  BY <1>1, <1>2, <1>3 DEF ProratedAmount
<1>7. 2 * a * whole = b * a /\ 2 * (a + 1) * whole = b * a + b
  BY <1>2, <1>3
<1> QED
  BY <1>1, <1>4, <1>5, <1>6, <1>7 DEF NearestCent

LEMMA SameBounds ==
    ASSUME NEW s, NEW d, NEW e, NaturalBounds(s, d) = NaturalBounds(s, e)
    PROVE  BilledPeriod(s, d) = BilledPeriod(s, e)
BY DEF BilledPeriod

(* The record a period is.                                                 *)
PeriodOf(s, d, p) ==
    /\ p.start \in Nat /\ s.start <= p.start /\ NaturalBounds(s, d).first <= p.start
    /\ p.start \in {NaturalBounds(s, d).first, s.start}
    /\ p.start <= d /\ d <= p.end
    /\ p.end \in Nat /\ p.end <= NaturalBounds(s, d).last
    /\ s.end # None => p.end <= s.end
    /\ p.end = NaturalBounds(s, d).last \/ (s.end # None /\ p.end = s.end)
    /\ p.amount \in Nat
    /\ NearestCent(p.amount, s.amount, p.end - p.start + 1,
                   NaturalBounds(s, d).last - NaturalBounds(s, d).first + 1)

LEMMA BilledIs ==
    ASSUME NEW s \in ScheduleType, NEW d, InReach(s, d), BillsOn(s, d)
    PROVE  PeriodOf(s, d, BilledPeriod(s, d))
<1> DEFINE w == NaturalBounds(s, d)
           p == BilledPeriod(s, d)
<1>1. PICK first \in Nat : first = w.first
  BY PeriodHolds
<1>2. PICK last \in Nat : last = w.last
  BY PeriodHolds
<1>3. first <= d /\ d <= last /\ d \in Nat /\ s.start <= d
  BY <1>1, <1>2, PeriodHolds DEF InReach
<1>4. s.start \in Nat /\ s.amount \in Nat
      /\ (s.end # None => s.end \in Nat /\ d <= s.end)
  BY ScheduleFields DEF BillsOn
<1>5. PICK begin \in Nat : begin = IF first >= s.start THEN first ELSE s.start
  BY <1>4
<1>6. PICK finish \in Nat : finish = IF s.end = None THEN last ELSE
                                    IF last <= s.end THEN last ELSE s.end
  BY <1>4
<1>7. Max({w.first, s.start}) = begin
  BY <1>1, <1>4, <1>5, OfTwo
<1>8. (IF s.end = None THEN w.last ELSE Min({w.last, s.end})) = finish
  BY <1>2, <1>4, <1>6, OfTwo
<1>9. PICK billed \in Nat : billed = finish - begin + 1
  BY <1>3, <1>4, <1>5, <1>6
<1>10. PICK whole \in Nat \ {0} : whole = last - first + 1
  BY <1>3
<1>11. /\ p.start = begin /\ p.end = finish
       /\ p.amount = ProratedAmount(s.amount, billed, whole)
  BY <1>1, <1>2, <1>7, <1>8, <1>9, <1>10 DEF BilledPeriod
<1> HIDE DEF p, w
<1>12. p.amount \in Nat /\ NearestCent(p.amount, s.amount, billed, whole)
  <2>1. s.amount \in Nat
    BY <1>4
  <2>2. /\ ProratedAmount(s.amount, billed, whole) \in Nat
        /\ NearestCent(ProratedAmount(s.amount, billed, whole), s.amount, billed, whole)
    BY <2>1, Prorated
  <2> QED
    BY <1>11, <2>2
<1>13. NearestCent(p.amount, s.amount, p.end - p.start + 1, w.last - w.first + 1)
  BY <1>1, <1>2, <1>9, <1>10, <1>11, <1>12
<1>14. /\ p.start \in Nat /\ s.start <= p.start /\ w.first <= p.start
       /\ p.start \in {w.first, s.start}
       /\ p.start <= d /\ d <= p.end
       /\ p.end \in Nat /\ p.end <= w.last
       /\ s.end # None => p.end <= s.end
       /\ p.end = w.last \/ (s.end # None /\ p.end = s.end)
  BY <1>1, <1>2, <1>3, <1>4, <1>5, <1>6, <1>11
<1> QED
  BY <1>12, <1>13, <1>14 DEF PeriodOf, p, w

(* A billed period is named by each of its days, and by its first one.     *)
LEMMA BilledByItsDays ==
    ASSUME NEW s \in ScheduleType, NEW d, InReach(s, d), BillsOn(s, d),
           NEW e \in Nat, BilledPeriod(s, d).start <= e, e <= BilledPeriod(s, d).end
    PROVE  /\ InReach(s, e) /\ BillsOn(s, e)
           /\ NaturalBounds(s, e) = NaturalBounds(s, d)
           /\ BilledPeriod(s, e) = BilledPeriod(s, d)
<1>1. PeriodOf(s, d, BilledPeriod(s, d))
  BY BilledIs
<1>2. PICK first \in Nat : first = NaturalBounds(s, d).first
  BY PeriodHolds
<1>3. PICK last \in Nat : last = NaturalBounds(s, d).last
  BY PeriodHolds
<1>4. s.start \in Nat /\ (s.end # None => s.end \in Nat)
  BY ScheduleFields
<1>5. s.start <= e /\ first <= e /\ e <= last /\ (s.end # None => e <= s.end)
  BY <1>1, <1>2, <1>3, <1>4 DEF PeriodOf
<1>6. InReach(s, e) /\ NaturalBounds(s, e) = NaturalBounds(s, d)
  BY <1>2, <1>3, <1>5, PeriodShared
<1> QED
  BY <1>5, <1>6, SameBounds DEF BillsOn

LEMMA HorizonIs ==
    ASSUME NEW existing, existing \subseteq ChargeType, NEW through \in Days
    PROVE  /\ Horizon(existing, through) \in Days
           /\ through <= Horizon(existing, through)
           /\ \A x \in existing : x.start <= Horizon(existing, through)
<1> DEFINE T == {through} \union {x.start : x \in existing}
<1>1. \A y \in T : y \in Nat /\ y <= LastDay
  BY ConstantsAssumption DEF ChargeType, Days
<1>2. PICK m \in T : \A y \in T : m >= y
  <2>1. T \subseteq Nat /\ T # {} /\ LastDay \in Nat
    BY <1>1, ConstantsAssumption
  <2> QED
    BY <1>1, <2>1, GreatestOf
<1>3. Horizon(existing, through) = m
  <2>1. T \subseteq Nat
    BY <1>1
  <2> QED
    BY <1>2, <2>1, MaxIs DEF Horizon
<1>4. through \in T /\ \A x \in existing : x.start \in T
  OBVIOUS
<1> HIDE DEF T
<1>5. m \in Nat /\ m <= LastDay /\ LastDay \in Nat
  BY <1>1, ConstantsAssumption
<1>6. m \in Days
  BY <1>5 DEF Days
<1>7. \A y \in T : y <= m
  BY <1>1, <1>2
<1> QED
  BY <1>3, <1>4, <1>6, <1>7

LEMMA PeriodsAre ==
    ASSUME NEW s \in ScheduleType, NEW h \in Days, NEW p
    PROVE  p \in BilledPeriods(s, h) <=>
              \E d \in Days : /\ s.start <= d /\ d <= h /\ BillsOn(s, d)
                              /\ p = BilledPeriod(s, d)
<1> DEFINE horizon == IF s.end = None THEN h ELSE Min({h, s.end})
<1>1. s.start \in Nat /\ h \in Nat /\ h <= LastDay /\ LastDay \in Nat
      /\ (s.end # None => s.end \in Nat)
  BY ScheduleFields, ConstantsAssumption DEF Days
<1>2. horizon \in Nat /\ horizon <= h
      /\ \A d \in Nat : d <= horizon <=> d <= h /\ (s.end # None => d <= s.end)
  <2>1. CASE s.end = None
    BY <1>1, <2>1
  <2>2. CASE s.end # None
    <3>1. s.end \in Nat
      BY <1>1, <2>2
    <3>2. horizon = IF h <= s.end THEN h ELSE s.end
      BY <1>1, <2>2, <3>1, OfTwo
    <3> HIDE DEF horizon
    <3> QED
      BY <1>1, <2>2, <3>1, <3>2
  <2> QED
    BY <2>1, <2>2
<1>3. BilledPeriods(s, h) = {BilledPeriod(s, d) : d \in s.start .. horizon}
  BY DEF BilledPeriods
<1> HIDE DEF horizon
<1>4. \A d : d \in s.start .. horizon <=>
                d \in Days /\ s.start <= d /\ d <= h /\ BillsOn(s, d)
  BY <1>1, <1>2 DEF Days, BillsOn
<1> QED
  BY <1>3, <1>4

(* Every billed period begins with a day that is billed.                   *)
LEMMA PeriodRecord ==
    ASSUME NEW s \in ScheduleType, NEW h \in Days, NEW p \in BilledPeriods(s, h)
    PROVE  /\ p.start \in Days /\ s.start <= p.start /\ p.start <= h
           /\ p.end \in Nat /\ p.start <= p.end /\ p.amount \in Nat
           /\ InReach(s, p.start) /\ BillsOn(s, p.start)
           /\ p = BilledPeriod(s, p.start)
<1>1. PICK d \in Days : /\ s.start <= d /\ d <= h /\ BillsOn(s, d)
                        /\ p = BilledPeriod(s, d)
  BY PeriodsAre
<1>2. InReach(s, d)
  BY <1>1, DaysInReach
<1>3. PeriodOf(s, d, p)
  BY <1>1, <1>2, BilledIs
<1>4. /\ p.start \in Nat /\ s.start <= p.start /\ p.start <= d /\ d <= p.end
      /\ p.end \in Nat /\ p.amount \in Nat
  BY <1>3 DEF PeriodOf
<1>5. d \in Nat /\ d <= LastDay /\ h \in Nat /\ LastDay \in Nat
  BY ConstantsAssumption DEF Days
<1>6. /\ InReach(s, p.start) /\ BillsOn(s, p.start)
      /\ BilledPeriod(s, p.start) = BilledPeriod(s, d)
  <2>1. p.start <= p.end
    BY <1>4, <1>5
  <2> QED
    BY <1>1, <1>2, <1>4, <2>1, BilledByItsDays
<1>7. p.start \in Days /\ p.start <= h /\ p.start <= p.end
  BY <1>1, <1>4, <1>5 DEF Days
<1> QED
  BY <1>1, <1>4, <1>6, <1>7

-----------------------------------------------------------------------------
(* What a request decides from the schedules and the charges it has read.  *)

ChargesOf(s, had) == {x \in had : x.schedule = s}

LiveIn(rows) == {s \in Schedules : Live(s, rows)}

InsertsOf(rows, had, through) ==
    UNION {AsCharges(s, MissingPeriods(rows[s], ChargesOf(s, had), through)) : s \in LiveIn(rows)}

MovesOf(rows, had, through) ==
    UNION {AsCharges(s, MovedPeriods(rows[s], ChargesOf(s, had), through)) : s \in LiveIn(rows)}

DeletesOf(rows, had, through) ==
    UNION {{Key(x) : x \in Retired(rows[s], ChargesOf(s, had), through)} : s \in LiveIn(rows)}

(* The charges once it is written.                                         *)
Written(had, inserts, moves, deletes) ==
    {Moved(x, moves) : x \in {y \in had : Key(y) \notin deletes}} \union inserts

OneEach(had) == \A x, y \in had : Key(x) = Key(y) => x = y

(* Charges of schedules, none twice.                                       *)
Generated(inserts) == OneEach(inserts) /\ \A x \in inserts : x.number = 0

(* Two charges with one key are of one schedule and begin on one day, and  *)
(* two charges of a schedule that begin on one day have one key.           *)
LEMMA KeysAre ==
    ASSUME NEW x, NEW y
    PROVE  /\ Key(x) = Key(y) <=> /\ x.schedule = y.schedule
                                 /\ x.start = y.start /\ x.number = y.number
           /\ x \in ChargeType /\ y \in ChargeType /\ x.schedule # None
                 => (Key(x) = Key(y) <=> x.schedule = y.schedule /\ x.start = y.start)
<1>1. Key(x) = Key(y) <=> x.schedule = y.schedule /\ x.start = y.start /\ x.number = y.number
  BY DEF Key
<1>2. ASSUME x \in ChargeType, y \in ChargeType, x.schedule # None, x.schedule = y.schedule
      PROVE  x.number = 0 /\ y.number = 0
  BY <1>2 DEF ChargeType
<1> QED
  BY <1>1, <1>2

LEMMA MovedKeeps ==
    ASSUME NEW x \in ChargeType, NEW moves, moves \subseteq ChargeType
    PROVE  /\ Moved(x, moves) \in ChargeType
           /\ Moved(x, moves).schedule = x.schedule /\ Moved(x, moves).start = x.start
           /\ Moved(x, moves).number = x.number
           /\ Moved(x, moves).waived = x.waived
           /\ Key(Moved(x, moves)) = Key(x)
           /\ \/ Moved(x, moves) = x /\ \A y \in moves : Key(y) # Key(x)
              \/ \E y \in moves : /\ Key(y) = Key(x)
                                  /\ Moved(x, moves).end = y.end
                                  /\ Moved(x, moves).amount = y.amount
<1>1. CASE \E y \in moves : Key(y) = Key(x)
  <2>1. PICK y \in moves : y = CHOOSE z \in moves : Key(z) = Key(x)
    BY <1>1
  <2>2. Key(y) = Key(x) /\ y \in ChargeType
    BY <1>1, <2>1
  <2>3. Moved(x, moves) = [x EXCEPT !.end = y.end, !.amount = y.amount]
    BY <1>1, <2>1 DEF Moved
  <2>4. /\ Moved(x, moves) \in ChargeType
        /\ Moved(x, moves).schedule = x.schedule /\ Moved(x, moves).start = x.start
        /\ Moved(x, moves).number = x.number
        /\ Moved(x, moves).waived = x.waived
        /\ Moved(x, moves).end = y.end /\ Moved(x, moves).amount = y.amount
    BY <2>2, <2>3 DEF ChargeType
  <2> QED
    BY <2>2, <2>4, KeysAre
<1>2. CASE \A y \in moves : Key(y) # Key(x)
  <2>1. Moved(x, moves) = x
    BY <1>2 DEF Moved
  <2> QED
    BY <1>2, <2>1
<1> QED
  BY <1>1, <1>2

Readable(rows, had, through) ==
    /\ rows \in [Schedules -> ScheduleType]
    /\ had \subseteq ChargeType /\ OneEach(had)
    /\ through \in Days

LEMMA DecidedAre ==
    ASSUME NEW rows, NEW had, NEW through
    PROVE  /\ \A x : x \in InsertsOf(rows, had, through) <=>
                 \E s \in Schedules : /\ Live(s, rows)
                    /\ \E p \in MissingPeriods(rows[s], ChargesOf(s, had), through) :
                          x = Charge(s, p.start, p.end, p.amount)
           /\ \A x : x \in MovesOf(rows, had, through) <=>
                 \E s \in Schedules : /\ Live(s, rows)
                    /\ \E p \in MovedPeriods(rows[s], ChargesOf(s, had), through) :
                          x = Charge(s, p.start, p.end, p.amount)
           /\ \A k : k \in DeletesOf(rows, had, through) <=>
                 \E s \in Schedules : /\ Live(s, rows)
                    /\ \E x \in Retired(rows[s], ChargesOf(s, had), through) : k = Key(x)
BY DEF InsertsOf, MovesOf, DeletesOf, LiveIn, AsCharges

LEMMA HorizonOf ==
    ASSUME NEW rows, NEW had, NEW through, Readable(rows, had, through), NEW s \in Schedules
    PROVE  /\ rows[s] \in ScheduleType
           /\ Horizon(ChargesOf(s, had), through) \in Days
           /\ through <= Horizon(ChargesOf(s, had), through)
           /\ \A x \in had : x.schedule = s => x.start <= Horizon(ChargesOf(s, had), through)
<1>1. ChargesOf(s, had) \subseteq ChargeType
  BY DEF Readable, ChargesOf
<1> QED
  BY <1>1, HorizonIs DEF Readable, ChargesOf

(* A charge the schedule would write today.                                *)
RightCharge(row, x) ==
    /\ x.start \in Days /\ row.start <= x.start /\ BillsOn(row, x.start)
    /\ BilledPeriod(row, x.start).start = x.start
    /\ BilledPeriod(row, x.start).end = x.end
    /\ BilledPeriod(row, x.start).amount = x.amount

LEMMA PeriodsAreRight ==
    ASSUME NEW rows, NEW had, NEW through, Readable(rows, had, through), NEW s \in Schedules,
           NEW p \in BilledPeriods(rows[s], Horizon(ChargesOf(s, had), through))
    PROVE  /\ Charge(s, p.start, p.end, p.amount) \in ChargeType
           /\ RightCharge(rows[s], Charge(s, p.start, p.end, p.amount))
           /\ p = BilledPeriod(rows[s], p.start)
<1> DEFINE x == Charge(s, p.start, p.end, p.amount)
<1>1. /\ p.start \in Days /\ rows[s].start <= p.start
      /\ p.end \in Nat /\ p.start <= p.end /\ p.amount \in Nat
      /\ BillsOn(rows[s], p.start) /\ p = BilledPeriod(rows[s], p.start)
  BY HorizonOf, PeriodRecord
<1>2. x.start = p.start /\ x.end = p.end /\ x.amount = p.amount
  BY DEF Charge
<1>3. x \in ChargeType
  BY <1>1, ConstantsAssumption DEF Charge, ChargeType
<1> QED
  BY <1>1, <1>2, <1>3 DEF RightCharge

LEMMA InsertsAre ==
    ASSUME NEW rows, NEW had, NEW through, Readable(rows, had, through),
           NEW x \in InsertsOf(rows, had, through)
    PROVE  /\ x \in ChargeType /\ x.schedule \in Schedules /\ ~ x.waived /\ x.number = 0
           /\ Live(x.schedule, rows) /\ RightCharge(rows[x.schedule], x)
           /\ \A y \in had : Key(y) # Key(x)
<1>1. PICK s \in Schedules : /\ Live(s, rows)
         /\ \E p \in MissingPeriods(rows[s], ChargesOf(s, had), through) :
               x = Charge(s, p.start, p.end, p.amount)
  BY DecidedAre
<1>2. PICK p \in MissingPeriods(rows[s], ChargesOf(s, had), through) :
               x = Charge(s, p.start, p.end, p.amount)
  BY <1>1
<1>3. /\ p \in BilledPeriods(rows[s], Horizon(ChargesOf(s, had), through))
      /\ \A y \in ChargesOf(s, had) : y.start # p.start
  BY <1>2 DEF MissingPeriods
<1>4. x \in ChargeType /\ RightCharge(rows[s], x)
  BY <1>2, <1>3, PeriodsAreRight
<1>5. x.schedule = s /\ x.start = p.start /\ x.waived = FALSE /\ x.number = 0
  BY <1>2 DEF Charge
<1>6. \A y \in had : Key(y) # Key(x)
  BY <1>3, <1>5, KeysAre DEF ChargesOf
<1> QED
  BY <1>1, <1>4, <1>5, <1>6

LEMMA MovesAre ==
    ASSUME NEW rows, NEW had, NEW through, Readable(rows, had, through),
           NEW x \in MovesOf(rows, had, through)
    PROVE  /\ x \in ChargeType /\ x.schedule \in Schedules
           /\ Live(x.schedule, rows) /\ RightCharge(rows[x.schedule], x)
<1>1. PICK s \in Schedules : /\ Live(s, rows)
         /\ \E p \in MovedPeriods(rows[s], ChargesOf(s, had), through) :
               x = Charge(s, p.start, p.end, p.amount)
  BY DecidedAre
<1>2. PICK p \in MovedPeriods(rows[s], ChargesOf(s, had), through) :
               x = Charge(s, p.start, p.end, p.amount)
  BY <1>1
<1>3. p \in BilledPeriods(rows[s], Horizon(ChargesOf(s, had), through))
  BY <1>2 DEF MovedPeriods
<1>4. x \in ChargeType /\ RightCharge(rows[s], x)
  BY <1>2, <1>3, PeriodsAreRight
<1>5. x.schedule = s
  BY <1>2 DEF Charge
<1> QED
  BY <1>1, <1>4, <1>5

LEMMA DeletesAre ==
    ASSUME NEW rows, NEW had, NEW through, Readable(rows, had, through),
           NEW k \in DeletesOf(rows, had, through)
    PROVE  /\ k \in Schedules \X Days \X {0}
           /\ \E x \in had : /\ k = Key(x) /\ ~ x.waived
                             /\ x.schedule \in Schedules /\ Live(x.schedule, rows)
                             /\ \A p \in BilledPeriods(rows[x.schedule],
                                            Horizon(ChargesOf(x.schedule, had), through)) :
                                   p.start # x.start
<1>1. PICK s \in Schedules : /\ Live(s, rows)
         /\ \E x \in Retired(rows[s], ChargesOf(s, had), through) : k = Key(x)
  BY DecidedAre
<1>2. PICK x \in Retired(rows[s], ChargesOf(s, had), through) : k = Key(x)
  BY <1>1
<1>3. /\ x \in had /\ x.schedule = s /\ ~ x.waived
      /\ \A p \in BilledPeriods(rows[s], Horizon(ChargesOf(s, had), through)) : p.start # x.start
  BY <1>2 DEF Retired, ChargesOf
<1>4. x.start \in Days /\ x.number = 0
  BY <1>3, ConstantsAssumption DEF Readable, ChargeType
<1> QED
  BY <1>1, <1>2, <1>3, <1>4 DEF Key

LEMMA InsertsApart ==
    ASSUME NEW rows, NEW had, NEW through, Readable(rows, had, through)
    PROVE  OneEach(InsertsOf(rows, had, through))
<1> SUFFICES ASSUME NEW x \in InsertsOf(rows, had, through),
                    NEW y \in InsertsOf(rows, had, through), Key(x) = Key(y)
             PROVE  x = y
  BY DEF OneEach
<1>1. PICK s \in Schedules :
         \E p \in MissingPeriods(rows[s], ChargesOf(s, had), through) :
            x = Charge(s, p.start, p.end, p.amount)
  BY DecidedAre
<1>2. PICK p \in MissingPeriods(rows[s], ChargesOf(s, had), through) :
            x = Charge(s, p.start, p.end, p.amount)
  BY <1>1
<1>3. PICK t \in Schedules :
         \E q \in MissingPeriods(rows[t], ChargesOf(t, had), through) :
            y = Charge(t, q.start, q.end, q.amount)
  BY DecidedAre
<1>4. PICK q \in MissingPeriods(rows[t], ChargesOf(t, had), through) :
            y = Charge(t, q.start, q.end, q.amount)
  BY <1>3
<1>5. s = t /\ p.start = q.start
  BY <1>2, <1>4 DEF Charge, Key
<1>6. p = BilledPeriod(rows[s], p.start)
  BY <1>2, PeriodsAreRight DEF MissingPeriods
<1>7. q = BilledPeriod(rows[t], q.start)
  BY <1>4, PeriodsAreRight DEF MissingPeriods
<1>8. p = q
  BY <1>5, <1>6, <1>7
<1> QED
  BY <1>2, <1>4, <1>5, <1>8

LEMMA WrittenIs ==
    ASSUME NEW had, had \subseteq ChargeType, OneEach(had),
           NEW inserts, inserts \subseteq ChargeType, OneEach(inserts),
           NEW moves, moves \subseteq ChargeType, NEW deletes,
           \A x \in had, y \in inserts : Key(x) # Key(y)
    PROVE  /\ Written(had, inserts, moves, deletes) \subseteq ChargeType
           /\ OneEach(Written(had, inserts, moves, deletes))
<1>1. ASSUME NEW x \in Written(had, inserts, moves, deletes)
      PROVE  \/ x \in inserts
             \/ \E y \in had : x = Moved(y, moves) /\ Key(x) = Key(y) /\ x \in ChargeType
  BY MovedKeeps DEF Written
<1>2. \A y, z \in had : Key(y) = Key(z) => Moved(y, moves) = Moved(z, moves)
  BY DEF OneEach
<1> QED
  BY <1>1, <1>2 DEF OneEach

LEMMA KeptIsRight ==
    ASSUME NEW rows, NEW had, NEW through, Readable(rows, had, through),
           NEW y \in had, y.schedule \in Schedules, Live(y.schedule, rows), ~ y.waived,
           Key(y) \notin DeletesOf(rows, had, through)
    PROVE  RightCharge(rows[y.schedule], Moved(y, MovesOf(rows, had, through)))
<1> DEFINE s == y.schedule
           moves == MovesOf(rows, had, through)
           periods == BilledPeriods(rows[s], Horizon(ChargesOf(s, had), through))
<1>1. y \in ChargeType /\ y \in ChargesOf(s, had) /\ s \in Schedules
  BY DEF Readable, ChargesOf
<1>2. PICK p \in periods : p.start = y.start
  <2>1. y \notin Retired(rows[s], ChargesOf(s, had), through)
    BY <1>1, DecidedAre
  <2> QED
    BY <1>1, <2>1 DEF Retired
<1>3. /\ RightCharge(rows[s], Charge(s, p.start, p.end, p.amount))
      /\ p = BilledPeriod(rows[s], p.start)
  BY <1>1, PeriodsAreRight
<1>4. /\ p.start \in Days /\ rows[s].start <= p.start /\ BillsOn(rows[s], p.start)
  BY <1>3 DEF RightCharge, Charge
<1>5. moves \subseteq ChargeType
  BY MovesAre
<1>6. Moved(y, moves).end = p.end /\ Moved(y, moves).amount = p.amount
  <2>1. CASE Moved(y, moves) = y /\ \A z \in moves : Key(z) # Key(y)
    <3>1. Charge(s, p.start, p.end, p.amount) \notin moves
      <4>1. Key(Charge(s, p.start, p.end, p.amount)) = Key(y)
        <5>1. /\ Charge(s, p.start, p.end, p.amount).schedule = s
              /\ Charge(s, p.start, p.end, p.amount).start = p.start
          BY DEF Charge
        <5>2. Charge(s, p.start, p.end, p.amount) \in ChargeType /\ y \in ChargeType
          BY <1>1, PeriodsAreRight DEF Readable
        <5> QED
          BY <1>2, <5>1, <5>2, KeysAre, ConstantsAssumption
      <4> QED
        BY <2>1, <4>1
    <3>2. p \notin MovedPeriods(rows[s], ChargesOf(s, had), through)
      BY <1>1, <3>1, DecidedAre
    <3>3. ~ (y.end # p.end \/ y.amount # p.amount)
      BY <1>1, <1>2, <3>2 DEF MovedPeriods
    <3> QED
      BY <2>1, <3>3
  <2>2. CASE \E z \in moves : /\ Key(z) = Key(y)
                              /\ Moved(y, moves).end = z.end
                              /\ Moved(y, moves).amount = z.amount
    <3>1. PICK z \in moves : /\ Key(z) = Key(y)
                             /\ Moved(y, moves).end = z.end
                             /\ Moved(y, moves).amount = z.amount
      BY <2>2
    <3>2. z.schedule = s /\ z.start = p.start
      BY <1>2, <3>1, KeysAre
    <3>3. RightCharge(rows[s], z)
      BY <3>2, MovesAre
    <3> QED
      BY <1>3, <3>1, <3>2, <3>3 DEF RightCharge
  <2> QED
    BY <1>1, <1>5, <2>1, <2>2, MovedKeeps
<1>7. Moved(y, moves).start = p.start
  BY <1>1, <1>2, <1>5, MovedKeeps
<1> HIDE DEF moves
<1> QED
  BY <1>3, <1>4, <1>6, <1>7 DEF RightCharge, moves

Reconciled(rows, had, through) ==
    Written(had, InsertsOf(rows, had, through), MovesOf(rows, had, through),
            DeletesOf(rows, had, through))

LEMMA ReconciledIsRight ==
    ASSUME NEW rows, NEW had, NEW through, Readable(rows, had, through),
           NEW x \in Reconciled(rows, had, through),
           x.schedule \in Schedules, Live(x.schedule, rows), ~ x.waived
    PROVE  RightCharge(rows[x.schedule], x)
<1>1. CASE x \in InsertsOf(rows, had, through)
  BY <1>1, InsertsAre
<1>2. CASE \E y \in had : /\ Key(y) \notin DeletesOf(rows, had, through)
                          /\ x = Moved(y, MovesOf(rows, had, through))
  <2>1. PICK y \in had : /\ Key(y) \notin DeletesOf(rows, had, through)
                         /\ x = Moved(y, MovesOf(rows, had, through))
    BY <1>2
  <2>2. MovesOf(rows, had, through) \subseteq ChargeType /\ y \in ChargeType
    BY MovesAre DEF Readable
  <2>3. x.schedule = y.schedule /\ x.waived = y.waived
    BY <2>1, <2>2, MovedKeeps
  <2> QED
    BY <2>1, <2>3, KeptIsRight
<1> QED
  BY <1>1, <1>2 DEF Reconciled, Written

(* Of the periods begun by through, every day a live schedule bills is     *)
(* covered, or the period has been waived.                                 *)
LEMMA ReconciledCovers ==
    ASSUME NEW rows, NEW had, NEW through, Readable(rows, had, through),
           NEW s \in Schedules, Live(s, rows),
           NEW d, InReach(rows[s], d), BillsOn(rows[s], d),
           BilledPeriod(rows[s], d).start <= through
    PROVE  \E x \in Reconciled(rows, had, through) :
              /\ x.schedule = s
              /\ \/ d \in DaysOf(x)
                 \/ x.waived /\ NaturalBounds(rows[s], x.start) = NaturalBounds(rows[s], d)
<1> DEFINE row == rows[s]
           moves == MovesOf(rows, had, through)
           deletes == DeletesOf(rows, had, through)
           existing == ChargesOf(s, had)
<1>1. row \in ScheduleType /\ had \subseteq ChargeType /\ OneEach(had) /\ through \in Days
  BY DEF Readable
<1>2. PICK p : p = BilledPeriod(row, d)
  OBVIOUS
<1>3. PeriodOf(row, d, p)
  BY <1>1, <1>2, BilledIs
<1>4. PICK b \in Nat : b = p.start
  BY <1>3 DEF PeriodOf
<1>5. row.start \in Nat /\ through \in Nat /\ through <= LastDay /\ LastDay \in Nat /\ d \in Nat
  BY <1>1, ScheduleFields, ConstantsAssumption DEF Days, InReach
<1>6. /\ row.start <= b /\ b <= d /\ d <= p.end /\ p.end \in Nat
  BY <1>3, <1>4 DEF PeriodOf
<1>7. b \in Days /\ b <= through
  BY <1>2, <1>4, <1>5 DEF Days
<1>8. /\ BillsOn(row, b) /\ NaturalBounds(row, b) = NaturalBounds(row, d)
      /\ BilledPeriod(row, b) = p
  <2>1. BilledPeriod(row, d).start <= b /\ b <= BilledPeriod(row, d).end
    BY <1>2, <1>4, <1>5, <1>6
  <2> QED
    BY <1>1, <1>2, <2>1, BilledByItsDays
<1>9. /\ Horizon(existing, through) \in Days /\ b <= Horizon(existing, through)
  <2>1. /\ Horizon(existing, through) \in Days
        /\ through <= Horizon(existing, through)
    BY HorizonOf
  <2> QED
    BY <1>4, <1>5, <1>7, <2>1, ConstantsAssumption DEF Days
<1>10. p \in BilledPeriods(row, Horizon(existing, through))
  BY <1>1, <1>6, <1>7, <1>8, <1>9, PeriodsAre
<1>11. d \in b .. p.end
  BY <1>4, <1>5, <1>6
<1>12. CASE \E y \in existing : y.start = b
  <2>1. PICK y \in existing : y.start = b
    BY <1>12
  <2>2. y \in had /\ y.schedule = s /\ y \in ChargeType
    BY <1>1, <2>1 DEF ChargesOf
  <2>3. Key(y) \notin deletes
    <3> SUFFICES ASSUME Key(y) \in deletes PROVE FALSE
      OBVIOUS
    <3>1. PICK z \in had : /\ Key(y) = Key(z) /\ ~ z.waived
              /\ \A q \in BilledPeriods(rows[z.schedule],
                            Horizon(ChargesOf(z.schedule, had), through)) : q.start # z.start
      BY DeletesAre
    <3>2. z.schedule = s /\ z.start = b
      BY <2>1, <2>2, <3>1, KeysAre
    <3> QED
      BY <1>4, <1>10, <3>1, <3>2
  <2>4. Moved(y, moves) \in Reconciled(rows, had, through)
    BY <2>2, <2>3 DEF Reconciled, Written
  <2>5. /\ Moved(y, moves).schedule = s /\ Moved(y, moves).start = b
        /\ Moved(y, moves).waived = y.waived
    <3>1. moves \subseteq ChargeType
      BY MovesAre
    <3> QED
      BY <2>1, <2>2, <3>1, MovedKeeps
  <2>6. CASE y.waived
    BY <1>8, <2>4, <2>5, <2>6
  <2>7. CASE ~ y.waived
    <3>1. RightCharge(row, Moved(y, moves))
      BY <2>2, <2>3, <2>7, KeptIsRight
    <3>2. Moved(y, moves).end = p.end
      BY <1>8, <2>5, <3>1 DEF RightCharge
    <3> QED
      BY <1>11, <2>4, <2>5, <3>2 DEF DaysOf
  <2> QED
    BY <2>6, <2>7
<1>13. CASE \A y \in existing : y.start # b
  <2>1. p \in MissingPeriods(row, existing, through)
    BY <1>4, <1>7, <1>10, <1>13 DEF MissingPeriods
  <2>2. PICK x : x = Charge(s, p.start, p.end, p.amount)
    OBVIOUS
  <2>3. x \in InsertsOf(rows, had, through)
    BY <2>1, <2>2, DecidedAre
  <2>4. x \in Reconciled(rows, had, through)
    BY <2>3 DEF Reconciled, Written
  <2>5. x.schedule = s /\ x.start = b /\ x.end = p.end
    BY <1>4, <2>2 DEF Charge
  <2> QED
    BY <1>11, <2>4, <2>5 DEF DaysOf
<1> QED
  BY <1>12, <1>13

(* A right charge covers days its schedule bills, of one period, for their *)
(* share of the rent.                                                      *)
LEMMA RightChargeIs ==
    ASSUME NEW row \in ScheduleType, NEW x \in ChargeType, RightCharge(row, x)
    PROVE  /\ x.start <= x.end
           /\ \A d \in DaysOf(x) : /\ BillsOn(row, d)
                                   /\ NaturalBounds(row, d) = NaturalBounds(row, x.start)
                                   /\ BilledPeriod(row, d).start = x.start
           /\ NearestCent(x.amount, row.amount, x.end - x.start + 1,
                          NaturalBounds(row, x.start).last - NaturalBounds(row, x.start).first + 1)
<1>1. x.start \in Nat /\ x.end \in Nat /\ x.start \in Days
  BY ConstantsAssumption DEF ChargeType, Days
<1>2. InReach(row, x.start) /\ BillsOn(row, x.start)
  BY <1>1, DaysInReach DEF RightCharge
<1>3. PeriodOf(row, x.start, BilledPeriod(row, x.start))
  BY <1>2, BilledIs
<1>4. PICK p : p = BilledPeriod(row, x.start)
  OBVIOUS
<1>5. p.start = x.start /\ p.end = x.end /\ p.amount = x.amount
  BY <1>4 DEF RightCharge
<1>6. x.start <= x.end
  BY <1>3, <1>4, <1>5 DEF PeriodOf
<1>7. NearestCent(x.amount, row.amount, x.end - x.start + 1,
                  NaturalBounds(row, x.start).last - NaturalBounds(row, x.start).first + 1)
  BY <1>3, <1>4, <1>5 DEF PeriodOf
<1>8. ASSUME NEW d \in DaysOf(x)
      PROVE  /\ BillsOn(row, d) /\ NaturalBounds(row, d) = NaturalBounds(row, x.start)
             /\ BilledPeriod(row, d).start = x.start
  <2>1. d \in Nat /\ x.start <= d /\ d <= x.end
    BY <1>1 DEF DaysOf
  <2>2. BilledPeriod(row, x.start).start <= d /\ d <= BilledPeriod(row, x.start).end
    BY <1>4, <1>5, <2>1
  <2> QED
    BY <1>2, <1>4, <1>5, <2>1, <2>2, BilledByItsDays
<1> QED
  BY <1>6, <1>7, <1>8

LEMMA ReconciledIsBilled ==
    ASSUME NEW rows, NEW had, NEW through, Readable(rows, had, through),
           NEW s \in Schedules, Live(s, rows)
    PROVE  RightlyBilled(s, rows[s], through, Reconciled(rows, had, through))
<1> DEFINE all == Reconciled(rows, had, through)
           row == rows[s]
<1>1. row \in ScheduleType /\ through \in Days
  BY DEF Readable
<1>2. all \subseteq ChargeType
  <2>1. /\ had \subseteq ChargeType /\ OneEach(had)
        /\ InsertsOf(rows, had, through) \subseteq ChargeType
        /\ MovesOf(rows, had, through) \subseteq ChargeType
        /\ \A x \in had, y \in InsertsOf(rows, had, through) : Key(x) # Key(y)
    BY InsertsAre, MovesAre DEF Readable
  <2> QED
    BY <2>1, InsertsApart, WrittenIs DEF Reconciled
<1>3. ASSUME NEW x \in all, x.schedule = s, ~ x.waived
      PROVE  /\ \A d \in DaysOf(x) : /\ BillsOn(row, d)
                                     /\ NaturalBounds(row, d) = NaturalBounds(row, x.start)
             /\ NearestCent(x.amount, row.amount, x.end - x.start + 1,
                  NaturalBounds(row, x.start).last - NaturalBounds(row, x.start).first + 1)
  <2>1. RightCharge(row, x)
    BY <1>3, ReconciledIsRight
  <2> HIDE DEF all, row
  <2> QED
    BY <1>1, <1>2, <2>1, RightChargeIs
<1>4. ASSUME NEW d \in row.start .. NaturalBounds(row, through).last, BillsOn(row, d),
             Max({NaturalBounds(row, d).first, row.start}) <= through
      PROVE  \E x \in all : /\ x.schedule = s
                            /\ \/ d \in DaysOf(x)
                               \/ x.waived /\ NaturalBounds(row, x.start) = NaturalBounds(row, d)
  <2>1. through \in Nat /\ row.start \in Nat /\ d \in Nat /\ row.start <= d
    BY <1>1, <1>4, ScheduleFields DEF Days, BillsOn
  <2>2. InReach(row, d)
    <3>1. CASE row.cadence = "monthly"
      <4>1. \E f \in MonthFirsts : f > through
        BY <1>1, <2>1, ConstantsAssumption DEF Days
      <4>2. PICK G \in MonthFirsts : G \in Nat /\ G = Min({f \in MonthFirsts : f > through})
        BY <2>1, <4>1, MonthAround
      <4>3. NaturalBounds(row, through).last = G - 1
        BY <3>1, <4>2 DEF NaturalBounds
      <4>4. G > d
        BY <1>4, <2>1, <4>2, <4>3
      <4> QED
        BY <2>1, <4>4 DEF InReach
    <3>2. CASE row.cadence # "monthly"
      BY <2>1, <3>2 DEF InReach
    <3> QED
      BY <3>1, <3>2
  <2>3. BilledPeriod(row, d).start = Max({NaturalBounds(row, d).first, row.start})
    BY DEF BilledPeriod
  <2>4. BilledPeriod(row, d).start <= through
    BY <1>4, <2>3
  <2>5. \E x \in Reconciled(rows, had, through) :
           /\ x.schedule = s
           /\ \/ d \in DaysOf(x)
              \/ x.waived /\ NaturalBounds(rows[s], x.start) = NaturalBounds(rows[s], d)
    <3>1. InReach(rows[s], d) /\ BillsOn(rows[s], d) /\ BilledPeriod(rows[s], d).start <= through
      BY <1>4, <2>2, <2>4
    <3> HIDE DEF row, all
    <3> QED
      BY <3>1, ReconciledCovers
  <2> QED
    BY <2>5
<1> HIDE DEF all, row
<1>5. \A x \in {y \in {z \in all : z.schedule = s} : ~ y.waived} :
             /\ \A d \in DaysOf(x) : BillsOn(row, d) /\ NaturalBounds(row, d) = NaturalBounds(row, x.start)
             /\ NearestCent(x.amount, row.amount, x.end - x.start + 1,
                            NaturalBounds(row, x.start).last - NaturalBounds(row, x.start).first + 1)
  BY <1>3
<1>6. \A d \in row.start .. NaturalBounds(row, through).last :
             BillsOn(row, d) /\ Max({NaturalBounds(row, d).first, row.start}) <= through
               => \E x \in {z \in all : z.schedule = s} :
                       \/ d \in DaysOf(x)
                       \/ x.waived /\ NaturalBounds(row, x.start) = NaturalBounds(row, d)
  <2> SUFFICES ASSUME NEW d \in row.start .. NaturalBounds(row, through).last, BillsOn(row, d),
                      Max({NaturalBounds(row, d).first, row.start}) <= through
               PROVE  \E x \in {z \in all : z.schedule = s} :
                       \/ d \in DaysOf(x)
                       \/ x.waived /\ NaturalBounds(row, x.start) = NaturalBounds(row, d)
    OBVIOUS
  <2>1. PICK x \in all : /\ x.schedule = s
                         /\ \/ d \in DaysOf(x)
                            \/ x.waived /\ NaturalBounds(row, x.start) = NaturalBounds(row, d)
    BY <1>4
  <2> QED
    BY <2>1
<1> QED
  BY <1>5, <1>6 DEF RightlyBilled, all, row

(* Two charges of a schedule, both right, share no day.                    *)
LEMMA RightChargesApart ==
    ASSUME NEW row \in ScheduleType, NEW x \in ChargeType, NEW y \in ChargeType,
           RightCharge(row, x), RightCharge(row, y),
           DaysOf(x) \intersect DaysOf(y) # {}
    PROVE  x.start = y.start
<1>1. PICK d : d \in DaysOf(x) /\ d \in DaysOf(y)
  OBVIOUS
<1> QED
  BY <1>1, RightChargeIs

(* Two schedules that bill a day overlap.                                  *)
LEMMA SharedDayOverlaps ==
    ASSUME NEW a \in ScheduleType, NEW b \in ScheduleType, NEW d \in Nat,
           BillsOn(a, d), BillsOn(b, d)
    PROVE  Overlaps(a, b)
BY ScheduleFields DEF BillsOn, Overlaps

(* A charge begins where a billed period would.                            *)
Aligned(row, x) ==
    /\ row.start <= x.start
    /\ BilledPeriod(row, x.start).start = x.start

SameTerms(a, b) == a.start = b.start /\ a.cadence = b.cadence /\ a.amount = b.amount

LEMMA AlignedByTerms ==
    ASSUME NEW a, NEW b, SameTerms(a, b), NEW x, Aligned(a, x)
    PROVE  Aligned(b, x)
<1>1. NaturalBounds(a, x.start) = NaturalBounds(b, x.start)
  BY DEF NaturalBounds, SameTerms
<1> QED
  BY <1>1 DEF Aligned, BilledPeriod, SameTerms

(* What is deleted began after the end of its schedule.                    *)
LEMMA DeletedIsOver ==
    ASSUME NEW rows, NEW had, NEW through, Readable(rows, had, through),
           \A x \in had : x.schedule \in Schedules => Aligned(rows[x.schedule], x),
           NEW x \in had, Key(x) \in DeletesOf(rows, had, through)
    PROVE  /\ x.schedule \in Schedules /\ ~ x.waived
           /\ ~ BillsOn(rows[x.schedule], x.start)
<1>1. PICK z \in had : /\ Key(x) = Key(z) /\ ~ z.waived /\ z.schedule \in Schedules
          /\ \A q \in BilledPeriods(rows[z.schedule],
                        Horizon(ChargesOf(z.schedule, had), through)) : q.start # z.start
  BY DeletesAre
<1>2. z = x
  BY <1>1 DEF Readable, OneEach
<1>3. PICK s \in Schedules : s = x.schedule
  BY <1>1, <1>2
<1>4. /\ rows[s] \in ScheduleType
      /\ Horizon(ChargesOf(s, had), through) \in Days
      /\ x.start <= Horizon(ChargesOf(s, had), through)
  BY <1>3, HorizonOf
<1>5. x.start \in Days
  BY DEF Readable, ChargeType
<1>6. Aligned(rows[s], x)
  BY <1>3
<1>7. ASSUME BillsOn(rows[s], x.start) PROVE FALSE
  <2>1. BilledPeriod(rows[s], x.start) \in BilledPeriods(rows[s], Horizon(ChargesOf(s, had), through))
    BY <1>4, <1>5, <1>6, <1>7, PeriodsAre DEF Aligned
  <2> QED
    BY <1>1, <1>2, <1>3, <1>6, <2>1 DEF Aligned
<1> QED
  BY <1>1, <1>2, <1>3, <1>7

-----------------------------------------------------------------------------
(* The types.                                                              *)

TypeInv ==
    /\ TypeOK
    /\ \A c \in Calls : /\ Generated(calls[c].inserts)
                        /\ calls[c].at = "idle" => calls[c] = NoCall
                        /\ calls[c].at = "saving" => calls[c].own \in Schedules

(* What is committed by others leaves to a request all it has read and     *)
(* meant to insert.                                                        *)
SameWork(old, new) ==
    /\ new.at = old.at /\ new.own = old.own /\ new.row = old.row
    /\ new.through = old.through /\ new.seen = old.seen /\ new.inserts = old.inserts
    /\ new.moves \subseteq old.moves /\ new.deletes \subseteq old.deletes

LEMMA NoCallIs ==
    /\ NoCall \in CallType /\ Generated(NoCall.inserts)
    /\ NoSchedule \in ScheduleType /\ NothingSeen \in [Schedules -> ScheduleType]
    /\ NoCall.at = "idle" /\ NoCall.own = None /\ NoCall.inserts = {}
    /\ NoCall.deletes = {} /\ NoCall.moves = {} /\ NoCall.alone = TRUE /\ NoCall.checked = TRUE
    /\ \A s \in Schedules : NothingSeen[s].status = "absent"
<1>1. 0 \in Days
  BY ConstantsAssumption DEF Days
<1>2. NoSchedule \in ScheduleType
  BY <1>1 DEF NoSchedule, ScheduleType
<1>3. NothingSeen \in [Schedules -> ScheduleType] /\ \A s \in Schedules : NothingSeen[s].status = "absent"
  BY <1>2 DEF NothingSeen, NoSchedule
<1> HIDE DEF NothingSeen, NoSchedule
<1>4. NoCall \in CallType
  BY <1>1, <1>2, <1>3 DEF NoCall, CallType
<1> QED
  BY <1>2, <1>3, <1>4 DEF NoCall, Generated, OneEach

(* Call c has begun its work on schedule own and has read seen.            *)
Begun(c, where, own, row, through, seen) ==
    /\ calls[c] = NoCall
    /\ calls' \in [Calls -> CallType]
    /\ \A d \in Calls : d # c => calls'[d] = calls[d]
    /\ calls'[c].at = where /\ calls'[c].own = own /\ calls'[c].row = row
    /\ calls'[c].through = through /\ calls'[c].seen = seen
    /\ calls'[c].inserts = {} /\ calls'[c].moves = {} /\ calls'[c].deletes = {}
    /\ calls'[c].checked = TRUE /\ calls'[c].alone = TRUE
    /\ UNCHANGED <<today, schedules, charges, raced>>

LEMMA BeginIs ==
    ASSUME TypeInv, NEW c \in Calls, NEW where \in {"saving", "loading"},
           NEW own \in Schedules \union {None}, NEW row \in ScheduleType,
           NEW through \in Days, NEW seen \in [Schedules -> ScheduleType],
           Begin(c, where, own, row, through, seen)
    PROVE  Begun(c, where, own, row, through, seen)
<1>1. calls \in [Calls -> CallType] /\ calls[c] = NoCall
  BY DEF TypeInv, TypeOK, Begin
<1>2. PICK e : e = [NoCall EXCEPT !.at = where, !.own = own, !.row = row,
                                  !.through = through, !.seen = seen]
  OBVIOUS
<1>3. calls' = [calls EXCEPT ![c] = e]
  BY <1>2 DEF Begin
<1>4. /\ e.at = where /\ e.own = own /\ e.row = row /\ e.through = through /\ e.seen = seen
      /\ e.inserts = {} /\ e.moves = {} /\ e.deletes = {}
      /\ e.checked = TRUE /\ e.alone = TRUE
  BY <1>2 DEF NoCall
<1>5. e \in CallType
  BY <1>2 DEF NoCall, CallType
<1>6. UNCHANGED <<today, schedules, charges, raced>>
  BY DEF Begin
<1> QED
  BY <1>1, <1>3, <1>4, <1>5, <1>6 DEF Begun

LEMMA CreateIs ==
    ASSUME TypeInv, NEW c \in Calls, NEW s \in Schedules, NEW terms \in Terms,
           CreateSchedule(c, s, terms)
    PROVE  /\ schedules[s].status = "absent"
           /\ \A d \in Calls : calls[d].own # s
           /\ edits < MaxEdits /\ edits' = edits + 1
           /\ \E row \in ScheduleType :
                 /\ row.status = "live"
                 /\ NoOverlap(s, row)
                 /\ Begun(c, "loading", s, row, today, [schedules EXCEPT ![s] = row])
<1> DEFINE row == [status |-> "live", start |-> terms.start, end |-> terms.end,
                   cadence |-> terms.cadence, amount |-> terms.amount]
<1>1. row \in ScheduleType /\ row.status = "live"
  BY ConstantsAssumption DEF ScheduleType
<1>2. today \in Days /\ schedules \in [Schedules -> ScheduleType]
  BY DEF TypeInv, TypeOK
<1>3. /\ schedules[s].status = "absent"
      /\ \A d \in Calls : calls[d].own # s
      /\ NoOverlap(s, row)
      /\ Begin(c, "loading", s, row, today, [schedules EXCEPT ![s] = row])
      /\ edits < MaxEdits /\ edits' = edits + 1
  BY DEF CreateSchedule, Edit
<1> HIDE DEF row
<1>4. Begun(c, "loading", s, row, today, [schedules EXCEPT ![s] = row])
  BY <1>1, <1>2, <1>3, BeginIs
<1> QED
  BY <1>1, <1>3, <1>4

LEMMA UpdateIs ==
    ASSUME TypeInv, NEW c \in Calls, NEW s \in Schedules, NEW end \in EndDates,
           UpdateSchedule(c, s, end)
    PROVE  /\ schedules[s].status = "live"
           /\ edits < MaxEdits /\ edits' = edits + 1
           /\ \E row \in ScheduleType :
                 /\ row = [schedules[s] EXCEPT !.end = end]
                 /\ NoOverlap(s, row)
                 /\ Begun(c, "saving", s, row, today, [schedules EXCEPT ![s] = row])
<1> DEFINE row == [schedules[s] EXCEPT !.end = end]
<1>1. today \in Days /\ schedules \in [Schedules -> ScheduleType]
  BY DEF TypeInv, TypeOK
<1>2. row \in ScheduleType
  BY <1>1, ConstantsAssumption DEF ScheduleType
<1>3. /\ schedules[s].status = "live"
      /\ NoOverlap(s, row)
      /\ Begin(c, "saving", s, row, today, [schedules EXCEPT ![s] = row])
      /\ edits < MaxEdits /\ edits' = edits + 1
  BY DEF UpdateSchedule, Edit, Live
<1>4. row = [schedules[s] EXCEPT !.end = end]
  OBVIOUS
<1> HIDE DEF row
<1>5. Begun(c, "saving", s, row, today, [schedules EXCEPT ![s] = row])
  BY <1>1, <1>2, <1>3, BeginIs
<1> QED
  BY <1>2, <1>3, <1>4, <1>5

LEMMA GetIs ==
    ASSUME TypeInv, NEW c \in Calls, NEW asOf \in Days, GetLedger(c, asOf)
    PROVE  Begun(c, "loading", None, NoSchedule, asOf, schedules) /\ edits' = edits
<1>1. schedules \in [Schedules -> ScheduleType]
  BY DEF TypeInv, TypeOK
<1>2. Begin(c, "loading", None, NoSchedule, asOf, schedules) /\ edits' = edits
  BY DEF GetLedger
<1> QED
  BY <1>1, <1>2, BeginIs, NoCallIs

LEMMA TermsIs ==
    ASSUME TypeInv, NEW c \in Calls, UpdateTerms(c)
    PROVE  /\ calls' \in [Calls -> CallType]
           /\ \A d \in Calls : d # c => calls'[d] = calls[d]
           /\ calls[c].own \in Schedules /\ calls[c].at = "saving" /\ calls'[c].at = "loading"
           /\ calls'[c].seen = [calls[c].seen EXCEPT ![calls[c].own].status =
                                                       schedules[calls[c].own].status]
           /\ calls'[c].own = calls[c].own /\ calls'[c].row = calls[c].row
           /\ calls'[c].through = calls[c].through /\ calls'[c].inserts = calls[c].inserts
           /\ calls'[c].moves = calls[c].moves /\ calls'[c].deletes = calls[c].deletes
           /\ calls'[c].checked = calls[c].checked /\ calls'[c].alone = calls[c].alone
           /\ UNCHANGED <<today, schedules, charges, edits, raced>>
<1>1. calls \in [Calls -> CallType] /\ schedules \in [Schedules -> ScheduleType]
      /\ calls[c] \in CallType
  BY DEF TypeInv, TypeOK
<1>2. PICK s \in Schedules : s = calls[c].own
  BY DEF TypeInv, UpdateTerms
<1>3. PICK seen : seen = [calls[c].seen EXCEPT ![s].status = schedules[s].status]
  OBVIOUS
<1>4. seen \in [Schedules -> ScheduleType]
  <2>1. calls[c].seen \in [Schedules -> ScheduleType] /\ schedules[s] \in ScheduleType
    BY <1>1, <1>2 DEF CallType
  <2>2. PICK r : r = [calls[c].seen[s] EXCEPT !.status = schedules[s].status]
    OBVIOUS
  <2>3. r \in ScheduleType
    BY <2>1, <2>2 DEF ScheduleType
  <2>4. seen = [calls[c].seen EXCEPT ![s] = r]
    BY <1>3, <2>1, <2>2
  <2> QED
    BY <2>1, <2>3, <2>4
<1>5. calls' = [calls EXCEPT ![c] = [calls[c] EXCEPT !.at = "loading", !.seen = seen]]
  BY <1>1, <1>2, <1>3 DEF UpdateTerms, CallType
<1>6. PICK e : e = [calls[c] EXCEPT !.at = "loading", !.seen = seen]
  OBVIOUS
<1>7. e \in CallType /\ e.at = "loading" /\ e.seen = seen
  BY <1>1, <1>4, <1>6 DEF CallType
<1>8. /\ e.own = calls[c].own /\ e.row = calls[c].row
      /\ e.through = calls[c].through /\ e.inserts = calls[c].inserts
      /\ e.moves = calls[c].moves /\ e.deletes = calls[c].deletes
      /\ e.checked = calls[c].checked /\ e.alone = calls[c].alone
  BY <1>1, <1>6 DEF CallType
<1>9. /\ calls' \in [Calls -> CallType] /\ calls'[c] = e
      /\ \A d \in Calls : d # c => calls'[d] = calls[d]
  BY <1>1, <1>5, <1>6, <1>7
<1>10. calls[c].at = "saving" /\ UNCHANGED <<today, schedules, charges, edits, raced>>
  BY DEF UpdateTerms
<1> QED
  BY <1>2, <1>3, <1>7, <1>8, <1>9, <1>10

LEMMA ListIs ==
    ASSUME TypeInv, NEW c \in Calls, ListForSchedule(c)
    PROVE  /\ calls' \in [Calls -> CallType]
           /\ \A d \in Calls : d # c => calls'[d] = calls[d]
           /\ Readable(calls[c].seen, charges, calls[c].through)
           /\ calls[c].at = "loading" /\ calls'[c].at = "writing"
           /\ calls'[c].seen = NothingSeen
           /\ calls'[c].inserts = InsertsOf(calls[c].seen, charges, calls[c].through)
           /\ calls'[c].moves = MovesOf(calls[c].seen, charges, calls[c].through)
           /\ calls'[c].deletes = DeletesOf(calls[c].seen, charges, calls[c].through)
           /\ calls'[c].own = calls[c].own /\ calls'[c].row = calls[c].row
           /\ calls'[c].through = calls[c].through
           /\ calls'[c].checked = calls[c].checked /\ calls'[c].alone = calls[c].alone
           /\ UNCHANGED <<today, schedules, charges, edits, raced>>
<1>1. calls \in [Calls -> CallType] /\ calls[c] \in CallType
      /\ charges \subseteq ChargeType /\ OneEach(charges)
  BY DEF TypeInv, TypeOK, OneEach
<1> DEFINE seen == calls[c].seen
           through == calls[c].through
<1>4. Readable(seen, charges, through)
  BY <1>1 DEF Readable, CallType
<1> DEFINE alive == {s \in Schedules : Live(s, seen)}
           found == [s \in alive |-> FoundForSchedule(s)]
           inserts == UNION {AsCharges(s, MissingPeriods(seen[s], found[s], through)) : s \in alive}
           moves == UNION {AsCharges(s, MovedPeriods(seen[s], found[s], through)) : s \in alive}
           deletes == UNION {{Key(x) : x \in Retired(seen[s], found[s], through)} : s \in alive}
<1>5. calls' = [calls EXCEPT ![c].at = "writing", ![c].seen = NothingSeen,
                             ![c].inserts = inserts, ![c].moves = moves, ![c].deletes = deletes]
  BY DEF ListForSchedule
<1> HIDE DEF seen, through
<1>6. \A s \in alive : found[s] = ChargesOf(s, charges)
  BY DEF FoundForSchedule, ChargesOf
<1> HIDE DEF found
<1>7. /\ inserts = InsertsOf(seen, charges, through)
      /\ moves = MovesOf(seen, charges, through)
      /\ deletes = DeletesOf(seen, charges, through)
  BY <1>6, Zenon DEF InsertsOf, MovesOf, DeletesOf, LiveIn
<1> HIDE DEF inserts, moves, deletes
<1>8. /\ inserts \in SUBSET ChargeType /\ moves \in SUBSET ChargeType
      /\ deletes \in SUBSET (Schedules \X Days \X {0})
  BY <1>4, <1>7, InsertsAre, MovesAre, DeletesAre
<1>9. PICK e : e = [calls[c] EXCEPT !.at = "writing", !.seen = NothingSeen,
                             !.inserts = inserts, !.moves = moves, !.deletes = deletes]
  OBVIOUS
<1>10. e \in CallType
  BY <1>1, <1>8, <1>9, NoCallIs DEF CallType
<1>11. /\ e.at = "writing" /\ e.seen = NothingSeen /\ e.inserts = inserts
       /\ e.moves = moves /\ e.deletes = deletes
       /\ e.own = calls[c].own /\ e.row = calls[c].row /\ e.through = calls[c].through
       /\ e.checked = calls[c].checked /\ e.alone = calls[c].alone
  BY <1>1, <1>9 DEF CallType
<1>12. /\ calls' \in [Calls -> CallType] /\ calls'[c] = e
       /\ \A d \in Calls : d # c => calls'[d] = calls[d]
  BY <1>1, <1>5, <1>9, <1>10
<1>13. calls[c].at = "loading" /\ UNCHANGED <<today, schedules, charges, edits, raced>>
  BY DEF ListForSchedule
<1> QED
  BY <1>4, <1>7, <1>11, <1>12, <1>13 DEF seen, through

(* What a step that commits rows makes of request d: nothing is left of    *)
(* it, or the rows stay as they are, or it has been disturbed.             *)
Carried(d) ==
    \/ calls'[d] = NoCall
    \/ calls'[d] = calls[d] /\ UNCHANGED <<schedules, charges>>
    \/ /\ SameWork(calls[d], calls'[d])
       /\ calls[d].at # "idle"
       /\ calls'[d].alone = FALSE
       /\ calls'[d].checked => calls[d].checked /\ schedules' = schedules

LEMMA CarriedIs ==
    ASSUME TypeInv, NEW c, NEW deleted, NEW saved \in BOOLEAN,
           calls' = Disturbed(c, deleted, saved), ~ saved => schedules' = schedules
    PROVE  /\ calls' \in [Calls -> CallType]
           /\ \A d \in Calls : Carried(d)
           /\ \A d \in Calls : IF d = c THEN calls'[d] = NoCall ELSE calls'[d].at = calls[d].at
<1>0. calls' = [d \in Calls |-> calls'[d]]
  BY DEF Disturbed
<1>1. ASSUME NEW d \in Calls
      PROVE  /\ calls'[d] \in CallType
             /\ \/ (d = c \/ calls[d].at = "idle") /\ calls'[d] = NoCall
                \/ /\ d # c /\ calls[d].at # "idle"
                   /\ SameWork(calls[d], calls'[d])
                   /\ calls'[d].alone = FALSE
                   /\ calls'[d].checked => calls[d].checked /\ ~ saved
  <2>1. calls[d] \in CallType /\ (calls[d].at = "idle" => calls[d] = NoCall)
    BY DEF TypeInv, TypeOK
  <2>2. CASE d = c \/ calls[d].at = "idle"
    BY <2>1, <2>2, NoCallIs DEF Disturbed
  <2>3. CASE d # c /\ calls[d].at # "idle"
    <3>1. calls'[d] =
             [calls[d] EXCEPT !.alone = FALSE,
                              !.checked = @ /\ ~ saved,
                              !.moves = {x \in @ : Key(x) \notin deleted},
                              !.deletes = @ \ deleted]
      BY <2>3 DEF Disturbed
    <3>2. PICK e : e = calls'[d]
      OBVIOUS
    <3>3. e.checked \in BOOLEAN /\ (e.checked => calls[d].checked /\ ~ saved)
      BY <2>1, <3>1, <3>2, Zenon DEF CallType
    <3>4. /\ e.moves = {x \in calls[d].moves : Key(x) \notin deleted}
          /\ e.deletes = calls[d].deletes \ deleted
          /\ e.alone = FALSE
          /\ e.at = calls[d].at /\ e.own = calls[d].own /\ e.row = calls[d].row
          /\ e.through = calls[d].through /\ e.seen = calls[d].seen
          /\ e.inserts = calls[d].inserts
          /\ DOMAIN e = DOMAIN calls[d]
      BY <2>1, <3>1, <3>2 DEF CallType
    <3>5. SameWork(calls[d], e)
      BY <3>4 DEF SameWork
    <3>6. e.moves \in SUBSET ChargeType /\ e.deletes \in SUBSET (Schedules \X Days \X {0})
      BY <2>1, <3>4 DEF CallType
    <3>7. e \in CallType
      BY <2>1, <3>1, <3>2, <3>3, <3>4, <3>6 DEF CallType
    <3> QED
      BY <2>3, <3>2, <3>3, <3>4, <3>5, <3>7
  <2> QED
    BY <2>2, <2>3
<1>2. ASSUME NEW d \in Calls
      PROVE  Carried(d) /\ IF d = c THEN calls'[d] = NoCall ELSE calls'[d].at = calls[d].at
  <2>1. CASE (d = c \/ calls[d].at = "idle") /\ calls'[d] = NoCall
    <3>1. calls[d].at = "idle" => calls[d] = NoCall
      BY DEF TypeInv
    <3> QED
      BY <2>1, <3>1 DEF Carried
  <2>2. CASE /\ d # c /\ calls[d].at # "idle"
             /\ SameWork(calls[d], calls'[d])
             /\ calls'[d].alone = FALSE
             /\ calls'[d].checked => calls[d].checked /\ ~ saved
    BY <2>2 DEF Carried, SameWork
  <2> QED
    BY <1>1, <2>1, <2>2
<1> QED
  BY <1>0, <1>1, <1>2

LEMMA SavedIs ==
    ASSUME NEW rows \in [Schedules -> ScheduleType], NEW s \in Schedules,
           NEW row \in ScheduleType
    PROVE  /\ [rows EXCEPT ![s] = row] \in [Schedules -> ScheduleType]
           /\ [rows EXCEPT ![s].end = row.end] \in [Schedules -> ScheduleType]
<1>1. PICK r : r = [rows[s] EXCEPT !.end = row.end]
  OBVIOUS
<1>2. r \in ScheduleType
  BY <1>1 DEF ScheduleType
<1>3. [rows EXCEPT ![s].end = row.end] = [rows EXCEPT ![s] = r]
  BY <1>1
<1> QED
  BY <1>2, <1>3

(* The schedules once a request on own, with the row it writes, commits.   *)
Saved(rows, own, row) ==
    IF own = None THEN rows
    ELSE IF rows[own].status = "absent" THEN [rows EXCEPT ![own] = row]
    ELSE [rows EXCEPT ![own].end = row.end]

SavedBy(call, rows) == Saved(rows, call.own, call.row)

LEMMA SavedByIs ==
    ASSUME NEW rows \in [Schedules -> ScheduleType], NEW call \in CallType
    PROVE  SavedBy(call, rows) \in [Schedules -> ScheduleType]
<1>1. call.own \in Schedules \union {None} /\ call.row \in ScheduleType
  BY DEF CallType
<1> QED
  BY <1>1, SavedIs DEF SavedBy, Saved

LEMMA CommitIs ==
    ASSUME TypeInv, NEW c \in Calls, Commit(c)
    PROVE  /\ calls' \in [Calls -> CallType]
           /\ \A d \in Calls : Carried(d)
           /\ \A d \in Calls : IF d = c THEN calls'[d] = NoCall ELSE calls'[d].at = calls[d].at
           /\ calls[c].at = "writing"
           /\ \A x \in charges, y \in calls[c].inserts : Key(x) # Key(y)
           /\ schedules' = SavedBy(calls[c], schedules)
           /\ schedules' \in [Schedules -> ScheduleType]
           /\ charges' = Written(charges, calls[c].inserts, calls[c].moves, calls[c].deletes)
           /\ charges' \subseteq ChargeType /\ OneEach(charges')
           /\ raced' = (raced \/ (calls[c].own # None /\ ~ calls[c].checked))
           /\ UNCHANGED <<today, edits>>
<1>1. calls \in [Calls -> CallType] /\ calls[c] \in CallType
      /\ charges \subseteq ChargeType /\ OneEach(charges)
      /\ schedules \in [Schedules -> ScheduleType] /\ OneEach(calls[c].inserts)
  BY DEF TypeInv, TypeOK, OneEach, Generated
<1>2. schedules' = SavedBy(calls[c], schedules)
  BY DEF Commit, SavedSchedules, SavedBy, Saved
<1>3. schedules' \in [Schedules -> ScheduleType]
  BY <1>1, <1>2, SavedByIs
<1>4. \A x \in charges, y \in calls[c].inserts : Key(x) # Key(y)
  BY DEF Commit, Duplicates
<1>5. charges' = Written(charges, calls[c].inserts, calls[c].moves, calls[c].deletes)
  BY DEF Commit, Written
<1>6. charges' \subseteq ChargeType /\ OneEach(charges')
  <2>1. calls[c].inserts \subseteq ChargeType /\ calls[c].moves \subseteq ChargeType
    BY <1>1 DEF CallType
  <2> QED
    BY <1>1, <1>4, <1>5, <2>1, WrittenIs
<1>7. calls[c].at = "writing" /\ UNCHANGED <<today, edits>>
      /\ raced' = (raced \/ (calls[c].own # None /\ ~ calls[c].checked))
  BY DEF Commit
<1>8. /\ calls' \in [Calls -> CallType]
      /\ \A d \in Calls : Carried(d)
      /\ \A d \in Calls : IF d = c THEN calls'[d] = NoCall ELSE calls'[d].at = calls[d].at
  <2>1. CASE charges' = charges /\ schedules' = schedules
    <3>1. calls' = [calls EXCEPT ![c] = NoCall]
      BY <2>1 DEF Commit
    <3> QED
      BY <1>1, <2>1, <3>1, NoCallIs DEF Carried
  <2>2. CASE ~ (charges' = charges /\ schedules' = schedules)
    <3>1. calls' = Disturbed(c, calls[c].deletes, schedules' # schedules)
      BY <2>2 DEF Commit
    <3> QED
      BY <3>1, CarriedIs
  <2> QED
    BY <2>1, <2>2
<1> QED
  BY <1>2, <1>3, <1>4, <1>5, <1>6, <1>7, <1>8

LEMMA RollBackIs ==
    ASSUME TypeInv, NEW c \in Calls, RollBack(c)
    PROVE  /\ calls' \in [Calls -> CallType]
           /\ \A d \in Calls : Carried(d)
           /\ \A d \in Calls : IF d = c THEN calls'[d] = NoCall ELSE calls'[d] = calls[d]
           /\ Duplicates(c)
           /\ UNCHANGED <<today, schedules, charges, edits, raced>>
BY NoCallIs DEF RollBack, TypeInv, TypeOK, Carried

LEMMA DeleteScheduleIs ==
    ASSUME TypeInv, NEW s \in Schedules, DeleteSchedule(s)
    PROVE  /\ calls' \in [Calls -> CallType]
           /\ \A d \in Calls : Carried(d) /\ calls'[d].at = calls[d].at
           /\ schedules[s].status = "live" /\ edits < MaxEdits /\ edits' = edits + 1
           /\ schedules' \in [Schedules -> ScheduleType]
           /\ schedules'[s] = [schedules[s] EXCEPT !.status = "deleted"]
           /\ \A t \in Schedules : t # s => schedules'[t] = schedules[t]
           /\ UNCHANGED <<today, charges, raced>>
<1>1. schedules \in [Schedules -> ScheduleType]
  BY DEF TypeInv, TypeOK
<1>2. PICK r : r = [schedules[s] EXCEPT !.status = "deleted"]
  OBVIOUS
<1>3. r \in ScheduleType
  BY <1>1, <1>2 DEF ScheduleType
<1>4. schedules' = [schedules EXCEPT ![s] = r]
  BY <1>1, <1>2 DEF DeleteSchedule
<1>5. /\ schedules' \in [Schedules -> ScheduleType] /\ schedules'[s] = r
      /\ \A t \in Schedules : t # s => schedules'[t] = schedules[t]
  BY <1>1, <1>3, <1>4
<1>6. calls' = Disturbed(None, {}, TRUE)
  BY DEF DeleteSchedule
<1>7. /\ calls' \in [Calls -> CallType]
      /\ \A d \in Calls : Carried(d) /\ calls'[d].at = calls[d].at
  <2>1. \A d \in Calls : d # None
    BY ConstantsAssumption
  <2> QED
    BY <1>6, <2>1, CarriedIs
<1> QED
  BY <1>2, <1>5, <1>7 DEF DeleteSchedule, Edit, Live

(* The host changes charges, not schedules.                                *)
LEMMA EditIs ==
    ASSUME TypeInv, NEW deleted, calls' = Disturbed(None, deleted, FALSE), Edit,
           UNCHANGED <<today, schedules, raced>>
    PROVE  /\ calls' \in [Calls -> CallType]
           /\ \A d \in Calls : Carried(d) /\ calls'[d].at = calls[d].at
           /\ edits < MaxEdits /\ edits' = edits + 1
<1>1. \A d \in Calls : d # None
  BY ConstantsAssumption
<1>2. schedules' = schedules
  OBVIOUS
<1> QED
  BY <1>1, <1>2, CarriedIs DEF Edit

LEMMA CallsCarried ==
    ASSUME TypeInv, calls' \in [Calls -> CallType], \A d \in Calls : Carried(d),
           NEW d \in Calls
    PROVE  /\ Generated(calls'[d].inserts)
           /\ calls'[d].at = "idle" => calls'[d] = NoCall
           /\ calls'[d].at = "saving" => calls'[d].own \in Schedules
<1>1. /\ Generated(calls[d].inserts)
      /\ calls[d].at = "idle" => calls[d] = NoCall
      /\ calls[d].at = "saving" => calls[d].own \in Schedules
  BY DEF TypeInv
<1>2. Carried(d)
  OBVIOUS
<1>3. CASE calls'[d] = NoCall
  BY <1>3, NoCallIs
<1>4. CASE calls'[d] = calls[d]
  BY <1>1, <1>4
<1>5. CASE SameWork(calls[d], calls'[d]) /\ calls[d].at # "idle"
  <2>1. /\ calls'[d].at = calls[d].at /\ calls'[d].own = calls[d].own
        /\ calls'[d].inserts = calls[d].inserts
    BY <1>5 DEF SameWork
  <2> QED
    BY <1>1, <1>5, <2>1
<1> QED
  BY <1>2, <1>3, <1>4, <1>5 DEF Carried

LEMMA TypeInit == Init => TypeInv
<1> SUFFICES ASSUME Init PROVE TypeInv
  OBVIOUS
<1>1. today \in Days /\ edits \in 0 .. MaxEdits /\ raced \in BOOLEAN /\ charges = {}
  <2>1. 0 \in 0 .. LastDay /\ 0 \in 0 .. MaxEdits
    BY ConstantsAssumption
  <2> QED
    BY <2>1 DEF Init, Days
<1>2. schedules \in [Schedules -> ScheduleType]
  BY NoCallIs DEF Init
<1>3. calls \in [Calls -> CallType] /\ \A c \in Calls : calls[c] = NoCall
  BY NoCallIs DEF Init
<1> QED
  BY <1>1, <1>2, <1>3, NoCallIs DEF TypeInv, TypeOK

LEMMA AddChargeIs ==
    ASSUME TypeInv, NEW o \in OneOffs, AddCharge(o)
    PROVE  /\ calls' \in [Calls -> CallType]
           /\ \A d \in Calls : Carried(d) /\ calls'[d].at = calls[d].at
           /\ edits < MaxEdits /\ edits' = edits + 1
           /\ UNCHANGED <<today, schedules, raced>>
           /\ \E x \in ChargeType : /\ charges' = charges \union {x}
                                    /\ x.schedule = None /\ x.waived = FALSE
                                    /\ x.number = edits'
                                    /\ \A y \in charges : Key(y) # Key(x)
<1>1. PICK x : x = [Charge(None, o.due, o.due, o.amount) EXCEPT !.number = edits']
  OBVIOUS
<1>2. x.schedule = None /\ x.waived = FALSE
  BY <1>1 DEF Charge
<1>3. /\ charges' = charges \union {x}
      /\ calls' = Disturbed(None, {}, FALSE) /\ Edit
      /\ UNCHANGED <<today, schedules, raced>>
  BY <1>1 DEF AddCharge
<1>4. edits \in Nat /\ MaxEdits \in Nat /\ edits' = edits + 1 /\ edits' \in 0 .. MaxEdits
  BY <1>3, ConstantsAssumption DEF TypeInv, TypeOK, Edit
<1>5. x \in ChargeType /\ x.number = edits'
  <2>1. x = [schedule |-> None, start |-> o.due, end |-> o.due, amount |-> o.amount,
             waived |-> FALSE, number |-> edits']
    BY <1>1 DEF Charge
  <2>2. o.due \in Days /\ o.due \in Nat /\ o.amount \in Nat
    BY ConstantsAssumption DEF Days
  <2> QED
    BY <1>4, <2>1, <2>2 DEF ChargeType
<1>6. \A y \in charges : Key(y) # Key(x)
  <2>1. \A y \in charges : y.number \in Nat /\ y.number <= edits
    BY DEF TypeInv, TypeOK, ChargeType
  <2> QED
    BY <1>4, <1>5, <2>1, KeysAre
<1> QED
  BY <1>2, <1>3, <1>5, <1>6, EditIs

LEMMA SetWaiverIs ==
    ASSUME TypeInv, NEW x \in charges, NEW waived \in BOOLEAN, SetWaiver(x, waived)
    PROVE  /\ calls' \in [Calls -> CallType]
           /\ \A d \in Calls : Carried(d) /\ calls'[d].at = calls[d].at
           /\ edits < MaxEdits /\ edits' = edits + 1
           /\ UNCHANGED <<today, schedules, raced>>
           /\ \E y \in ChargeType : /\ charges' = (charges \ {x}) \union {y}
                                    /\ y.schedule = x.schedule /\ y.start = x.start
                                    /\ y.number = x.number /\ Key(y) = Key(x)
<1>1. x \in ChargeType
  BY DEF TypeInv, TypeOK
<1>2. PICK y : y = [x EXCEPT !.waived = waived]
  OBVIOUS
<1>3. y \in ChargeType /\ y.schedule = x.schedule /\ y.start = x.start /\ y.number = x.number
  BY <1>1, <1>2 DEF ChargeType
<1>4. /\ charges' = (charges \ {x}) \union {y}
      /\ calls' = Disturbed(None, {}, FALSE) /\ Edit
      /\ UNCHANGED <<today, schedules, raced>>
  BY <1>2 DEF SetWaiver
<1> QED
  BY <1>3, <1>4, EditIs, KeysAre

LEMMA DeleteChargeIs ==
    ASSUME TypeInv, NEW x \in charges, DeleteCharge(x)
    PROVE  /\ calls' \in [Calls -> CallType]
           /\ \A d \in Calls : Carried(d) /\ calls'[d].at = calls[d].at
           /\ edits < MaxEdits /\ edits' = edits + 1
           /\ UNCHANGED <<today, schedules, raced>>
           /\ charges' = charges \ {x}
<1>1. /\ charges' = charges \ {x}
      /\ calls' = Disturbed(None, {Key(x)}, FALSE) /\ Edit
      /\ UNCHANGED <<today, schedules, raced>>
  BY DEF DeleteCharge
<1> QED
  BY <1>1, EditIs

(* What the host enters by hand is numbered in the order of the edits.     *)
LEMMA NumbersRight ==
    ASSUME TypeInv, [Next]_vars
    PROVE  \A x \in charges' : x.number <= edits'
<1>1. /\ charges \subseteq ChargeType /\ edits \in Nat
      /\ \A x \in charges : x.number \in Nat /\ x.number <= edits
  BY DEF TypeInv, TypeOK, ChargeType
<1>2. ASSUME charges' \subseteq charges, edits' = edits \/ edits' = edits + 1
      PROVE  \A x \in charges' : x.number <= edits'
  BY <1>1, <1>2
<1>3. ASSUME NEW c \in Calls, Commit(c) PROVE \A x \in charges' : x.number <= edits'
  <2>1. /\ charges' = Written(charges, calls[c].inserts, calls[c].moves, calls[c].deletes)
        /\ edits' = edits
    BY <1>3, CommitIs
  <2>2. calls[c].moves \subseteq ChargeType /\ \A x \in calls[c].inserts : x.number = 0
    BY DEF TypeInv, TypeOK, CallType, Generated
  <2>3. \A y \in charges : Moved(y, calls[c].moves).number = y.number
    BY <1>1, <2>2, MovedKeeps
  <2> QED
    BY <1>1, <2>1, <2>2, <2>3 DEF Written
<1>4. ASSUME NEW o \in OneOffs, AddCharge(o) PROVE \A x \in charges' : x.number <= edits'
  <2>1. PICK x \in ChargeType : charges' = charges \union {x} /\ x.number = edits'
    BY <1>4, AddChargeIs
  <2>2. edits' = edits + 1
    BY <1>4, AddChargeIs
  <2> QED
    BY <1>1, <2>1, <2>2
<1>5. ASSUME NEW x \in charges, NEW waived \in BOOLEAN, SetWaiver(x, waived)
      PROVE  \A y \in charges' : y.number <= edits'
  <2>1. PICK y \in ChargeType : charges' = (charges \ {x}) \union {y} /\ y.number = x.number
    BY <1>5, SetWaiverIs
  <2>2. edits' = edits + 1
    BY <1>5, SetWaiverIs
  <2> QED
    BY <1>1, <2>1, <2>2
<1>6. ASSUME NEW x \in charges, DeleteCharge(x) PROVE \A y \in charges' : y.number <= edits'
  BY <1>2, <1>6, DeleteChargeIs
<1>7. ASSUME NEW c \in Calls, Request(c), ~ Commit(c)
      PROVE  charges' = charges /\ (edits' = edits \/ edits' = edits + 1)
  BY <1>7 DEF Request, CreateSchedule, UpdateSchedule, GetLedger, UpdateTerms,
              ListForSchedule, RollBack, Begin, Edit
<1>8. ASSUME NEW s \in Schedules, DeleteSchedule(s)
      PROVE  charges' = charges /\ edits' = edits + 1
  BY <1>8, DeleteScheduleIs
<1>9. CASE NextDay \/ UNCHANGED vars
  BY <1>2, <1>9 DEF NextDay, vars
<1> QED
  BY <1>2, <1>3, <1>4, <1>5, <1>6, <1>7, <1>8, <1>9 DEF Next

LEMMA TypeStep == TypeInv /\ [Next]_vars => TypeInv'
<1> SUFFICES ASSUME TypeInv, [Next]_vars PROVE TypeInv'
  OBVIOUS
<1>1. /\ today \in Days /\ schedules \in [Schedules -> ScheduleType]
      /\ charges \subseteq ChargeType /\ OneEach(charges)
      /\ calls \in [Calls -> CallType]
      /\ edits \in 0 .. MaxEdits /\ raced \in BOOLEAN
  BY DEF TypeInv, TypeOK, OneEach
<1>2. \A d \in Calls : /\ Generated(calls[d].inserts)
                       /\ calls[d].at = "idle" => calls[d] = NoCall
                       /\ calls[d].at = "saving" => calls[d].own \in Schedules
  BY DEF TypeInv
<1> DEFINE CallsRight == \A d \in Calls : /\ Generated(calls'[d].inserts)
                                          /\ calls'[d].at = "idle" => calls'[d] = NoCall
                                          /\ calls'[d].at = "saving" => calls'[d].own \in Schedules
           Typed == /\ today' \in Days /\ schedules' \in [Schedules -> ScheduleType]
                    /\ charges' \subseteq ChargeType /\ OneEach(charges')
                    /\ calls' \in [Calls -> CallType]
                    /\ edits' \in 0 .. MaxEdits /\ raced' \in BOOLEAN
<1>3. edits < MaxEdits /\ edits' = edits + 1 => edits' \in 0 .. MaxEdits
  BY <1>1, ConstantsAssumption
<1>4. ASSUME NEW c \in Calls, NEW where \in {"saving", "loading"}, NEW own \in Schedules \union {None},
             NEW row, NEW through, NEW seen, Begun(c, where, own, row, through, seen),
             where = "saving" => own \in Schedules
      PROVE  CallsRight /\ calls' \in [Calls -> CallType]
                        /\ UNCHANGED <<today, schedules, charges, raced>>
  BY <1>2, <1>4, NoCallIs DEF Begun, Generated, OneEach
<1>5. (\A d \in Calls : Carried(d)) /\ calls' \in [Calls -> CallType] => CallsRight
  BY CallsCarried
<1>6. Typed /\ CallsRight
  <2>1. CASE NextDay
    BY <1>1, <1>2, <2>1, ConstantsAssumption DEF NextDay, Days
  <2>2. CASE UNCHANGED vars
    BY <1>1, <1>2, <2>2 DEF vars
  <2>3. ASSUME NEW c \in Calls, NEW s \in Schedules, NEW terms \in Terms, CreateSchedule(c, s, terms)
        PROVE  Typed /\ CallsRight
    <3>1. PICK row \in ScheduleType : Begun(c, "loading", s, row, today, [schedules EXCEPT ![s] = row])
      BY <2>3, CreateIs
    <3>2. edits < MaxEdits /\ edits' = edits + 1
      BY <2>3, CreateIs
    <3>3. CallsRight /\ calls' \in [Calls -> CallType]
          /\ UNCHANGED <<today, schedules, charges, raced>>
      BY <3>1, <1>4
    <3> QED
      BY <1>1, <1>3, <3>2, <3>3
  <2>4. ASSUME NEW c \in Calls, NEW s \in Schedules, NEW end \in EndDates, UpdateSchedule(c, s, end)
        PROVE  Typed /\ CallsRight
    <3>1. PICK row \in ScheduleType : Begun(c, "saving", s, row, today, [schedules EXCEPT ![s] = row])
      BY <2>4, UpdateIs
    <3>2. edits < MaxEdits /\ edits' = edits + 1
      BY <2>4, UpdateIs
    <3>3. CallsRight /\ calls' \in [Calls -> CallType]
          /\ UNCHANGED <<today, schedules, charges, raced>>
      BY <3>1, <1>4
    <3> QED
      BY <1>1, <1>3, <3>2, <3>3
  <2>5. ASSUME NEW c \in Calls, NEW asOf \in Days, GetLedger(c, asOf)
        PROVE  Typed /\ CallsRight
    <3>1. Begun(c, "loading", None, NoSchedule, asOf, schedules) /\ edits' = edits
      BY <2>5, GetIs
    <3>2. CallsRight /\ calls' \in [Calls -> CallType]
          /\ UNCHANGED <<today, schedules, charges, raced>>
      BY <3>1, <1>4
    <3> QED
      BY <1>1, <3>1, <3>2
  <2>6. ASSUME NEW c \in Calls, UpdateTerms(c) PROVE Typed /\ CallsRight
    <3>1. /\ calls' \in [Calls -> CallType]
          /\ \A d \in Calls : d # c => calls'[d] = calls[d]
          /\ calls'[c].at = "loading" /\ calls'[c].inserts = calls[c].inserts
          /\ UNCHANGED <<today, schedules, charges, edits, raced>>
      BY <2>6, TermsIs
    <3>2. CallsRight
      BY <1>2, <3>1
    <3> QED
      BY <1>1, <3>1, <3>2
  <2>7. ASSUME NEW c \in Calls, ListForSchedule(c) PROVE Typed /\ CallsRight
    <3>1. /\ calls' \in [Calls -> CallType]
          /\ \A d \in Calls : d # c => calls'[d] = calls[d]
          /\ calls'[c].at = "writing"
          /\ UNCHANGED <<today, schedules, charges, edits, raced>>
      BY <2>7, ListIs
    <3>2. Generated(calls'[c].inserts)
      BY <2>7, ListIs, InsertsApart, InsertsAre DEF Generated
    <3>3. CallsRight
      BY <1>2, <3>1, <3>2
    <3> QED
      BY <1>1, <3>1, <3>3
  <2>8. ASSUME NEW c \in Calls, Commit(c) PROVE Typed /\ CallsRight
    <3>1. /\ calls' \in [Calls -> CallType]
          /\ \A d \in Calls : Carried(d)
          /\ schedules' \in [Schedules -> ScheduleType]
          /\ charges' \subseteq ChargeType /\ OneEach(charges')
          /\ UNCHANGED <<today, edits>>
      BY <2>8, CommitIs
    <3>2. raced' \in BOOLEAN
      BY <2>8 DEF Commit
    <3> QED
      BY <1>1, <1>5, <3>1, <3>2
  <2>9. ASSUME NEW c \in Calls, RollBack(c) PROVE Typed /\ CallsRight
    BY <1>1, <1>5, <2>9, RollBackIs
  <2>10. ASSUME NEW s \in Schedules, DeleteSchedule(s) PROVE Typed /\ CallsRight
    BY <1>1, <1>3, <1>5, <2>10, DeleteScheduleIs
  <2>11. ASSUME NEW o \in OneOffs, AddCharge(o) PROVE Typed /\ CallsRight
    <3>1. PICK x \in ChargeType : charges' = charges \union {x} /\ \A y \in charges : Key(y) # Key(x)
      BY <2>11, AddChargeIs
    <3>2. charges' \subseteq ChargeType /\ OneEach(charges')
      BY <1>1, <3>1 DEF OneEach
    <3> QED
      BY <1>1, <1>3, <1>5, <2>11, <3>2, AddChargeIs
  <2>12. ASSUME NEW x \in charges, NEW waived \in BOOLEAN, SetWaiver(x, waived) PROVE Typed /\ CallsRight
    <3>1. PICK y \in ChargeType : charges' = (charges \ {x}) \union {y} /\ Key(y) = Key(x)
      BY <2>12, SetWaiverIs
    <3>2. charges' \subseteq ChargeType /\ OneEach(charges')
      BY <1>1, <3>1 DEF OneEach
    <3> QED
      BY <1>1, <1>3, <1>5, <2>12, <3>2, SetWaiverIs
  <2>13. ASSUME NEW x \in charges, DeleteCharge(x) PROVE Typed /\ CallsRight
    <3>1. charges' = charges \ {x}
      BY <2>13, DeleteChargeIs
    <3>2. charges' \subseteq ChargeType /\ OneEach(charges')
      BY <1>1, <3>1 DEF OneEach
    <3> QED
      BY <1>1, <1>3, <1>5, <2>13, <3>2, DeleteChargeIs
  <2> HIDE DEF Typed, CallsRight
  <2> QED
    BY <2>1, <2>2, <2>3, <2>4, <2>5, <2>6, <2>7, <2>8, <2>9, <2>10, <2>11, <2>12, <2>13
    DEF Next, Request
<1> HIDE DEF CallsRight
<1>7. \A x \in charges' : x.number <= edits'
  BY <1>6, NumbersRight
<1> QED
  BY <1>6, <1>7 DEF CallsRight, TypeInv, TypeOK, OneEach

(* All variables keep their types, and no two charges of a schedule begin  *)
(* on one day: no request writes a second charge for a period. One-offs,   *)
(* which the unique index leaves out, are told apart by nothing but their  *)
(* ids.                                                                    *)
THEOREM TypeCorrect == Spec => []TypeOK
<1>1. TypeInv => TypeOK
  BY DEF TypeInv
<1> QED
  BY <1>1, TypeInit, TypeStep, PTL DEF Spec

-----------------------------------------------------------------------------
(* The start, the cadence and the amount of a schedule never change, nor   *)
(* does its row go: what a request has read and decided fits the calendar  *)
(* of the schedule whenever it commits.                                    *)

Kept(rows, later) ==
    \A s \in Schedules : rows[s].status # "absent" =>
        later[s].status # "absent" /\ SameTerms(rows[s], later[s])

(* A schedule that is not there yet is the work of one request.            *)
OwnsAlone ==
    \A c, d \in Calls :
        /\ calls[c].own \in Schedules /\ schedules[calls[c].own].status = "absent"
        /\ calls[d].own = calls[c].own
        => c = d

OwnKept(c) ==
    calls[c].own \in Schedules =>
        /\ calls[c].row.status # "absent"
        /\ schedules[calls[c].own].status # "absent" =>
              SameTerms(calls[c].row, schedules[calls[c].own])

SeenKept(c) ==
    /\ Kept(calls[c].seen, SavedBy(calls[c], schedules))
    /\ calls[c].at = "saving" => /\ calls[c].seen[calls[c].own].status # "absent"
                                 /\ schedules[calls[c].own].status # "absent"

InsertsKept(c) ==
    \A y \in calls[c].inserts :
        /\ y.schedule \in Schedules
        /\ SavedBy(calls[c], schedules)[y.schedule].status # "absent"
        /\ Aligned(SavedBy(calls[c], schedules)[y.schedule], y)

ChargesKept ==
    \A x \in charges : x.schedule \in Schedules =>
        /\ schedules[x.schedule].status # "absent"
        /\ Aligned(schedules[x.schedule], x)

RowsKept ==
    /\ OwnsAlone /\ ChargesKept
    /\ \A c \in Calls : OwnKept(c) /\ SeenKept(c) /\ InsertsKept(c)

(* What an undisturbed request has read and decided is what it would read  *)
(* and decide now.                                                         *)
Planned(c) ==
    calls[c].alone =>
        /\ calls[c].at \in {"loading", "saving"} =>
              calls[c].seen = SavedBy(calls[c], schedules)
        /\ calls[c].at = "writing" =>
              /\ calls[c].inserts =
                    InsertsOf(SavedBy(calls[c], schedules), charges, calls[c].through)
              /\ calls[c].moves =
                    MovesOf(SavedBy(calls[c], schedules), charges, calls[c].through)
              /\ calls[c].deletes =
                    DeletesOf(SavedBy(calls[c], schedules), charges, calls[c].through)

LEMMA KeptAlong ==
    ASSUME NEW a, NEW b, NEW e, Kept(a, b), Kept(b, e)
    PROVE  Kept(a, e)
BY DEF Kept, SameTerms

LEMMA SavedKept ==
    ASSUME NEW rows \in [Schedules -> ScheduleType], NEW later \in [Schedules -> ScheduleType],
           Kept(rows, later), NEW own \in Schedules \union {None}, NEW row \in ScheduleType,
           own \in Schedules => row.status # "absent" /\
               (rows[own].status = "absent" => later[own].status = "absent")
    PROVE  Kept(Saved(rows, own, row), Saved(later, own, row))
<1>0. None \notin Schedules
  BY ConstantsAssumption
<1>1. CASE own = None
  BY <1>1 DEF Saved
<1>2. CASE own \in Schedules /\ rows[own].status = "absent"
  <2>1. Saved(rows, own, row) = [rows EXCEPT ![own] = row]
        /\ Saved(later, own, row) = [later EXCEPT ![own] = row]
    BY <1>0, <1>2 DEF Saved
  <2> QED
    BY <1>2, <2>1 DEF Kept, SameTerms
<1>3. CASE own \in Schedules /\ rows[own].status # "absent"
  <2>1. later[own].status # "absent" /\ SameTerms(rows[own], later[own])
    BY <1>3 DEF Kept
  <2>2. Saved(rows, own, row) = [rows EXCEPT ![own].end = row.end]
        /\ Saved(later, own, row) = [later EXCEPT ![own].end = row.end]
    BY <1>0, <1>3, <2>1 DEF Saved
  <2>3. ASSUME NEW s \in Schedules, s # own
        PROVE  Saved(rows, own, row)[s] = rows[s] /\ Saved(later, own, row)[s] = later[s]
    BY <2>2, <2>3
  <2>4. /\ Saved(rows, own, row)[own].status = rows[own].status
        /\ Saved(later, own, row)[own].status = later[own].status
        /\ SameTerms(Saved(rows, own, row)[own], rows[own])
        /\ SameTerms(Saved(later, own, row)[own], later[own])
    BY <1>3, <2>2 DEF ScheduleType, SameTerms
  <2>5. ASSUME NEW s \in Schedules, Saved(rows, own, row)[s].status # "absent"
        PROVE  /\ Saved(later, own, row)[s].status # "absent"
               /\ SameTerms(Saved(rows, own, row)[s], Saved(later, own, row)[s])
    <3>1. CASE s = own
      BY <2>1, <2>4, <3>1 DEF SameTerms
    <3>2. CASE s # own
      BY <2>3, <2>5, <3>2 DEF Kept
    <3> QED
      BY <3>1, <3>2
  <2> QED
    BY <2>5 DEF Kept
<1> QED
  BY <1>1, <1>2, <1>3

(* A commit never takes back what a request counts on.                     *)
LEMMA CallsKept ==
    ASSUME TypeInv, RowsKept, schedules' \in [Schedules -> ScheduleType],
           calls' \in [Calls -> CallType], Kept(schedules, schedules'),
           \A d \in Calls : Carried(d),
           \A d \in Calls : calls'[d] # NoCall /\ calls[d].own \in Schedules /\
               schedules[calls[d].own].status = "absent" => schedules'[calls[d].own].status = "absent"
    PROVE  OwnsAlone' /\ \A c \in Calls : OwnKept(c)' /\ SeenKept(c)' /\ InsertsKept(c)'
<1>1. /\ schedules \in [Schedules -> ScheduleType] /\ calls \in [Calls -> CallType]
      /\ None \notin Schedules
  BY ConstantsAssumption DEF TypeInv, TypeOK
<1>2. ASSUME NEW d \in Calls
      PROVE  \/ calls'[d] = NoCall
             \/ /\ calls'[d] # NoCall
                /\ calls'[d].at = calls[d].at /\ calls'[d].own = calls[d].own
                /\ calls'[d].row = calls[d].row /\ calls'[d].seen = calls[d].seen
                /\ calls'[d].inserts = calls[d].inserts
  BY DEF Carried, SameWork
<1>3. OwnsAlone'
  <2> SUFFICES ASSUME NEW c \in Calls, NEW d \in Calls, calls'[c].own \in Schedules,
                      schedules'[calls'[c].own].status = "absent", calls'[d].own = calls'[c].own
               PROVE  c = d
    BY DEF OwnsAlone
  <2>1. calls'[c].own = calls[c].own /\ calls'[d].own = calls[d].own
    BY <1>1, <1>2, NoCallIs
  <2>2. schedules[calls[c].own].status = "absent"
    BY <2>1 DEF Kept
  <2> QED
    BY <2>1, <2>2 DEF RowsKept, OwnsAlone
<1>4. ASSUME NEW d \in Calls PROVE OwnKept(d)' /\ SeenKept(d)' /\ InsertsKept(d)'
  <2>1. CASE calls'[d] = NoCall
    BY <1>1, <2>1, NoCallIs DEF OwnKept, SeenKept, InsertsKept, Kept, NoCall
  <2>2. CASE /\ calls'[d] # NoCall
             /\ calls'[d].at = calls[d].at /\ calls'[d].own = calls[d].own
             /\ calls'[d].row = calls[d].row /\ calls'[d].seen = calls[d].seen
             /\ calls'[d].inserts = calls[d].inserts
    <3>1. OwnKept(d) /\ SeenKept(d) /\ InsertsKept(d)
      BY DEF RowsKept
    <3>2. PICK own \in Schedules \union {None} : own = calls[d].own
      BY <1>1 DEF CallType
    <3>3. PICK row \in ScheduleType : row = calls[d].row
      BY <1>1 DEF CallType
    <3>4. own \in Schedules =>
             /\ row.status # "absent"
             /\ schedules[own].status = "absent" => schedules'[own].status = "absent"
             /\ schedules'[own].status # "absent" => SameTerms(row, schedules[own])
      BY <2>2, <3>1, <3>2, <3>3 DEF OwnKept
    <3>5. PICK before \in [Schedules -> ScheduleType] : before = SavedBy(calls[d], schedules)
      BY <1>1, SavedByIs
    <3>6. PICK after \in [Schedules -> ScheduleType] : after = SavedBy(calls'[d], schedules')
      BY <1>1, SavedByIs
    <3>7. Kept(before, after)
      <4>1. before = Saved(schedules, own, row) /\ after = Saved(schedules', own, row)
        BY <2>2, <3>2, <3>3, <3>5, <3>6 DEF SavedBy
      <4>2. Kept(Saved(schedules, own, row), Saved(schedules', own, row))
        <5>1. own \in Schedules => row.status # "absent" /\
                 (schedules[own].status = "absent" => schedules'[own].status = "absent")
          BY <3>4
        <5>2. PICK rows \in [Schedules -> ScheduleType] : rows = schedules
          BY <1>1
        <5>3. PICK later \in [Schedules -> ScheduleType] : later = schedules'
          OBVIOUS
        <5>4. Kept(rows, later)
          BY <5>2, <5>3
        <5>5. Kept(Saved(rows, own, row), Saved(later, own, row))
          BY <5>1, <5>2, <5>3, <5>4, SavedKept
        <5> QED
          BY <5>2, <5>3, <5>5
      <4> QED
        BY <4>1, <4>2
    <3>8. OwnKept(d)'
      <4>1. ASSUME own \in Schedules, schedules'[own].status # "absent"
            PROVE  SameTerms(row, schedules'[own])
        <5>1. SameTerms(row, schedules[own]) /\ schedules[own].status # "absent"
          BY <3>4, <4>1
        <5>2. SameTerms(schedules[own], schedules'[own])
          BY <4>1, <5>1 DEF Kept
        <5> QED
          BY <5>1, <5>2 DEF SameTerms
      <4>2. own \in Schedules => row.status # "absent"
        BY <3>4
      <4> QED
        BY <2>2, <3>2, <3>3, <4>1, <4>2 DEF OwnKept
    <3>9. SeenKept(d)'
      <4>1. Kept(calls[d].seen, after)
        BY <3>1, <3>5, <3>7, KeptAlong DEF SeenKept
      <4>2. calls[d].at = "saving" => /\ calls[d].seen[own].status # "absent"
                                      /\ schedules'[own].status # "absent"
        BY <3>1, <3>2 DEF SeenKept, Kept, TypeInv
      <4> QED
        BY <2>2, <3>2, <3>6, <4>1, <4>2 DEF SeenKept
    <3>10. InsertsKept(d)'
      <4> SUFFICES ASSUME NEW y \in calls[d].inserts
                   PROVE  /\ y.schedule \in Schedules
                          /\ after[y.schedule].status # "absent"
                          /\ Aligned(after[y.schedule], y)
        BY <2>2, <3>6 DEF InsertsKept
      <4>1. /\ y.schedule \in Schedules /\ before[y.schedule].status # "absent"
            /\ Aligned(before[y.schedule], y)
        BY <3>1, <3>5 DEF InsertsKept
      <4>2. after[y.schedule].status # "absent" /\ SameTerms(before[y.schedule], after[y.schedule])
        BY <3>7, <4>1 DEF Kept
      <4> QED
        BY <4>1, <4>2, AlignedByTerms
    <3> QED
      BY <3>8, <3>9, <3>10
  <2> QED
    BY <1>2, <2>1, <2>2
<1> QED
  BY <1>3, <1>4

LEMMA OthersKept ==
    ASSUME RowsKept, NEW d \in Calls, calls'[d] = calls[d], schedules' = schedules
    PROVE  OwnKept(d)' /\ SeenKept(d)' /\ InsertsKept(d)'
<1>1. OwnKept(d) /\ SeenKept(d) /\ InsertsKept(d)
  BY DEF RowsKept
<1> QED
  BY <1>1 DEF OwnKept, SeenKept, InsertsKept

LEMMA KeptItself == ASSUME NEW rows PROVE Kept(rows, rows)
BY DEF Kept, SameTerms

LEMMA BegunKept ==
    ASSUME TypeInv, RowsKept, NEW c \in Calls, NEW where \in {"saving", "loading"},
           NEW own \in Schedules \union {None}, NEW row \in ScheduleType,
           NEW through, NEW seen, Begun(c, where, own, row, through, seen),
           seen = Saved(schedules, own, row),
           own \in Schedules => row.status # "absent",
           own \in Schedules /\ schedules[own].status = "absent" =>
               where = "loading" /\ \A d \in Calls : calls[d].own # own,
           own \in Schedules /\ schedules[own].status # "absent" =>
               SameTerms(row, schedules[own]),
           where = "saving" => own \in Schedules
    PROVE  RowsKept' /\ \A d \in Calls : Planned(d) => Planned(d)'
<1>1. /\ calls' \in [Calls -> CallType]
      /\ \A d \in Calls : d # c => calls'[d] = calls[d]
      /\ calls'[c].at = where /\ calls'[c].own = own /\ calls'[c].row = row
      /\ calls'[c].seen = seen /\ calls'[c].inserts = {}
      /\ schedules' = schedules /\ charges' = charges
  BY DEF Begun
<1>2. schedules \in [Schedules -> ScheduleType] /\ None \notin Schedules
  BY ConstantsAssumption DEF TypeInv, TypeOK
<1>3. seen = SavedBy(calls'[c], schedules')
  BY <1>1 DEF SavedBy
<1>4. OwnsAlone'
  <2> SUFFICES ASSUME NEW e \in Calls, NEW d \in Calls, calls'[e].own \in Schedules,
                      schedules[calls'[e].own].status = "absent", calls'[d].own = calls'[e].own
               PROVE  e = d
    BY <1>1 DEF OwnsAlone
  <2>1. CASE e # c /\ d # c
    BY <1>1, <2>1 DEF RowsKept, OwnsAlone
  <2>2. CASE e = c \/ d = c
    <3>1. calls'[e].own = own
      BY <1>1, <2>2
    <3>2. \A f \in Calls : f # c => calls'[f].own # own
      BY <1>1, <3>1
    <3> QED
      BY <2>2, <3>1, <3>2
  <2> QED
    BY <2>1, <2>2
<1>5. ChargesKept'
  BY <1>1 DEF RowsKept, ChargesKept
<1>6. OwnKept(c)' /\ InsertsKept(c)'
  BY <1>1 DEF OwnKept, InsertsKept
<1>7. SeenKept(c)'
  <2>1. Kept(calls'[c].seen, SavedBy(calls'[c], schedules'))
    BY <1>1, <1>3, KeptItself
  <2>2. ASSUME where = "saving"
        PROVE  calls'[c].seen[own].status # "absent" /\ schedules'[own].status # "absent"
    <3>1. own \in Schedules /\ schedules[own].status # "absent"
      BY <2>2
    <3>2. seen = [schedules EXCEPT ![own].end = row.end]
      BY <1>2, <3>1 DEF Saved
    <3>3. seen[own].status = schedules[own].status
      BY <1>2, <3>1, <3>2 DEF ScheduleType
    <3> QED
      BY <1>1, <3>1, <3>3
  <2> QED
    BY <1>1, <2>1, <2>2 DEF SeenKept
<1>8. ASSUME NEW d \in Calls PROVE OwnKept(d)' /\ SeenKept(d)' /\ InsertsKept(d)'
  BY <1>1, <1>6, <1>7, OthersKept
<1>9. ASSUME NEW d \in Calls, Planned(d) PROVE Planned(d)'
  BY <1>1, <1>3, <1>9 DEF Planned
<1> QED
  BY <1>4, <1>5, <1>8, <1>9 DEF RowsKept

LEMMA TermsKept ==
    ASSUME TypeInv, RowsKept, NEW c \in Calls, UpdateTerms(c)
    PROVE  RowsKept' /\ \A d \in Calls : Planned(d) => Planned(d)'
<1>1. /\ calls' \in [Calls -> CallType]
      /\ \A d \in Calls : d # c => calls'[d] = calls[d]
      /\ calls[c].at = "saving" /\ calls'[c].at = "loading"
      /\ calls'[c].own = calls[c].own /\ calls'[c].row = calls[c].row
      /\ calls'[c].inserts = calls[c].inserts /\ calls'[c].alone = calls[c].alone
      /\ schedules' = schedules /\ charges' = charges
  BY TermsIs
<1>2. PICK s \in Schedules : s = calls[c].own
  BY TermsIs
<1>3. calls'[c].seen = [calls[c].seen EXCEPT ![s].status = schedules[s].status]
  BY <1>2, TermsIs
<1>4. /\ schedules \in [Schedules -> ScheduleType] /\ None \notin Schedules
      /\ calls[c] \in CallType /\ calls[c].seen \in [Schedules -> ScheduleType]
  BY ConstantsAssumption DEF TypeInv, TypeOK, CallType
<1>5. OwnKept(c) /\ SeenKept(c) /\ InsertsKept(c)
  BY DEF RowsKept
<1>6. calls[c].seen[s].status # "absent" /\ schedules[s].status # "absent"
  BY <1>1, <1>2, <1>5 DEF SeenKept
<1>7. SavedBy(calls'[c], schedules') = SavedBy(calls[c], schedules)
  BY <1>1 DEF SavedBy
<1>8. OwnsAlone'
  BY <1>1 DEF RowsKept, OwnsAlone
<1>9. ChargesKept'
  BY <1>1 DEF RowsKept, ChargesKept
<1>10. OwnKept(c)' /\ InsertsKept(c)'
  BY <1>1, <1>5, <1>7 DEF OwnKept, InsertsKept
<1>11. SeenKept(c)'
  <2>1. PICK later : later = SavedBy(calls[c], schedules)
    OBVIOUS
  <2>2. ASSUME NEW t \in Schedules, calls'[c].seen[t].status # "absent"
        PROVE  later[t].status # "absent" /\ SameTerms(calls'[c].seen[t], later[t])
    <3>1. calls[c].seen[t].status # "absent" /\ SameTerms(calls'[c].seen[t], calls[c].seen[t])
      <4>1. CASE t = s
        BY <1>3, <1>4, <1>6, <4>1 DEF SameTerms, ScheduleType
      <4>2. CASE t # s
        BY <1>3, <1>4, <2>2, <4>2 DEF SameTerms
      <4> QED
        BY <4>1, <4>2
    <3> QED
      BY <1>5, <2>1, <3>1 DEF SeenKept, Kept, SameTerms
  <2> QED
    BY <1>1, <1>7, <2>1, <2>2 DEF SeenKept, Kept
<1>12. ASSUME Planned(c) PROVE Planned(c)'
  <2> SUFFICES ASSUME calls[c].alone PROVE calls'[c].seen = SavedBy(calls[c], schedules)
    BY <1>1, <1>7 DEF Planned
  <2>1. calls[c].seen = SavedBy(calls[c], schedules)
    BY <1>1, <1>12 DEF Planned
  <2>2. calls[c].seen = [schedules EXCEPT ![s].end = calls[c].row.end]
    BY <1>2, <1>4, <1>6, <2>1 DEF SavedBy, Saved
  <2>3. calls[c].seen[s].status = schedules[s].status
    BY <1>4, <2>2 DEF ScheduleType
  <2>4. calls'[c].seen = calls[c].seen
    BY <1>3, <1>4, <2>3 DEF ScheduleType
  <2> QED
    BY <2>1, <2>4
<1>13. ASSUME NEW d \in Calls PROVE OwnKept(d)' /\ SeenKept(d)' /\ InsertsKept(d)'
  BY <1>1, <1>10, <1>11, OthersKept
<1>14. ASSUME NEW d \in Calls, Planned(d) PROVE Planned(d)'
  <2>1. CASE d = c
    BY <1>12, <1>14, <2>1
  <2>2. CASE d # c
    BY <1>1, <1>14, <2>2 DEF Planned
  <2> QED
    BY <2>1, <2>2
<1> QED
  BY <1>8, <1>9, <1>13, <1>14 DEF RowsKept

LEMMA ListKept ==
    ASSUME TypeInv, RowsKept, NEW c \in Calls, ListForSchedule(c)
    PROVE  RowsKept' /\ \A d \in Calls : Planned(d) => Planned(d)'
<1>1. /\ calls' \in [Calls -> CallType]
      /\ \A d \in Calls : d # c => calls'[d] = calls[d]
      /\ calls[c].at = "loading" /\ calls'[c].at = "writing"
      /\ calls'[c].own = calls[c].own /\ calls'[c].row = calls[c].row
      /\ calls'[c].through = calls[c].through /\ calls'[c].seen = NothingSeen
      /\ calls'[c].alone = calls[c].alone
      /\ schedules' = schedules /\ charges' = charges
  BY ListIs
<1>2. PICK seen : seen = calls[c].seen
  OBVIOUS
<1>3. /\ Readable(seen, charges, calls[c].through)
      /\ calls'[c].inserts = InsertsOf(seen, charges, calls[c].through)
      /\ calls'[c].moves = MovesOf(seen, charges, calls[c].through)
      /\ calls'[c].deletes = DeletesOf(seen, charges, calls[c].through)
  BY <1>2, ListIs
<1>4. OwnKept(c) /\ SeenKept(c) /\ InsertsKept(c)
  BY DEF RowsKept
<1>5. PICK later : later = SavedBy(calls[c], schedules)
  OBVIOUS
<1>6. SavedBy(calls'[c], schedules') = later
  BY <1>1, <1>5 DEF SavedBy
<1>7. OwnsAlone'
  BY <1>1 DEF RowsKept, OwnsAlone
<1>8. ChargesKept'
  BY <1>1 DEF RowsKept, ChargesKept
<1>9. OwnKept(c)'
  BY <1>1, <1>4 DEF OwnKept
<1>10. SeenKept(c)'
  BY <1>1, NoCallIs DEF SeenKept, Kept
<1>11. InsertsKept(c)'
  <2> SUFFICES ASSUME NEW y \in InsertsOf(seen, charges, calls[c].through)
               PROVE  /\ y.schedule \in Schedules /\ later[y.schedule].status # "absent"
                      /\ Aligned(later[y.schedule], y)
    BY <1>3, <1>6 DEF InsertsKept
  <2>1. /\ y.schedule \in Schedules /\ Live(y.schedule, seen)
        /\ RightCharge(seen[y.schedule], y)
    BY <1>3, InsertsAre
  <2>2. seen[y.schedule].status # "absent" /\ Aligned(seen[y.schedule], y)
    BY <2>1 DEF Live, Aligned, RightCharge
  <2>3. later[y.schedule].status # "absent" /\ SameTerms(seen[y.schedule], later[y.schedule])
    BY <1>2, <1>4, <1>5, <2>1, <2>2 DEF SeenKept, Kept
  <2> QED
    BY <2>1, <2>2, <2>3, AlignedByTerms
<1>12. ASSUME Planned(c) PROVE Planned(c)'
  <2>1. calls[c].alone => seen = later
    BY <1>1, <1>2, <1>5, <1>12 DEF Planned
  <2> QED
    BY <1>1, <1>3, <1>6, <2>1 DEF Planned
<1>13. ASSUME NEW d \in Calls PROVE OwnKept(d)' /\ SeenKept(d)' /\ InsertsKept(d)'
  BY <1>1, <1>9, <1>10, <1>11, OthersKept
<1>14. ASSUME NEW d \in Calls, Planned(d) PROVE Planned(d)'
  <2>1. CASE d = c
    BY <1>12, <1>14, <2>1
  <2>2. CASE d # c
    BY <1>1, <1>14, <2>2 DEF Planned
  <2> QED
    BY <2>1, <2>2
<1> QED
  BY <1>7, <1>8, <1>13, <1>14 DEF RowsKept

LEMMA CarriedPlanned ==
    ASSUME NEW d \in Calls, Carried(d), Planned(d)
    PROVE  Planned(d)'
<1>1. CASE calls'[d] = NoCall
  BY <1>1, NoCallIs DEF Planned
<1>2. CASE calls'[d] = calls[d] /\ UNCHANGED <<schedules, charges>>
  BY <1>2 DEF Planned
<1>3. CASE calls'[d].alone = FALSE
  BY <1>3 DEF Planned
<1> QED
  BY <1>1, <1>2, <1>3 DEF Carried

LEMMA CommitKept ==
    ASSUME TypeInv, RowsKept, NEW c \in Calls, Commit(c)
    PROVE  RowsKept'
<1>1. /\ schedules \in [Schedules -> ScheduleType] /\ calls[c] \in CallType
      /\ charges \subseteq ChargeType /\ None \notin Schedules
  BY ConstantsAssumption DEF TypeInv, TypeOK
<1>2. /\ calls' \in [Calls -> CallType] /\ calls'[c] = NoCall
      /\ \A d \in Calls : Carried(d)
      /\ schedules' = SavedBy(calls[c], schedules)
      /\ schedules' \in [Schedules -> ScheduleType]
      /\ charges' = Written(charges, calls[c].inserts, calls[c].moves, calls[c].deletes)
  BY CommitIs
<1>3. PICK own \in Schedules \union {None} : own = calls[c].own
  BY <1>1 DEF CallType
<1>4. PICK row \in ScheduleType : row = calls[c].row
  BY <1>1 DEF CallType
<1>5. schedules' = Saved(schedules, own, row)
  BY <1>2, <1>3, <1>4 DEF SavedBy
<1>6. /\ OwnsAlone /\ ChargesKept /\ OwnKept(c) /\ InsertsKept(c)
  BY DEF RowsKept
<1>7. \A t \in Schedules : t # own => schedules'[t] = schedules[t]
  BY <1>1, <1>5 DEF Saved
<1>8. Kept(schedules, schedules')
  <2> SUFFICES ASSUME NEW t \in Schedules, schedules[t].status # "absent"
               PROVE  schedules'[t].status # "absent" /\ SameTerms(schedules[t], schedules'[t])
    BY DEF Kept
  <2>1. CASE t # own
    BY <1>7, <2>1 DEF SameTerms
  <2>2. CASE t = own
    <3>1. schedules' = [schedules EXCEPT ![own].end = row.end]
      BY <1>1, <1>5, <2>2 DEF Saved
    <3> QED
      BY <1>1, <2>2, <3>1 DEF SameTerms, ScheduleType
  <2> QED
    BY <2>1, <2>2
<1>9. ASSUME NEW d \in Calls, calls'[d] # NoCall, calls[d].own \in Schedules,
             schedules[calls[d].own].status = "absent"
      PROVE  schedules'[calls[d].own].status = "absent"
  <2>1. calls[d].own # own
    BY <1>2, <1>3, <1>6, <1>9 DEF OwnsAlone
  <2> QED
    BY <1>7, <1>9, <2>1
<1>10. OwnsAlone' /\ \A d \in Calls : OwnKept(d)' /\ SeenKept(d)' /\ InsertsKept(d)'
  BY <1>2, <1>8, <1>9, CallsKept
<1>11. ChargesKept'
  <2> SUFFICES ASSUME NEW x \in charges', x.schedule \in Schedules
               PROVE  /\ schedules'[x.schedule].status # "absent"
                      /\ Aligned(schedules'[x.schedule], x)
    BY DEF ChargesKept
  <2>1. CASE x \in calls[c].inserts
    BY <1>2, <1>6, <2>1 DEF InsertsKept
  <2>2. CASE \E y \in charges : x = Moved(y, calls[c].moves)
    <3>1. PICK y \in charges : x = Moved(y, calls[c].moves)
      BY <2>2
    <3>2. y \in ChargeType /\ calls[c].moves \subseteq ChargeType
      BY <1>1 DEF CallType
    <3>3. x.schedule = y.schedule /\ x.start = y.start
      BY <3>1, <3>2, MovedKeeps
    <3>4. schedules[y.schedule].status # "absent" /\ Aligned(schedules[y.schedule], y)
      BY <1>6, <3>3 DEF ChargesKept
    <3>5. /\ schedules'[y.schedule].status # "absent"
          /\ SameTerms(schedules[y.schedule], schedules'[y.schedule])
      BY <1>8, <3>3, <3>4 DEF Kept
    <3>6. Aligned(schedules'[y.schedule], y)
      BY <3>4, <3>5, AlignedByTerms
    <3> QED
      BY <3>3, <3>5, <3>6 DEF Aligned
  <2> QED
    BY <1>2, <2>1, <2>2 DEF Written
<1> QED
  BY <1>10, <1>11 DEF RowsKept

LEMMA DeleteScheduleKept ==
    ASSUME TypeInv, RowsKept, NEW s \in Schedules, DeleteSchedule(s)
    PROVE  RowsKept'
<1>1. schedules \in [Schedules -> ScheduleType]
  BY DEF TypeInv, TypeOK
<1>2. /\ calls' \in [Calls -> CallType] /\ \A d \in Calls : Carried(d)
      /\ schedules[s].status = "live"
      /\ schedules' \in [Schedules -> ScheduleType]
      /\ schedules'[s] = [schedules[s] EXCEPT !.status = "deleted"]
      /\ \A t \in Schedules : t # s => schedules'[t] = schedules[t]
      /\ charges' = charges
  BY DeleteScheduleIs
<1>3. schedules'[s].status = "deleted" /\ SameTerms(schedules[s], schedules'[s])
  BY <1>1, <1>2 DEF SameTerms, ScheduleType
<1>4. Kept(schedules, schedules')
  BY <1>2, <1>3 DEF Kept, SameTerms
<1>5. \A t \in Schedules : schedules[t].status = "absent" => schedules'[t].status = "absent"
  BY <1>2
<1>6. OwnsAlone' /\ \A d \in Calls : OwnKept(d)' /\ SeenKept(d)' /\ InsertsKept(d)'
  BY <1>2, <1>4, <1>5, CallsKept
<1>7. ChargesKept'
  <2> SUFFICES ASSUME NEW x \in charges, x.schedule \in Schedules
               PROVE  /\ schedules'[x.schedule].status # "absent"
                      /\ Aligned(schedules'[x.schedule], x)
    BY <1>2 DEF ChargesKept
  <2>1. schedules[x.schedule].status # "absent" /\ Aligned(schedules[x.schedule], x)
    BY DEF RowsKept, ChargesKept
  <2>2. /\ schedules'[x.schedule].status # "absent"
        /\ SameTerms(schedules[x.schedule], schedules'[x.schedule])
    BY <1>4, <2>1 DEF Kept
  <2> QED
    BY <2>1, <2>2, AlignedByTerms
<1> QED
  BY <1>6, <1>7 DEF RowsKept

LEMMA EditKept ==
    ASSUME TypeInv, RowsKept, calls' \in [Calls -> CallType], \A d \in Calls : Carried(d),
           schedules' = schedules,
           \A x \in charges' : \/ x.schedule = None
                               \/ \E y \in charges : x.schedule = y.schedule /\ x.start = y.start
    PROVE  RowsKept'
<1>1. schedules \in [Schedules -> ScheduleType] /\ None \notin Schedules
  BY ConstantsAssumption DEF TypeInv, TypeOK
<1>2. Kept(schedules, schedules')
  BY KeptItself
<1>3. OwnsAlone' /\ \A d \in Calls : OwnKept(d)' /\ SeenKept(d)' /\ InsertsKept(d)'
  BY <1>1, <1>2, CallsKept
<1>4. ChargesKept'
  <2> SUFFICES ASSUME NEW x \in charges', x.schedule \in Schedules
               PROVE  /\ schedules[x.schedule].status # "absent"
                      /\ Aligned(schedules[x.schedule], x)
    BY DEF ChargesKept
  <2>1. PICK y \in charges : x.schedule = y.schedule /\ x.start = y.start
    BY <1>1
  <2> QED
    BY <2>1 DEF RowsKept, ChargesKept, Aligned
<1> QED
  BY <1>3, <1>4 DEF RowsKept

Plans == \A c \in Calls : Planned(c)

LEMMA RowsInit == Init /\ TypeInv => RowsKept /\ Plans
<1> SUFFICES ASSUME Init, TypeInv PROVE RowsKept /\ Plans
  OBVIOUS
<1>1. charges = {} /\ \A c \in Calls : calls[c] = NoCall
  BY DEF Init
<1>2. None \notin Schedules
  BY ConstantsAssumption
<1>3. OwnsAlone /\ ChargesKept
  BY <1>1, <1>2, NoCallIs DEF OwnsAlone, ChargesKept
<1>4. \A c \in Calls : OwnKept(c) /\ InsertsKept(c) /\ Planned(c)
  BY <1>1, <1>2, NoCallIs DEF OwnKept, InsertsKept, Planned
<1>5. \A c \in Calls : SeenKept(c)
  BY <1>1, NoCallIs DEF SeenKept, Kept, NoCall
<1> QED
  BY <1>3, <1>4, <1>5 DEF RowsKept, Plans

LEMMA RowsStep == TypeInv /\ RowsKept /\ Plans /\ [Next]_vars => RowsKept' /\ Plans'
<1> SUFFICES ASSUME TypeInv, RowsKept, Plans, [Next]_vars PROVE RowsKept' /\ Plans'
  OBVIOUS
<1>0. /\ schedules \in [Schedules -> ScheduleType] /\ None \notin Schedules
      /\ charges \subseteq ChargeType
  BY ConstantsAssumption DEF TypeInv, TypeOK
<1>1. CASE NextDay \/ UNCHANGED vars
  <2>1. schedules' = schedules /\ charges' = charges /\ calls' = calls
    BY <1>1 DEF NextDay, vars
  <2>2. \A d \in Calls : OwnKept(d)' /\ SeenKept(d)' /\ InsertsKept(d)'
    BY <2>1, OthersKept
  <2>3. OwnsAlone' /\ ChargesKept'
    BY <2>1 DEF RowsKept, OwnsAlone, ChargesKept
  <2>4. Plans'
    BY <2>1 DEF Plans, Planned
  <2> QED
    BY <2>2, <2>3, <2>4 DEF RowsKept
<1>2. ASSUME NEW c \in Calls, NEW s \in Schedules, NEW terms \in Terms, CreateSchedule(c, s, terms)
      PROVE  RowsKept' /\ Plans'
  <2>1. PICK row \in ScheduleType :
           /\ row.status = "live"
           /\ Begun(c, "loading", s, row, today, [schedules EXCEPT ![s] = row])
    BY <1>2, CreateIs
  <2>2. schedules[s].status = "absent" /\ \A d \in Calls : calls[d].own # s
    BY <1>2, CreateIs
  <2>3. [schedules EXCEPT ![s] = row] = Saved(schedules, s, row)
    BY <1>0, <2>2 DEF Saved
  <2>4. RowsKept' /\ \A d \in Calls : Planned(d) => Planned(d)'
    BY <2>1, <2>2, <2>3, BegunKept
  <2> QED
    BY <2>4 DEF Plans
<1>3. ASSUME NEW c \in Calls, NEW s \in Schedules, NEW end \in EndDates, UpdateSchedule(c, s, end)
      PROVE  RowsKept' /\ Plans'
  <2>1. PICK row \in ScheduleType :
           /\ row = [schedules[s] EXCEPT !.end = end]
           /\ Begun(c, "saving", s, row, today, [schedules EXCEPT ![s] = row])
    BY <1>3, UpdateIs
  <2>2. schedules[s].status = "live"
    BY <1>3, UpdateIs
  <2>3. [schedules EXCEPT ![s] = row] = Saved(schedules, s, row)
    <3>1. Saved(schedules, s, row) = [schedules EXCEPT ![s].end = row.end]
      BY <1>0, <2>2 DEF Saved
    <3>2. row.end = end
      BY <1>0, <2>1 DEF ScheduleType
    <3> QED
      BY <1>0, <2>1, <3>1, <3>2
  <2>4. row.status # "absent" /\ SameTerms(row, schedules[s])
    BY <1>0, <2>1, <2>2 DEF SameTerms, ScheduleType
  <2>5. RowsKept' /\ \A d \in Calls : Planned(d) => Planned(d)'
    BY <2>1, <2>2, <2>3, <2>4, BegunKept
  <2> QED
    BY <2>5 DEF Plans
<1>4. ASSUME NEW c \in Calls, NEW asOf \in Days, GetLedger(c, asOf)
      PROVE  RowsKept' /\ Plans'
  <2>1. Begun(c, "loading", None, NoSchedule, asOf, schedules)
    BY <1>4, GetIs
  <2>2. schedules = Saved(schedules, None, NoSchedule)
    BY DEF Saved
  <2>3. RowsKept' /\ \A d \in Calls : Planned(d) => Planned(d)'
    BY <1>0, <2>1, <2>2, NoCallIs, BegunKept
  <2> QED
    BY <2>3 DEF Plans
<1>5. ASSUME NEW c \in Calls, UpdateTerms(c) PROVE RowsKept' /\ Plans'
  BY <1>5, TermsKept DEF Plans
<1>6. ASSUME NEW c \in Calls, ListForSchedule(c) PROVE RowsKept' /\ Plans'
  BY <1>6, ListKept DEF Plans
<1>7. (\A d \in Calls : Carried(d)) => Plans'
  BY CarriedPlanned DEF Plans
<1>8. ASSUME NEW c \in Calls, Commit(c) PROVE RowsKept' /\ Plans'
  BY <1>7, <1>8, CommitIs, CommitKept
<1>9. ASSUME NEW c \in Calls, RollBack(c) PROVE RowsKept' /\ Plans'
  BY <1>7, <1>9, RollBackIs, EditKept
<1>10. ASSUME NEW s \in Schedules, DeleteSchedule(s) PROVE RowsKept' /\ Plans'
  BY <1>7, <1>10, DeleteScheduleIs, DeleteScheduleKept
<1>11. ASSUME NEW o \in OneOffs, AddCharge(o) PROVE RowsKept' /\ Plans'
  <2>1. PICK x : charges' = charges \union {x} /\ x.schedule = None
    BY <1>11, AddChargeIs
  <2> QED
    BY <1>7, <1>11, <2>1, AddChargeIs, EditKept
<1>12. ASSUME NEW x \in charges, NEW waived \in BOOLEAN, SetWaiver(x, waived)
       PROVE  RowsKept' /\ Plans'
  <2>1. PICK y : /\ charges' = (charges \ {x}) \union {y}
                 /\ y.schedule = x.schedule /\ y.start = x.start
    BY <1>12, SetWaiverIs
  <2> QED
    BY <1>7, <1>12, <2>1, SetWaiverIs, EditKept
<1>13. ASSUME NEW x \in charges, DeleteCharge(x) PROVE RowsKept' /\ Plans'
  BY <1>7, <1>13, DeleteChargeIs, EditKept
<1> QED
  BY <1>1, <1>2, <1>3, <1>4, <1>5, <1>6, <1>8, <1>9, <1>10, <1>11, <1>12, <1>13
  DEF Next, Request

-----------------------------------------------------------------------------
(* Unless a schedule has been saved after a look at old rows, no two live  *)
(* schedules overlap, nor will the ones the requests under way are saving. *)

BookedApart ==
    ~ raced => \A s, t \in Schedules : s # t /\ Live(s, schedules) /\ Live(t, schedules) =>
                   ~ Overlaps(schedules[s], schedules[t])

SavesApart(c) ==
    calls[c].own \in Schedules /\ calls[c].checked => NoOverlap(calls[c].own, calls[c].row)

Booking == BookedApart /\ \A c \in Calls : SavesApart(c)

LEMMA CarriedApart ==
    ASSUME NEW d \in Calls, Carried(d), SavesApart(d)
    PROVE  SavesApart(d)'
<1>0. None \notin Schedules
  BY ConstantsAssumption
<1>1. CASE calls'[d] = NoCall
  BY <1>0, <1>1, NoCallIs DEF SavesApart
<1>2. CASE calls'[d] = calls[d] /\ UNCHANGED <<schedules, charges>>
  BY <1>2 DEF SavesApart, NoOverlap
<1>3. CASE /\ SameWork(calls[d], calls'[d])
           /\ calls'[d].checked => calls[d].checked /\ schedules' = schedules
  BY <1>3 DEF SavesApart, NoOverlap, SameWork
<1> QED
  BY <1>1, <1>2, <1>3 DEF Carried

LEMMA BegunApart ==
    ASSUME Booking, NEW c \in Calls, NEW where, NEW own, NEW row, NEW through, NEW seen,
           Begun(c, where, own, row, through, seen),
           own \in Schedules => NoOverlap(own, row)
    PROVE  Booking'
<1>1. /\ \A d \in Calls : d # c => calls'[d] = calls[d]
      /\ calls'[c].own = own /\ calls'[c].row = row
      /\ schedules' = schedules /\ raced' = raced
  BY DEF Begun
<1>2. BookedApart'
  BY <1>1 DEF Booking, BookedApart
<1>3. SavesApart(c)'
  BY <1>1 DEF SavesApart, NoOverlap
<1>4. ASSUME NEW d \in Calls, d # c PROVE SavesApart(d)'
  BY <1>1, <1>4 DEF Booking, SavesApart, NoOverlap
<1> QED
  BY <1>2, <1>3, <1>4 DEF Booking

LEMMA ReadApart ==
    ASSUME Booking, NEW c \in Calls, \A d \in Calls : d # c => calls'[d] = calls[d],
           calls'[c].own = calls[c].own, calls'[c].row = calls[c].row,
           calls'[c].checked = calls[c].checked, UNCHANGED <<schedules, raced>>
    PROVE  Booking'
<1>1. BookedApart'
  BY DEF Booking, BookedApart
<1>2. ASSUME NEW d \in Calls PROVE SavesApart(d)'
  BY DEF Booking, SavesApart, NoOverlap
<1> QED
  BY <1>1, <1>2 DEF Booking

LEMMA CommitApart ==
    ASSUME TypeInv, RowsKept, Booking, NEW c \in Calls, Commit(c)
    PROVE  BookedApart'
<1>1. /\ schedules \in [Schedules -> ScheduleType] /\ calls[c] \in CallType
      /\ None \notin Schedules
  BY ConstantsAssumption DEF TypeInv, TypeOK
<1>2. /\ schedules' = SavedBy(calls[c], schedules)
      /\ raced' = (raced \/ (calls[c].own # None /\ ~ calls[c].checked))
  BY CommitIs
<1>3. CASE calls[c].own = None
  <2>1. schedules' = schedules /\ (~ raced' => ~ raced)
    BY <1>2, <1>3 DEF SavedBy, Saved
  <2> QED
    BY <2>1 DEF Booking, BookedApart
<1>4. CASE calls[c].own \in Schedules
  <2>1. PICK s \in Schedules : s = calls[c].own
    BY <1>4
  <2>2. PICK row \in ScheduleType : row = calls[c].row
    BY <1>1 DEF CallType
  <2>3. schedules' = IF schedules[s].status = "absent" THEN [schedules EXCEPT ![s] = row]
                     ELSE [schedules EXCEPT ![s].end = row.end]
    BY <1>1, <1>2, <2>1, <2>2 DEF SavedBy, Saved
  <2>4. \A t \in Schedules : t # s => schedules'[t] = schedules[t]
    BY <1>1, <2>3
  <2>5. schedules'[s].start = row.start /\ schedules'[s].end = row.end
    <3>1. CASE schedules[s].status = "absent"
      BY <1>1, <2>3, <3>1
    <3>2. CASE schedules[s].status # "absent"
      <4>1. schedules[s].start = row.start
        BY <2>1, <2>2, <3>2 DEF RowsKept, OwnKept, SameTerms
      <4> QED
        BY <1>1, <2>3, <3>2, <4>1 DEF ScheduleType
    <3> QED
      BY <3>1, <3>2
  <2> SUFFICES ASSUME ~ raced',
                      NEW t \in Schedules, NEW u \in Schedules, t # u,
                      Live(t, schedules'), Live(u, schedules')
               PROVE  ~ Overlaps(schedules'[t], schedules'[u])
    BY DEF BookedApart
  <2>6. ~ raced /\ calls[c].checked
    BY <1>1, <1>2, <1>4
  <2>7. NoOverlap(s, row)
    BY <2>1, <2>2, <2>6 DEF Booking, SavesApart
  <2>8. CASE t # s /\ u # s
    BY <2>4, <2>6, <2>8 DEF Booking, BookedApart, Live
  <2>9. CASE t = s
    <3>1. ~ Overlaps(row, schedules[u])
      BY <2>4, <2>7, <2>9 DEF NoOverlap, Live
    <3> QED
      BY <2>4, <2>5, <2>9, <3>1 DEF Overlaps
  <2>10. CASE u = s
    <3>1. ~ Overlaps(row, schedules[t])
      BY <2>4, <2>7, <2>10 DEF NoOverlap, Live
    <3> QED
      BY <2>4, <2>5, <2>10, <3>1 DEF Overlaps
  <2> QED
    BY <2>8, <2>9, <2>10
<1> QED
  BY <1>1, <1>3, <1>4 DEF CallType

LEMMA BookingStep == TypeInv /\ RowsKept /\ Booking /\ [Next]_vars => Booking'
<1> SUFFICES ASSUME TypeInv, RowsKept, Booking, [Next]_vars PROVE Booking'
  OBVIOUS
<1>0. schedules \in [Schedules -> ScheduleType] /\ None \notin Schedules
  BY ConstantsAssumption DEF TypeInv, TypeOK
<1>1. CASE NextDay \/ UNCHANGED vars
  <2>1. schedules' = schedules /\ raced' = raced /\ calls' = calls
    BY <1>1 DEF NextDay, vars
  <2> QED
    BY <2>1 DEF Booking, BookedApart, SavesApart, NoOverlap
<1>2. ASSUME NEW c \in Calls, NEW s \in Schedules, NEW terms \in Terms, CreateSchedule(c, s, terms)
      PROVE  Booking'
  <2>1. PICK row \in ScheduleType :
           /\ NoOverlap(s, row)
           /\ Begun(c, "loading", s, row, today, [schedules EXCEPT ![s] = row])
    BY <1>2, CreateIs
  <2> QED
    BY <2>1, BegunApart
<1>3. ASSUME NEW c \in Calls, NEW s \in Schedules, NEW end \in EndDates, UpdateSchedule(c, s, end)
      PROVE  Booking'
  <2>1. PICK row \in ScheduleType :
           /\ NoOverlap(s, row)
           /\ Begun(c, "saving", s, row, today, [schedules EXCEPT ![s] = row])
    BY <1>3, UpdateIs
  <2> QED
    BY <2>1, BegunApart
<1>4. ASSUME NEW c \in Calls, NEW asOf \in Days, GetLedger(c, asOf) PROVE Booking'
  <2>1. Begun(c, "loading", None, NoSchedule, asOf, schedules)
    BY <1>4, GetIs
  <2> QED
    BY <1>0, <2>1, BegunApart
<1>5. ASSUME NEW c \in Calls, UpdateTerms(c) PROVE Booking'
  BY <1>5, TermsIs, ReadApart
<1>6. ASSUME NEW c \in Calls, ListForSchedule(c) PROVE Booking'
  BY <1>6, ListIs, ReadApart
<1>7. (\A d \in Calls : Carried(d)) => \A d \in Calls : SavesApart(d)'
  BY CarriedApart DEF Booking
<1>8. ASSUME NEW c \in Calls, Commit(c) PROVE Booking'
  BY <1>7, <1>8, CommitIs, CommitApart DEF Booking
<1>9. UNCHANGED <<schedules, raced>> => BookedApart'
  BY DEF Booking, BookedApart
<1>10. ASSUME NEW c \in Calls, RollBack(c) PROVE Booking'
  BY <1>7, <1>9, <1>10, RollBackIs DEF Booking
<1>11. ASSUME NEW s \in Schedules, DeleteSchedule(s) PROVE Booking'
  <2>1. /\ schedules'[s] = [schedules[s] EXCEPT !.status = "deleted"]
        /\ \A t \in Schedules : t # s => schedules'[t] = schedules[t]
        /\ raced' = raced
    BY <1>11, DeleteScheduleIs
  <2>2. schedules'[s].status = "deleted"
    BY <1>0, <2>1 DEF ScheduleType
  <2>3. BookedApart'
    BY <2>1, <2>2 DEF Booking, BookedApart, Live
  <2> QED
    BY <1>7, <1>11, <2>3, DeleteScheduleIs DEF Booking
<1>12. ASSUME NEW o \in OneOffs, AddCharge(o) PROVE Booking'
  BY <1>7, <1>9, <1>12, AddChargeIs DEF Booking
<1>13. ASSUME NEW x \in charges, NEW waived \in BOOLEAN, SetWaiver(x, waived) PROVE Booking'
  BY <1>7, <1>9, <1>13, SetWaiverIs DEF Booking
<1>14. ASSUME NEW x \in charges, DeleteCharge(x) PROVE Booking'
  BY <1>7, <1>9, <1>14, DeleteChargeIs DEF Booking
<1> QED
  BY <1>1, <1>2, <1>3, <1>4, <1>5, <1>6, <1>8, <1>10, <1>11, <1>12, <1>13, <1>14
  DEF Next, Request

-----------------------------------------------------------------------------
(* The transactions.                                                       *)

IInv == TypeInv /\ RowsKept /\ Plans /\ Booking

LEMMA Inductive == Spec => []IInv
<1>1. Init => IInv
  <2> SUFFICES ASSUME Init PROVE IInv
    OBVIOUS
  <2>1. TypeInv /\ RowsKept /\ Plans
    BY TypeInit, RowsInit
  <2>2. (\A s \in Schedules : schedules[s].status = "absent") /\ \A c \in Calls : calls[c] = NoCall
    BY NoCallIs DEF Init, NothingSeen
  <2>3. None \notin Schedules
    BY ConstantsAssumption
  <2>4. Booking
    BY <2>2, <2>3, NoCallIs DEF Booking, BookedApart, SavesApart, Live
  <2> QED
    BY <2>1, <2>4 DEF IInv
<1>2. IInv /\ [Next]_vars => IInv'
  BY TypeStep, RowsStep, BookingStep DEF IInv
<1> QED
  BY <1>1, <1>2, PTL DEF Spec

(* Only the commit of a request answers it.                                *)
LEMMA AnswerIsCommit ==
    ASSUME TypeInv, [Next]_vars, NEW c \in Calls, Answered(c)
    PROVE  Commit(c)
<1>0. calls \in [Calls -> CallType]
  BY DEF TypeInv, TypeOK
<1>1. calls[c].at = "writing" /\ calls'[c].at = "idle" /\ ~ Duplicates(c)
  BY DEF Answered
<1>2. CASE NextDay \/ UNCHANGED vars
  BY <1>1, <1>2 DEF NextDay, vars
<1>3. ASSUME NEW d \in Calls, NEW s \in Schedules, NEW terms \in Terms, CreateSchedule(d, s, terms)
      PROVE  FALSE
  BY <1>1, <1>3, CreateIs, NoCallIs DEF Begun
<1>4. ASSUME NEW d \in Calls, NEW s \in Schedules, NEW end \in EndDates, UpdateSchedule(d, s, end)
      PROVE  FALSE
  BY <1>1, <1>4, UpdateIs, NoCallIs DEF Begun
<1>5. ASSUME NEW d \in Calls, NEW asOf \in Days, GetLedger(d, asOf) PROVE FALSE
  BY <1>1, <1>5, GetIs, NoCallIs DEF Begun
<1>6. ASSUME NEW d \in Calls, UpdateTerms(d) PROVE FALSE
  BY <1>1, <1>6, TermsIs
<1>7. ASSUME NEW d \in Calls, ListForSchedule(d) PROVE FALSE
  BY <1>1, <1>7, ListIs
<1>8. ASSUME NEW d \in Calls, Commit(d) PROVE Commit(c)
  <2>1. CASE d = c
    BY <1>8, <2>1
  <2>2. CASE d # c
    <3>1. calls'[c].at = calls[c].at
      BY <1>8, <2>2, CommitIs
    <3> QED
      BY <1>1, <3>1
  <2> QED
    BY <2>1, <2>2
<1>9. ASSUME NEW d \in Calls, RollBack(d) PROVE FALSE
  BY <1>1, <1>9, RollBackIs
<1>10. ASSUME NEW s \in Schedules, DeleteSchedule(s) PROVE FALSE
  BY <1>1, <1>10, DeleteScheduleIs
<1>11. ASSUME NEW o \in OneOffs, AddCharge(o) PROVE FALSE
  BY <1>1, <1>11, AddChargeIs
<1>12. ASSUME NEW x \in charges, NEW waived \in BOOLEAN, SetWaiver(x, waived) PROVE FALSE
  BY <1>1, <1>12, SetWaiverIs
<1>13. ASSUME NEW x \in charges, DeleteCharge(x) PROVE FALSE
  BY <1>1, <1>13, DeleteChargeIs
<1> QED
  BY <1>2, <1>3, <1>4, <1>5, <1>6, <1>7, <1>8, <1>9, <1>10, <1>11, <1>12, <1>13
  DEF Next, Request

(* An undisturbed request that commits reconciles the ledger as it stands. *)
LEMMA AloneReconciles ==
    ASSUME IInv, NEW c \in Calls, Commit(c), calls[c].alone
    PROVE  /\ Readable(schedules', charges, calls[c].through)
           /\ charges' = Reconciled(schedules', charges, calls[c].through)
           /\ calls[c].deletes = DeletesOf(schedules', charges, calls[c].through)
<1>1. /\ calls[c].at = "writing"
      /\ schedules' = SavedBy(calls[c], schedules)
      /\ schedules' \in [Schedules -> ScheduleType]
      /\ charges' = Written(charges, calls[c].inserts, calls[c].moves, calls[c].deletes)
  BY CommitIs DEF IInv
<1>2. /\ calls[c].inserts = InsertsOf(schedules', charges, calls[c].through)
      /\ calls[c].moves = MovesOf(schedules', charges, calls[c].through)
      /\ calls[c].deletes = DeletesOf(schedules', charges, calls[c].through)
  BY <1>1 DEF IInv, Plans, Planned
<1>3. Readable(schedules', charges, calls[c].through)
  BY <1>1 DEF IInv, TypeInv, TypeOK, CallType, Readable, OneEach
<1> QED
  BY <1>1, <1>2, <1>3 DEF Reconciled

LEMMA GoneIsDeleted ==
    ASSUME IInv, NEW c \in Calls, Commit(c), NEW x \in charges,
           \A y \in charges' : Key(y) # Key(x)
    PROVE  Key(x) \in calls[c].deletes
<1>1. charges' = Written(charges, calls[c].inserts, calls[c].moves, calls[c].deletes)
  BY CommitIs DEF IInv
<1>2. x \in ChargeType /\ calls[c].moves \subseteq ChargeType
  BY DEF IInv, TypeInv, TypeOK, CallType
<1>3. Key(Moved(x, calls[c].moves)) = Key(x)
  BY <1>2, MovedKeeps
<1> QED
  BY <1>1, <1>3 DEF Written

(* A charge the host has waived goes only when the host deletes it, or     *)
(* with a request that was disturbed after it had begun.                   *)
THEOREM WaivedChargesStay == Spec => WaiversStand
<1>1. ASSUME IInv, [Next]_vars, NEW x \in charges, x.waived, \A y \in charges' : Key(y) # Key(x)
      PROVE  DeleteCharge(x) \/ \E c \in Calls : Answered(c) /\ ~ calls[c].alone
  <2>0. TypeInv
    BY <1>1 DEF IInv
  <2>1. x \notin charges'
    BY <1>1
  <2>2. CASE charges' = charges
    BY <2>1, <2>2
  <2>3. CASE NextDay \/ UNCHANGED vars
    BY <2>2, <2>3 DEF NextDay, vars
  <2>4. ASSUME NEW c \in Calls, NEW s \in Schedules, NEW terms \in Terms, CreateSchedule(c, s, terms)
        PROVE  FALSE
    BY <2>0, <2>1, <2>4, CreateIs DEF Begun
  <2>5. ASSUME NEW c \in Calls, NEW s \in Schedules, NEW end \in EndDates, UpdateSchedule(c, s, end)
        PROVE  FALSE
    BY <2>0, <2>1, <2>5, UpdateIs DEF Begun
  <2>6. ASSUME NEW c \in Calls, NEW asOf \in Days, GetLedger(c, asOf) PROVE FALSE
    BY <2>0, <2>1, <2>6, GetIs DEF Begun
  <2>7. ASSUME NEW c \in Calls, UpdateTerms(c) \/ ListForSchedule(c) \/ RollBack(c) PROVE FALSE
    BY <2>1, <2>7 DEF UpdateTerms, ListForSchedule, RollBack
  <2>8. ASSUME NEW c \in Calls, Commit(c) PROVE Answered(c) /\ ~ calls[c].alone
    <3>1. Answered(c)
      BY <2>0, <2>8, CommitIs, NoCallIs DEF Answered, Commit
    <3>2. ASSUME calls[c].alone PROVE FALSE
      <4>1. Key(x) \in calls[c].deletes
        BY <1>1, <2>8, GoneIsDeleted
      <4>2. /\ Readable(schedules', charges, calls[c].through)
            /\ Key(x) \in DeletesOf(schedules', charges, calls[c].through)
        BY <1>1, <2>8, <3>2, <4>1, AloneReconciles
      <4>3. PICK z \in charges : Key(x) = Key(z) /\ ~ z.waived
        BY <4>2, DeletesAre
      <4> QED
        BY <1>1, <4>2, <4>3 DEF Readable, OneEach
    <3> QED
      BY <3>1, <3>2
  <2>9. ASSUME NEW s \in Schedules, DeleteSchedule(s) PROVE FALSE
    BY <2>0, <2>1, <2>9, DeleteScheduleIs
  <2>10. ASSUME NEW o \in OneOffs, AddCharge(o) PROVE FALSE
    BY <2>0, <2>1, <2>10, AddChargeIs
  <2>11. ASSUME NEW y \in charges, NEW waived \in BOOLEAN, SetWaiver(y, waived) PROVE FALSE
    <3>1. PICK z : charges' = (charges \ {y}) \union {z} /\ Key(z) = Key(y)
      BY <2>0, <2>11, SetWaiverIs
    <3> QED
      BY <1>1, <3>1
  <2>12. ASSUME NEW y \in charges, DeleteCharge(y) PROVE DeleteCharge(x)
    <3>1. x = y
      BY <2>0, <2>1, <2>12, DeleteChargeIs
    <3> QED
      BY <2>12, <3>1
  <2> QED
    BY <1>1, <2>3, <2>4, <2>5, <2>6, <2>7, <2>8, <2>9, <2>10, <2>11, <2>12 DEF Next, Request
<1>2. IInv /\ [Next]_vars =>
         [\A x \in charges : x.waived /\ (\A y \in charges' : Key(y) # Key(x)) =>
             \/ DeleteCharge(x)
             \/ \E c \in Calls : Answered(c) /\ ~ calls[c].alone]_vars
  BY <1>1
<1> QED
  BY <1>2, Inductive, PTL DEF Spec, WaiversStand

(* A ledger read, as of whatever day, by a request nobody disturbed        *)
(* deletes only unwaived rent of periods that begin after the end of their *)
(* schedule.                                                               *)
THEOREM HistoryIsKept == Spec => ReadsKeepHistory
<1>1. ASSUME IInv, [Next]_vars, NEW c \in Calls, Answered(c), calls[c].own = None, calls[c].alone,
             NEW x \in charges, \A y \in charges' : Key(y) # Key(x)
      PROVE  /\ x.schedule # None /\ ~ x.waived
             /\ ~ BillsOn(schedules[x.schedule], x.start)
  <2>1. Commit(c)
    BY <1>1, AnswerIsCommit DEF IInv
  <2>2. schedules' = schedules
    BY <1>1, <2>1, CommitIs DEF IInv, SavedBy, Saved
  <2>3. Key(x) \in calls[c].deletes
    BY <1>1, <2>1, GoneIsDeleted
  <2>4. /\ Readable(schedules, charges, calls[c].through)
        /\ Key(x) \in DeletesOf(schedules, charges, calls[c].through)
    BY <1>1, <2>1, <2>2, <2>3, AloneReconciles
  <2>5. \A y \in charges : y.schedule \in Schedules => Aligned(schedules[y.schedule], y)
    BY <1>1 DEF IInv, RowsKept, ChargesKept
  <2>6. /\ x.schedule \in Schedules /\ ~ x.waived
        /\ ~ BillsOn(schedules[x.schedule], x.start)
    BY <2>4, <2>5, DeletedIsOver
  <2> QED
    BY <2>6, ConstantsAssumption
<1>2. IInv /\ [Next]_vars =>
         [\A c \in Calls : Answered(c) /\ calls[c].own = None /\ calls[c].alone =>
             \A x \in charges : (\A y \in charges' : Key(y) # Key(x)) =>
                 /\ x.schedule # None /\ ~ x.waived
                 /\ ~ BillsOn(schedules[x.schedule], x.start)]_vars
  BY <1>1
<1> QED
  BY <1>2, Inductive, PTL DEF Spec, ReadsKeepHistory

(* A request nobody disturbed leaves no day charged twice, but for rent of *)
(* deleted schedules, or after two schedules were saved at once.           *)
THEOREM NoDayTwice == Spec => DaysBilledOnce
<1>1. ASSUME IInv, IInv', [Next]_vars, NEW c \in Calls, Answered(c), calls[c].alone,
             NEW x \in charges', NEW y \in charges',
             x # y, ~ x.waived, ~ y.waived, x.schedule # None, y.schedule # None,
             DaysOf(x) \intersect DaysOf(y) # {},
             ~ raced', Live(x.schedule, schedules'), Live(y.schedule, schedules')
      PROVE  FALSE
  <2>1. Commit(c)
    BY <1>1, AnswerIsCommit DEF IInv
  <2>2. /\ Readable(schedules', charges, calls[c].through)
        /\ charges' = Reconciled(schedules', charges, calls[c].through)
    BY <1>1, <2>1, AloneReconciles
  <2>3. /\ schedules' \in [Schedules -> ScheduleType]
        /\ charges' \subseteq ChargeType /\ OneEach(charges')
    BY <1>1, <2>1, CommitIs DEF IInv
  <2>4. x \in ChargeType /\ y \in ChargeType /\ x.schedule \in Schedules /\ y.schedule \in Schedules
    BY <1>1, <2>3 DEF ChargeType
  <2>5. /\ RightCharge(schedules'[x.schedule], x) /\ RightCharge(schedules'[y.schedule], y)
    BY <1>1, <2>2, <2>4, ReconciledIsRight
  <2>6. PICK a \in ScheduleType : a = schedules'[x.schedule]
    BY <2>3, <2>4
  <2>7. PICK b \in ScheduleType : b = schedules'[y.schedule]
    BY <2>3, <2>4
  <2>8. CASE x.schedule = y.schedule
    <3>1. x.start = y.start
      BY <1>1, <2>4, <2>5, <2>6, <2>7, <2>8, RightChargesApart
    <3> QED
      BY <1>1, <2>3, <2>8, <3>1, KeysAre DEF OneEach
  <2>9. CASE x.schedule # y.schedule
    <3>1. PICK d : d \in DaysOf(x) /\ d \in DaysOf(y)
      BY <1>1
    <3>2. d \in Nat
      BY <2>4, <3>1, ConstantsAssumption DEF DaysOf, ChargeType, Days
    <3>3. BillsOn(a, d) /\ BillsOn(b, d)
      BY <2>4, <2>5, <2>6, <2>7, <3>1, RightChargeIs
    <3>4. Overlaps(a, b)
      BY <3>2, <3>3, SharedDayOverlaps
    <3>5. ~ Overlaps(schedules'[x.schedule], schedules'[y.schedule])
      BY <1>1, <2>4, <2>9 DEF IInv, Booking, BookedApart
    <3> QED
      BY <2>6, <2>7, <3>4, <3>5
  <2> QED
    BY <2>8, <2>9
<1>2. IInv /\ IInv' /\ [Next]_vars =>
         [\A c \in Calls : Answered(c) /\ calls[c].alone =>
             \A x, y \in charges' :
                 /\ x # y /\ ~ x.waived /\ ~ y.waived
                 /\ x.schedule # None /\ y.schedule # None
                 /\ DaysOf(x) \intersect DaysOf(y) # {}
                 => \/ raced'
                    \/ ~ Live(x.schedule, schedules') \/ ~ Live(y.schedule, schedules')]_vars
  BY <1>1
<1> QED
  BY <1>2, Inductive, PTL DEF Spec, DaysBilledOnce

(* A request nobody disturbed is never refused by the unique index, and    *)
(* leaves every live schedule billed as it stands, to the day and to the   *)
(* nearest cent, whatever the ledger was like before.                      *)
THEOREM LedgerHeals == Spec => ReadsHeal
<1>1. ASSUME IInv, [Next]_vars, NEW c \in Calls, calls[c].alone
      PROVE  ~ RollBack(c)
  <2> SUFFICES ASSUME RollBack(c) PROVE FALSE
    OBVIOUS
  <2>1. calls[c].at = "writing" /\ Duplicates(c)
    BY DEF RollBack
  <2>2. PICK rows \in [Schedules -> ScheduleType] : rows = SavedBy(calls[c], schedules)
    BY <1>1, SavedByIs DEF IInv, TypeInv, TypeOK
  <2>3. Readable(rows, charges, calls[c].through)
    BY <1>1, <2>2 DEF IInv, TypeInv, TypeOK, CallType, Readable, OneEach
  <2>4. calls[c].inserts = InsertsOf(rows, charges, calls[c].through)
    BY <1>1, <2>1, <2>2 DEF IInv, Plans, Planned
  <2>5. \A x \in charges, y \in calls[c].inserts : Key(x) # Key(y)
    BY <2>3, <2>4, InsertsAre
  <2> QED
    BY <2>1, <2>5 DEF Duplicates
<1>2. ASSUME IInv, [Next]_vars, NEW c \in Calls, calls[c].alone, Answered(c),
             NEW s \in Schedules, Live(s, schedules')
      PROVE  RightlyBilled(s, schedules'[s], calls[c].through, charges')
  <2>1. Commit(c)
    BY <1>2, AnswerIsCommit DEF IInv
  <2>2. /\ Readable(schedules', charges, calls[c].through)
        /\ charges' = Reconciled(schedules', charges, calls[c].through)
    BY <1>2, <2>1, AloneReconciles
  <2>3. RightlyBilled(s, schedules'[s], calls[c].through,
                      Reconciled(schedules', charges, calls[c].through))
    BY <1>2, <2>2, ReconciledIsBilled
  <2> QED
    BY <2>2, <2>3
<1>3. IInv /\ [Next]_vars =>
         [\A c \in Calls : calls[c].alone =>
             /\ ~ RollBack(c)
             /\ Answered(c) => \A s \in Schedules : Live(s, schedules') =>
                   RightlyBilled(s, schedules'[s], calls[c].through, charges')]_vars
  BY <1>1, <1>2
<1> QED
  BY <1>3, Inductive, PTL DEF Spec, ReadsHeal

=============================================================================
