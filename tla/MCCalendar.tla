------------------------------ MODULE MCCalendar ------------------------------
(* Bounded inputs for Calendar: one question at a time, and its answer. *)
EXTENDS Calendar

VARIABLE answer

Blank == [kind |-> "none"]
Init == answer = Blank

\* Bounds: days a visit or a delivery is late, working days promised, months of
\* warranty.
MaxLate   == 33
MaxPeriod == 13
MaxMonths == 13

\* Days things happen on: the ends of months up to a leap February, and the
\* first days of a fiscal year.
Days == {Utc(2027, 12, d) : d \in 27..31} \cup {Utc(2028, 1, d) : d \in 27..31}
          \cup {Utc(2028, 2, d) : d \in 26..29} \cup {Utc(2028, 7, d) : d \in 5..12}

\* Of contracts: cents, thousandths of a percent.
Values       == {4999}
PenaltyRates == {Null, 2500}
Caps         == {Null, 10000}

\* First days of a fiscal year.
Boundaries == {<<7, 8>>, <<1, 1>>, <<12, 31>>, <<2, 28>>}

PlanVisit == \E scheduled \in Days, late \in -3..MaxLate, r \in Recurrences :
  answer' = [kind |-> "visit", scheduled |-> scheduled, visited |-> scheduled + late, every |-> r,
             next |-> NextServiceDateAfter(scheduled, scheduled + late, r)]

CountDays == \E from \in Days, days \in 0..MaxPeriod :
  LET to == AddWorkingDays(from, days) IN
  answer' = [kind |-> "days", from |-> from, days |-> days, to |-> to,
             back |-> WorkingDaysBetween(from, to)]

Contract == [signedAt : {Utc(2028, 6, 29), Utc(2028, 7, 7)}, days : {0, 5},
             value : Values, rate : PenaltyRates, cap : Caps]

CountDown ==
  \E c, d \in Contract, today \in {Utc(2028, 7, 7) + n : n \in 0..MaxLate} :
    answer' = [kind |-> "countdown", contracts |-> <<c, d>>, today |-> today,
               now |-> DeliveryCountdown(<<c, d>>, today),
               next |-> DeliveryCountdown(<<c, d>>, today + 1)]

FileUnderYear == \E day \in Days, boundary \in Boundaries :
  answer' = [kind |-> "year", day |-> day,
             year |-> ComputeFiscalYear(day, boundary),
             next |-> ComputeFiscalYear(day + 1, boundary)]

Warrant == \E handed, signed \in Days \cup {Null}, months \in 0..MaxMonths \cup {Null} :
  answer' = [kind |-> "warranty", handed |-> handed, signed |-> signed, months |-> months,
             expires |-> WarrantyExpiry(months, handed, signed)]

Next ==
  /\ answer = Blank
  /\ PlanVisit \/ CountDays \/ CountDown \/ FileUnderYear \/ Warrant

Spec == Init /\ [][Next]_answer
-----------------------------------------------------------------------------
(* Properties.                                                             *)

MonthsBetween(a, b) == 12 * (Year(b) - Year(a)) + Month(b) - Month(a)

\* "Catches up past-due intervals until the result is strictly after the visit
\* day": the next visit lies after the one made and is the first of the schedule
\* that does: no more than one interval later.
NextIsFirstAfterVisit ==
  answer.kind = "visit" =>
    LET r == answer.every IN
    /\ answer.next > answer.visited /\ answer.next > answer.scheduled
    /\ IF r \in DOMAIN DaysOf
       THEN /\ (answer.next - answer.scheduled) % DaysOf[r] = 0
            /\ answer.visited >= answer.scheduled => answer.next - answer.visited <= DaysOf[r]
       ELSE /\ MonthsBetween(answer.scheduled, answer.next) % MonthsOf[r] = 0
            /\ answer.visited >= answer.scheduled
                 => MonthsBetween(answer.visited, answer.next) <= MonthsOf[r]

\* "Anchored to the *scheduled* date so the cadence doesn't drift when a visit
\* happens late": however late a monthly visit, the next one is on the day of
\* the month the schedule has, as far as that month has one.
CadenceHolds ==
  answer.kind = "visit" /\ answer.every \in DOMAIN MonthsOf =>
    DayOfMonth(answer.next) = Lower(DayOfMonth(answer.scheduled), DaysInMonth(answer.next))

\* A deadline so many working days away is counted down from just that many, and
\* is itself a working day.
WorkingDaysInvert ==
  answer.kind = "days" =>
    answer.back = answer.days /\ (answer.days > 0 => IsWorkingDay(answer.to))

\* "negative once it has passed - and never 0 then": days left, delay penalty
\* and due date agree on whether a delivery is late, and the days left fall by
\* at most one a day.
OverdueAgrees ==
  answer.kind = "countdown" =>
    LET late == answer.today > answer.now.due IN
    /\ late <=> answer.now.left < 0
    /\ late <=> answer.now.penalty # Null
    /\ answer.next.left - answer.now.left \in {0, -1}

\* "for EACH day of delay, up to the contract's cap": from one day to the next a
\* penalty never falls, and it never exceeds the cap of the contract it is
\* reckoned on.
PenaltyRunsUpToTheCap ==
  answer.kind = "countdown" /\ answer.now.penalty # Null =>
    /\ answer.next.penalty >= answer.now.penalty
    /\ \E n \in 1..2 :
         LET c == answer.contracts[n] IN
         /\ Due(c) = answer.now.due
         /\ c.cap # Null => answer.next.penalty <= RoundHalfUp(c.value * c.cap, Thousandths)

\* "With more than one signed contract on a project, the earliest promise is the
\* one that binds."
EarliestPromiseBinds ==
  answer.kind = "countdown" => \A n \in 1..2 : answer.now.due <= Due(answer.contracts[n])

\* Every day is in the year it is filed under, the next day is in the same or in
\* the following one, and the label changes exactly with the year: no number is
\* claimed in a series twice.
FiscalYearsTile ==
  answer.kind = "year" =>
    LET y == answer.year IN
    /\ y.start <= answer.day /\ answer.day <= y.end
    /\ IF answer.day = y.end THEN answer.next.start = y.end + 1 /\ answer.next.label = y.label + 1
                             ELSE answer.next = y

\* "Handover first: cover starts when the customer actually got the equipment",
\* and no "days of free cover the company never agreed to": the warranty ends as
\* many months after the handover as agreed, on its day of the month or the last
\* day there is.
WarrantyEndsInItsMonth ==
  answer.kind = "warranty" /\ answer.expires # Null =>
    LET from == IF answer.handed = Null THEN answer.signed ELSE answer.handed IN
    /\ MonthsBetween(from, answer.expires) = answer.months
    /\ DayOfMonth(answer.expires) <= DayOfMonth(from)
=============================================================================
