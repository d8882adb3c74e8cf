------------------------------ MODULE Calendar ------------------------------
(***************************************************************************)
(* Dates the business runs on: when the next service visit falls, how many *)
(* working days a delivery has left and what its delay costs, which fiscal *)
(* year a day is in, and when a warranty ends.                             *)
(*                                                                         *)
(* A date is the number of its day, counted from 1 January 1970.           *)
(***************************************************************************)
EXTENDS MoneyRules

-----------------------------------------------------------------------------
(* The calendar of JavaScript's Date.UTC.                                  *)

\* The d-th day of month m of year y; d may lie outside the month.
DayOf(y, m, d) ==
  LET year  == IF m <= 2 THEN y - 1 ELSE y
      month == (m + 9) % 12
  IN  365 * year + (year \div 4) - (year \div 100) + (year \div 400)
      + ((153 * month + 2) \div 5) + d - 719469

\* The m-th month of year y may lie in another year.
Utc(y, m, d) == DayOf(y + ((m - 1) \div 12), ((m - 1) % 12) + 1, d)

Year(day) ==
  LET e == (day + 719468) % 146097
      c == (e - (e \div 1460) + (e \div 36524) - (e \div 146096)) \div 365
      y == c + 400 * ((day + 719468) \div 146097)
  IN  IF day < DayOf(y + 1, 1, 1) THEN y ELSE y + 1

Month(day) == CHOOSE m \in 1..12 :
  Utc(Year(day), m, 1) <= day /\ day < Utc(Year(day), m + 1, 1)

DayOfMonth(day) == day - Utc(Year(day), Month(day), 1) + 1

\* 0 is Sunday.
Weekday(day) == (day + 4) % 7

-----------------------------------------------------------------------------
(* Service visits.                                                         *)

Lower(a, b) == IF a <= b THEN a ELSE b

DaysInMonth(day) == DayOfMonth(Utc(Year(day), Month(day) + 1, 0))

\* Clamped to the last day of the month it falls in.
AddMonths(day, months) ==
  LET first == Utc(Year(day), Month(day) + months, 1) IN
  first + Lower(DayOfMonth(day), DaysInMonth(first)) - 1

DaysOf == [DAILY |-> 1, WEEKLY |-> 7, BIWEEKLY |-> 14]
MonthsOf == [MONTHLY |-> 1, QUARTERLY |-> 3, BIANNUAL |-> 6, ANNUAL |-> 12]
Recurrences == DOMAIN DaysOf \cup DOMAIN MonthsOf

AdvanceServiceDate(day, recurrence) ==
  IF recurrence \in DOMAIN DaysOf THEN day + DaysOf[recurrence]
                                  ELSE AddMonths(day, MonthsOf[recurrence])

\* Past-due intervals are caught up with, one by one.
NextServiceDateAfter(scheduled, visited, recurrence) ==
  LET next[day \in Int] ==
        IF day <= visited THEN next[AdvanceServiceDate(day, recurrence)] ELSE day
  IN  next[AdvanceServiceDate(scheduled, recurrence)]

-----------------------------------------------------------------------------
(* Working days and the delivery of a contract.                            *)

IsWorkingDay(day) == Weekday(day) \notin {0, 6}

AddWorkingDays(from, days) ==
  LET walk[day \in Int, left \in Int] ==
        IF left <= 0 THEN day
        ELSE walk[day + 1, IF IsWorkingDay(day + 1) THEN left - 1 ELSE left]
  IN  walk[from, days]

Until(from, to) == Cardinality({day \in from + 1..to : IsWorkingDay(day)})

\* Never 0 once the day has passed.
WorkingDaysBetween(from, to) ==
  IF to < from THEN LET late == Until(to, from) IN IF late = 0 THEN -1 ELSE -late
               ELSE Until(from, to)

\* A percentage per day has three decimals.
Thousandths == 100000
DEFAULT_DELAY_PENALTY_PERCENT_PER_DAY == 20

\* Of the price, for each day late, up to the cap if there is one.
Penalty(contract, daysLate) ==
  LET rate == IF contract.rate = Null THEN DEFAULT_DELAY_PENALTY_PERCENT_PER_DAY ELSE contract.rate
      share == rate * daysLate
  IN  RoundHalfUp(contract.value * (IF contract.cap = Null THEN share ELSE Lower(share, contract.cap)),
                  Thousandths)

Due(contract) == AddWorkingDays(contract.signedAt, contract.days)

\* The earliest promise binds, the first listed of equals.
Binding(contracts) ==
  LET first == CHOOSE n \in DOMAIN contracts : \A k \in DOMAIN contracts :
                 /\ Due(contracts[n]) <= Due(contracts[k])
                 /\ Due(contracts[n]) = Due(contracts[k]) => n <= k
  IN  contracts[first]

NoCountdown == [due |-> Null, left |-> Null, penalty |-> Null]

\* Of the contracts of a project that are signed, dated and have a period.
DeliveryCountdown(contracts, today) ==
  IF contracts = <<>> THEN NoCountdown
  ELSE LET binding == Binding(contracts)
           due     == Due(binding)
       IN  [due |-> due, left |-> WorkingDaysBetween(today, due),
            penalty |-> IF today > due THEN Penalty(binding, today - due) ELSE Null]

-----------------------------------------------------------------------------
(* Fiscal years and warranties.                                            *)

\* boundary: the month and the day a year begins with. The label FY2026/27 is
\* told by its first year.
ComputeFiscalYear(day, boundary) ==
  LET startYear == IF day >= Utc(Year(day), boundary[1], boundary[2]) THEN Year(day) ELSE Year(day) - 1
  IN  [start |-> Utc(startYear, boundary[1], boundary[2]),
       end   |-> Utc(startYear + 1, boundary[1], boundary[2]) - 1,
       label |-> startYear]

\* From the handover; from the signature when none was recorded.
StartsOn(handedOver, signed) == IF handedOver # Null THEN handedOver ELSE signed

\* Nothing when there is no warranty or nothing to run it from.
WarrantyExpiry(months, handedOver, signed) ==
  IF months = Null \/ StartsOn(handedOver, signed) = Null THEN Null
  ELSE AddMonths(StartsOn(handedOver, signed), months)
=============================================================================
