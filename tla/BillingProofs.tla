---------------------------- MODULE BillingProofs ----------------------------
(* Theorems about Billing: its calendar for months of any length, its figures,
   its reports, and that it implements Rollup. *)
EXTENDS Billing, DataLemmas, TLAPS

IsMonth(m) == m \in Int \X (1..12)

-----------------------------------------------------------------------------
(* The two ways to compute the month before.                               *)

\* The monthly job, which goes back a day from the first, and the report job,
\* which subtracts a month, mean the same month on every day of every year:
\* a report is about the month that was summed up the day before.
THEOREM SameMonthBilled ==
    ASSUME NEW date, IsDate(date), date = <<date[1], date[2], date[3]>>
    PROVE  PreviousMonth(date) = ReportMonth(date)
  BY CalendarAssumption DEF PreviousMonth, ReportMonth, MonthOf, FirstOf, PrevDate, IsDate

\* The last day of a month is the one with the highest number.
LEMMA LastDayIsLast ==
    ASSUME NEW m, IsMonth(m)
    PROVE  LastDayOf(m) = <<m[1], m[2], DaysIn[m[2]]>>
  BY CalendarAssumption DEF LastDayOf, PrevDate, IsMonth

\* The days between the first and the last day of a month are those of the
\* month: the monthly job takes all of its daily summaries and no others.
THEOREM MonthIsItsDays ==
    ASSUME NEW m, IsMonth(m),
           NEW date, IsDate(date), date = <<date[1], date[2], date[3]>>
    PROVE  (AtMost(FirstOf(m), date) /\ AtMost(date, LastDayOf(m))) <=> MonthOf(date) = m
<1>1. m = <<m[1], m[2]>> /\ m[1] \in Int /\ m[2] \in 1..12
  BY DEF IsMonth
<1>2. DaysIn[m[2]] \in Nat \ {0} /\ date[3] \in 1..DaysIn[date[2]]
  BY <1>1, CalendarAssumption DEF IsDate
<1>3. AtMost(FirstOf(m), date) <=>
          m[1] < date[1] \/ (m[1] = date[1] /\ m[2] <= date[2])
  BY <1>1, <1>2, CalendarAssumption DEF AtMost, FirstOf, IsDate
<1>4. AtMost(date, LastDayOf(m)) <=>
          date[1] < m[1] \/ (date[1] = m[1] /\ date[2] <= m[2])
  BY <1>1, <1>2, LastDayIsLast, CalendarAssumption DEF AtMost, IsDate
<1>5. MonthOf(date) = m <=> date[1] = m[1] /\ date[2] = m[2]
  BY <1>1 DEF MonthOf
<1> QED
  BY <1>1, <1>3, <1>4, <1>5, CalendarAssumption DEF IsDate

-----------------------------------------------------------------------------
(* The report over a period.                                               *)

LEMMA RangeIsInterval ==
    ASSUME NEW m, IsMonth(m), NEW from, IsMonth(from), NEW to, IsMonth(to)
    PROVE  InRange(m, from, to) <=> Index(m) \in Index(from)..Index(to)
  BY DEF IsMonth, InRange, Index

LEMMA MonthsAreMonths == \A m \in Months : IsMonth(m)
  BY SpanAssumption DEF Months, IsMonth

\* In every state, for every period: the report over it is the sum of the
\* monthly figures between its ends.
THEOREM RangesAddUp == Spec => []RangeAddsUp
<1>1. ASSUME NEW from \in Months, NEW to \in Months
      PROVE  {m \in Months : InRange(m, from, to)}
                 = {m \in Months : Index(m) \in Index(from)..Index(to)}
  BY MonthsAreMonths, RangeIsInterval
<1>2. RangeAddsUp
  BY <1>1 DEF RangeAddsUp, RangeQuery
<1> QED
  BY <1>2, PTL


-----------------------------------------------------------------------------
(* The days of the model.                                                  *)

\* A date as the code has them, with nothing but its three parts.
Proper(date) == IsDate(date) /\ date = <<date[1], date[2], date[3]>>

\* A day later and a day earlier undo each other.
LEMMA NextAndPrev ==
    ASSUME NEW d, Proper(d)
    PROVE  /\ Proper(NextDate(d)) /\ Proper(PrevDate(d))
           /\ NextDate(PrevDate(d)) = d /\ PrevDate(NextDate(d)) = d
  BY CalendarAssumption DEF Proper, IsDate, NextDate, PrevDate

LEMMA PairOfMonth == \A m : IsMonth(m) => m = <<m[1], m[2]>> /\ m[1] \in Int /\ m[2] \in 1..12
  BY DEF IsMonth

\* The days of a month that the model has.
DaysOf(m) == {d \in Dates : MonthOf(d) = m}

LEMMA DatesFacts ==
    /\ \A d \in Dates : Proper(d) /\ MonthOf(d) \in Months
    /\ \A m \in Months : DaysOf(m) = DatesOf(m)
<1>1. \A m \in Months : \A d \in DatesOf(m) : Proper(d) /\ MonthOf(d) = m
  <2> TAKE m \in Months
  <2> TAKE d \in DatesOf(m)
  <2>1. IsMonth(m) /\ m = <<m[1], m[2]>>
    BY MonthsAreMonths, PairOfMonth
  <2>2. PICK k \in 1..DaysIn[m[2]] : d = <<m[1], m[2], k>>
    BY DEF DatesOf
  <2> QED BY <2>1, <2>2, PairOfMonth DEF Proper, IsDate, MonthOf
<1>2. \A d \in Dates : \E m \in Months : d \in DatesOf(m)
  BY DEF Dates
<1>3. \A m \in Months : DatesOf(m) \subseteq Dates
  BY DEF Dates
<1> QED BY <1>1, <1>2, <1>3 DEF DaysOf

LEMMA DatesFinite ==
    /\ IsFiniteSet(Months) /\ IsFiniteSet(Dates)
    /\ \A m : IsFiniteSet(DaysOf(m))
<1>1. IsFiniteSet(Months)
  <2>1. IsFiniteSet((FirstMonth[1]..LastMonth[1]) \X (1..12))
    <3> DEFINE Box(a, b) == (a..b) \X (1..12)
    <3>1. \A a, b \in Int : IsFiniteSet(Box(a, b))
      <4>1. \A a, b \in Int : IsFiniteSet(a..b)
        BY FS_Interval
      <4>2. IsFiniteSet(1..12)
        <5>1. 1 \in Int /\ 12 \in Int
          OBVIOUS
        <5> QED BY ONLY <4>1, <5>1, Zenon
      <4>3. \A a, b \in Int : IsFiniteSet((a..b) \X (1..12))
        BY ONLY <4>1, <4>2, FS_Product
      <4> QED BY <4>3
    <3>2. FirstMonth[1] \in Int /\ LastMonth[1] \in Int
      BY SpanAssumption
    <3> HIDE DEF Box
    <3>3. IsFiniteSet(Box(FirstMonth[1], LastMonth[1]))
      BY ONLY <3>1, <3>2, Zenon
    <3> QED BY <3>3 DEF Box
  <2>2. Months \subseteq (FirstMonth[1]..LastMonth[1]) \X (1..12)
    BY DEF Months
  <2> QED BY <2>1, <2>2, FS_Subset
<1>2. \A m \in Months : IsFiniteSet(DatesOf(m))
  <2> TAKE m \in Months
  <2> DEFINE K == 1..DaysIn[m[2]]
             date == [k \in K |-> <<m[1], m[2], k>>]
  <2>1. DaysIn[m[2]] \in Nat
    BY MonthsAreMonths, PairOfMonth, CalendarAssumption
  <2>2. IsFiniteSet(K)
    BY <2>1, FS_Interval
  <2>3. date \in Surjection(K, DatesOf(m))
    BY DEF Surjection, DatesOf
  <2> HIDE DEF K, date
  <2> QED BY <2>2, <2>3, FS_Surjection
<1>3. IsFiniteSet(Dates)
  <2> DEFINE Sets == {DatesOf(m) : m \in Months}
             days == [m \in Months |-> DatesOf(m)]
  <2>1. days \in Surjection(Months, Sets)
    BY DEF Surjection
  <2>2. \A T \in Sets : IsFiniteSet(T)
    BY <1>2
  <2> HIDE DEF Sets, days
  <2>3. IsFiniteSet(Sets)
    BY <1>1, <2>1, FS_Surjection
  <2>4. IsFiniteSet(UNION Sets)
    BY <2>2, <2>3, FS_UNION
  <2> QED BY <2>4 DEF Dates, Sets
<1>4. \A m : IsFiniteSet(DaysOf(m))
  BY <1>3, FS_Subset DEF DaysOf
<1> QED BY <1>1, <1>3, <1>4

\* What the monthly job and the daily query of a month select.
LEMMA SummariesOfMonth ==
    ASSUME NEW m, IsMonth(m)
    PROVE  /\ Summaries(FirstOf(m), LastDayOf(m)) = DaysOf(m)
           /\ Summaries(<<m[1], m[2], 1>>, <<m[1], m[2], DaysIn[m[2]]>>) = DaysOf(m)
<1>1. \A d \in Dates : (AtMost(FirstOf(m), d) /\ AtMost(d, LastDayOf(m))) <=> MonthOf(d) = m
  BY DatesFacts, MonthIsItsDays DEF Proper
<1>2. FirstOf(m) = <<m[1], m[2], 1>> /\ LastDayOf(m) = <<m[1], m[2], DaysIn[m[2]]>>
  BY LastDayIsLast DEF FirstOf
<1> QED BY <1>1, <1>2 DEF Summaries, DaysOf

\* A total is a number, at least that of each item and of each smaller table.
LEMMA TotalFacts ==
    ASSUME NEW f \in [Dates -> Nat], NEW S \in SUBSET Dates
    PROVE  /\ Total(f, S) \in Nat
           /\ \A d \in S : f[d] <= Total(f, S)
           /\ Total(f, S) <= Total(f, Dates)
<1>1. IsFiniteSet(S) /\ \A d \in S : f[d] \in Nat
  BY DatesFinite, FS_Subset
<1>2. Total(f, S) \in Nat
  BY <1>1, SumRemove DEF Total
<1>3. \A d \in S : f[d] <= Total(f, S)
  BY <1>1, SumItem DEF Total
<1>4. Total(f, S) <= Total(f, Dates)
  <2>1. \A d \in Dates : f[d] \in Nat
    OBVIOUS
  <2> QED BY <2>1, DatesFinite, SumSubset DEF Total
<1> QED BY <1>2, <1>3, <1>4

LEMMA TotalAtMost ==
    ASSUME NEW f \in [Dates -> Nat], NEW g \in [Dates -> Nat], NEW S \in SUBSET Dates,
           \A d \in S : f[d] <= g[d]
    PROVE  Total(f, S) <= Total(g, S)
<1>1. IsFiniteSet(S) /\ \A d \in S : f[d] \in Nat /\ g[d] \in Nat /\ f[d] <= g[d]
  BY DatesFinite, FS_Subset
<1> QED BY <1>1, SumAtMost DEF Total

LEMMA TotalSame ==
    ASSUME NEW f \in [Dates -> Nat], NEW g \in [Dates -> Nat], NEW S \in SUBSET Dates,
           \A d \in S : g[d] = f[d]
    PROVE  Total(g, S) = Total(f, S)
<1>1. IsFiniteSet(S) /\ \A d \in S : f[d] \in Nat /\ g[d] = f[d]
  BY DatesFinite, FS_Subset
<1> QED BY <1>1, SumSame DEF Total

-----------------------------------------------------------------------------
(* The inductive invariant: first what holds of the tables and the runs    *)
(* whatever the schedule is.                                               *)

Runs(j) == stage[j] # "idle"

ClockTypes ==
    Proper(today) /\ hour \in 0..Hours - 1 /\ up \in BOOLEAN /\ faults \in 0..MaxFaults

TableTypes ==
    /\ raw \in [Dates -> Nat] /\ prompt \in [Dates -> Nat]
    /\ daily \in [Dates -> Nat] /\ monthly \in [Months -> Nat]
    /\ \A r \in reports : r.total \in Nat

RunTypes ==
    /\ stage \in [Jobs -> {"idle", "started", "selected"}]
    /\ stage["report"] # "selected"
    /\ target = [j \in Jobs |-> target[j]]
    /\ total \in [Jobs -> Nat]
    /\ \A j \in Jobs : Runs(j) => up
    /\ Runs("daily") => Proper(target["daily"])
    /\ \A j \in {"monthly", "report"} : Runs(j) => IsMonth(target[j])

Types == ClockTypes /\ TableTypes /\ RunTypes

\* No figure is more than the events that there are.
NotAhead ==
    /\ Total(raw, Dates) <= MaxEvents
    /\ \A d \in Dates : daily[d] <= raw[d] /\ prompt[d] <= raw[d]
    /\ \A m \in Months : monthly[m] <= Total(raw, DaysOf(m))
    /\ \A r \in reports : r.month \in Months => r.total <= Total(raw, DaysOf(r.month))
    /\ \A j \in Jobs : stage[j] # "selected" => total[j] = 0
    /\ stage["daily"] = "selected" /\ total["daily"] > 0 =>
          target["daily"] \in Dates /\ total["daily"] <= raw[target["daily"]]
    /\ stage["monthly"] = "selected" /\ total["monthly"] > 0 =>
          /\ target["monthly"] \in Months
          /\ total["monthly"] <= Total(raw, DaysOf(target["monthly"]))

TableInv == Types /\ NotAhead

-----------------------------------------------------------------------------
(* Then what the order of the jobs is good for.                            *)

\* The order of the default schedule: a month is summed up on one of the first
\* two days of the next, after the daily run, which comes when the day is over
\* in the database as well.
InOrder ==
    /\ MonthlyDay \in 1..2 /\ \A i \in 1..12 : MonthlyDay <= DaysIn[i]
    /\ DailyHour < 3 /\ Zone <= DailyHour

NextMonth(m) == IF m[2] = 12 THEN <<m[1] + 1, 1>> ELSE <<m[1], m[2] + 1>>

\* The clock has come to this hour of this date.
Due(date, h) == AtMost(date, today) /\ (date = today => hour >= h)

\* And to that at which the day or month is summed up.
DayDue(d) == Due(NextDate(d), DailyHour)
MonthlyDate(m) == <<NextMonth(m)[1], NextMonth(m)[2], MonthlyDay>>
MonthDue(m) == Due(MonthlyDate(m), 3)

\* A run of this job is about this day or month.
About(j, t) == Runs(j) /\ target[j] = t

\* No daily run for the month is under way.
DaysDone(m) == Runs("daily") => MonthOf(target["daily"]) # m

Days ==
    /\ Runs("daily") => DayDue(target["daily"])
    /\ stage["daily"] = "selected" /\ target["daily"] \in Dates =>
          total["daily"] >= prompt[target["daily"]]
    /\ \A d \in Dates : DayDue(d) /\ MonthOf(d) \notin flawed =>
          About("daily", d) \/ daily[d] >= prompt[d]

MonthsInv ==
    \A m \in Months :
        /\ ~MonthDue(m) => monthly[m] = 0
        /\ About("monthly", m) => MonthDue(m) /\ monthly[m] = 0
        /\ MonthDue(m) /\ m \notin flawed =>
              /\ DaysDone(m)
              /\ IF About("monthly", m)
                 THEN stage["monthly"] = "selected" =>
                          total["monthly"] = Total(daily, DaysOf(m))
                 ELSE monthly[m] = Total(daily, DaysOf(m))

\* The figure of the month will not change any more.
Closed(m) == MonthDue(m) /\ ~About("monthly", m)

Reports ==
    /\ \A m \in Months : About("report", m) /\ m \notin flawed => Closed(m)
    /\ \A r \in reports : r.month \in Months /\ r.month \notin flawed =>
          Closed(r.month) /\ r.total = monthly[r.month]

BillInv == TableInv /\ Days /\ MonthsInv /\ Reports

-----------------------------------------------------------------------------
(* The figures follow the events, in every schedule.                       *)

\* The targets of the three jobs are days and months.
LEMMA TargetFacts ==
    ASSUME NEW date, Proper(date)
    PROVE  /\ Target("daily", date) = PrevDate(date) /\ Proper(PrevDate(date))
           /\ Target("monthly", date) = ReportMonth(date)
           /\ Target("report", date) = ReportMonth(date)
           /\ IsMonth(ReportMonth(date))
<1>1. IsMonth(ReportMonth(date))
  BY DEF IsMonth, ReportMonth, Proper, IsDate
<1>2. PreviousMonth(date) = ReportMonth(date)
  BY SameMonthBilled DEF Proper
<1> QED BY <1>1, <1>2, NextAndPrev DEF Target

\* The job is due at this hour and not skipped.
Starts(j) == Fires(j, today', hour') /\ up /\ ~Runs(j)

\* What an hour does to the runs.
LEMMA TickEffect ==
    ASSUME Types, Tick
    PROVE  /\ Proper(today') /\ hour' \in 0..Hours - 1 /\ faults' \in 0..MaxFaults
           /\ \A j \in Jobs :
                 IF Starts(j) THEN stage'[j] = "started" /\ target'[j] = Target(j, today')
                 ELSE stage'[j] = stage[j] /\ target'[j] = target[j]
           /\ stage' \in [Jobs -> {"idle", "started", "selected"}]
           /\ target' = [j \in Jobs |-> target'[j]]
           /\ flawed \subseteq flawed'
           /\ \A j \in Jobs : Fires(j, today', hour') /\ (~Starts(j) \/ TooLate(j)) =>
                 MonthOf(Target(j, today')) \in flawed'
           /\ UNCHANGED <<up, raw, prompt, daily, monthly, total, reports>>
<1>1. Proper(today')
  BY NextAndPrev DEF Types, ClockTypes, Tick
<1>2. hour' \in 0..Hours - 1
  BY ScheduleAssumption DEF Types, ClockTypes, Tick
<1>3. faults' \in 0..MaxFaults
  BY BoundAssumption DEF Types, ClockTypes, Tick, Fault
<1> DEFINE due     == {j \in Jobs : Fires(j, today', hour')}
           started == {j \in due : up /\ stage[j] = "idle"}
<1>4. /\ stage' = [j \in Jobs |-> IF j \in started THEN "started" ELSE stage[j]]
      /\ target' = [j \in Jobs |-> IF j \in started THEN Target(j, today') ELSE target[j]]
      /\ flawed' = flawed \union
             {MonthOf(Target(j, today')) : j \in {k \in due : k \notin started \/ TooLate(k)}}
  BY DEF Tick
<1>5. \A j \in Jobs : (j \in started <=> Starts(j)) /\ (j \in due <=> Fires(j, today', hour'))
  BY DEF Starts, Runs
<1>6. UNCHANGED <<up, raw, prompt, daily, monthly, total, reports>>
  BY DEF Tick, tables
<1> HIDE DEF due, started
<1>7. \A j \in Jobs : stage[j] \in {"idle", "started", "selected"}
  BY DEF Types, RunTypes
<1>8. stage' \in [Jobs -> {"idle", "started", "selected"}]
  BY <1>4, <1>7
<1>9. \A j \in Jobs :
          IF Starts(j) THEN stage'[j] = "started" /\ target'[j] = Target(j, today')
          ELSE stage'[j] = stage[j] /\ target'[j] = target[j]
  BY <1>4, <1>5
<1>10. target' = [j \in Jobs |-> target'[j]]
  BY <1>4
<1>11. \A j \in Jobs : Fires(j, today', hour') /\ (~Starts(j) \/ TooLate(j)) =>
           MonthOf(Target(j, today')) \in flawed'
  BY <1>4, <1>5
<1>12. flawed \subseteq flawed'
  BY <1>4
<1> QED BY <1>1, <1>2, <1>3, <1>6, <1>8, <1>9, <1>10, <1>11, <1>12

\* What the end of some runs leaves.
LEMMA EndedEffect ==
    ASSUME Types, NEW jobs \in SUBSET Jobs, Ended(jobs)
    PROVE  /\ \A j \in Jobs :
                 IF j \in jobs THEN stage'[j] = "idle" /\ total'[j] = 0
                 ELSE stage'[j] = stage[j] /\ target'[j] = target[j] /\ total'[j] = total[j]
           /\ stage' \in [Jobs -> {"idle", "started", "selected"}]
           /\ target' = [j \in Jobs |-> target'[j]]
           /\ total' \in [Jobs -> Nat]
  BY DEF Types, RunTypes, Ended

\* The figures that the tables and the runs hold.
LEMMA Figures ==
    ASSUME Types
    PROVE  /\ \A d \in Dates : raw[d] \in Nat /\ prompt[d] \in Nat /\ daily[d] \in Nat
           /\ \A m \in Months : monthly[m] \in Nat
           /\ \A j \in Jobs : total[j] \in Nat
           /\ total["daily"] \in Nat /\ total["monthly"] \in Nat
           /\ \A r \in reports : r.total \in Nat
           /\ \A S \in SUBSET Dates : /\ Total(raw, S) \in Nat /\ Total(prompt, S) \in Nat
                                       /\ Total(daily, S) \in Nat
           /\ \A m : /\ Total(raw, DaysOf(m)) \in Nat /\ Total(prompt, DaysOf(m)) \in Nat
                     /\ Total(daily, DaysOf(m)) \in Nat
<1>1. TableTypes /\ total \in [Jobs -> Nat]
  BY DEF Types, RunTypes
<1>2. \A S \in SUBSET Dates : /\ Total(raw, S) \in Nat /\ Total(prompt, S) \in Nat
                              /\ Total(daily, S) \in Nat
  BY <1>1, TotalFacts DEF TableTypes
<1>3. \A m : DaysOf(m) \in SUBSET Dates
  BY DEF DaysOf
<1>4. \A m : /\ Total(raw, DaysOf(m)) \in Nat /\ Total(prompt, DaysOf(m)) \in Nat
             /\ Total(daily, DaysOf(m)) \in Nat
  BY <1>2, <1>3
<1>5. \A j \in Jobs : total[j] \in Nat
  BY <1>1
<1> QED BY <1>1, <1>2, <1>4, <1>5 DEF TableTypes, Jobs

\* An event adds one to its day, to its month, and to all.
LEMMA OneMore ==
    ASSUME NEW f \in [Dates -> Nat], NEW d \in Dates, NEW g \in [Dates -> Nat],
           g[d] = f[d] + 1, \A e \in Dates : e # d => g[e] = f[e],
           NEW S \in SUBSET Dates
    PROVE  Total(g, S) = IF d \in S THEN Total(f, S) + 1 ELSE Total(f, S)
<1>1. CASE d \notin S
  BY <1>1, TotalSame
<1>2. CASE d \in S
  <2>1. IsFiniteSet(S) /\ (\A e \in S : f[e] \in Nat) /\ (\A e \in S : g[e] \in Nat)
    BY DatesFinite, FS_Subset
  <2>2. Total(f, S) = f[d] + Total(f, S \ {d}) /\ Total(f, S \ {d}) \in Nat
    BY <1>2, <2>1, SumRemove, TotalFacts DEF Total
  <2>3. Total(g, S) = g[d] + Total(g, S \ {d})
    BY <1>2, <2>1, SumRemove DEF Total
  <2>4. Total(g, S \ {d}) = Total(f, S \ {d})
    BY TotalSame
  <2>5. f[d] \in Nat
    OBVIOUS
  <2> QED BY <1>2, <2>2, <2>3, <2>4, <2>5
<1> QED BY <1>1, <1>2

LEMMA TableInit == Init => TableInv
<1> SUFFICES ASSUME Init PROVE TableInv
  OBVIOUS
<1>1. ClockTypes
  <2>1. Proper(today)
    <3>1. FirstMonth[1] \in Int /\ FirstMonth[2] \in 1..12
      BY SpanAssumption
    <3>2. 1 \in 1..DaysIn[FirstMonth[2]]
      BY <3>1, CalendarAssumption
    <3>3. today = <<FirstMonth[1], FirstMonth[2], 1>>
      BY DEF Init, FirstOf
    <3> HIDE SpanAssumption
    <3> QED BY <3>1, <3>2, <3>3 DEF Proper, IsDate
  <2> QED BY <2>1, ScheduleAssumption, BoundAssumption DEF Init, ClockTypes
<1>2. TableTypes
  BY DEF Init, TableTypes
<1>3. RunTypes
  BY DEF Init, RunTypes, Runs, Jobs
<1>4. Types
  BY <1>1, <1>2, <1>3 DEF Types
<1>5. Total(raw, Dates) = 0
  <2>1. \A d \in Dates : raw[d] = 0
    BY DEF Init
  <2> QED BY <2>1, DatesFinite, SumOfZeros DEF Total
<1>6. \A m : Total(raw, DaysOf(m)) \in Nat
  BY <1>4, Figures
<1>7. /\ \A d \in Dates : daily[d] = 0 /\ prompt[d] = 0 /\ raw[d] = 0
      /\ \A m \in Months : monthly[m] = 0
      /\ \A j \in Jobs : stage[j] = "idle" /\ total[j] = 0
      /\ reports = {}
  BY DEF Init
<1>8. NotAhead
  BY <1>5, <1>6, <1>7, BoundAssumption DEF NotAhead, Jobs
<1> QED BY <1>4, <1>8 DEF TableInv

LEMMA TableArrive ==
    ASSUME TableInv, NEW d \in Dates, Arrive(d)
    PROVE  TableInv'
<1>1. /\ raw' = [raw EXCEPT ![d] = @ + 1]
      /\ prompt' = prompt \/ prompt' = [prompt EXCEPT ![d] = @ + 1]
      /\ Total(raw, Dates) < MaxEvents
  BY DEF Arrive
<1>2. /\ today' = today /\ hour' = hour /\ up' = up /\ daily' = daily
      /\ monthly' = monthly /\ stage' = stage /\ target' = target
      /\ total' = total /\ reports' = reports /\ faults' = faults
  BY DEF Arrive, clock
<1>3. Types /\ NotAhead /\ TableTypes
  BY DEF TableInv, Types
<1>4. raw \in [Dates -> Nat] /\ prompt \in [Dates -> Nat]
  BY <1>3 DEF TableTypes
<1>5. /\ raw' \in [Dates -> Nat]
      /\ \A e \in Dates : raw'[e] >= raw[e]
      /\ \A S \in SUBSET Dates :
            Total(raw', S) = IF d \in S THEN Total(raw, S) + 1 ELSE Total(raw, S)
  <2>1. /\ raw' \in [Dates -> Nat] /\ raw'[d] = raw[d] + 1
        /\ \A e \in Dates : e # d => raw'[e] = raw[e]
    BY <1>1, <1>4
  <2>2. \A S \in SUBSET Dates :
            Total(raw', S) = IF d \in S THEN Total(raw, S) + 1 ELSE Total(raw, S)
    BY <1>4, <2>1, OneMore
  <2> QED BY <1>4, <2>1, <2>2
<1>6. Types'
  <2>1. prompt' \in [Dates -> Nat]
    BY <1>1, <1>4
  <2>2. TableTypes'
    BY <1>2, <1>3, <1>5, <2>1 DEF TableTypes
  <2>3. ClockTypes' /\ RunTypes'
    BY <1>2, <1>3 DEF Types, ClockTypes, RunTypes, Runs
  <2> QED BY <2>2, <2>3 DEF Types
<1>7. Total(raw', Dates) <= MaxEvents
  <2>1. Total(raw', Dates) = Total(raw, Dates) + 1 /\ Total(raw, Dates) \in Nat
    BY <1>3, <1>5, Figures
  <2> QED BY <1>1, <2>1, BoundAssumption
<1>8. \A m : /\ Total(raw, DaysOf(m)) \in Nat /\ Total(raw', DaysOf(m)) \in Nat
             /\ Total(raw, DaysOf(m)) <= Total(raw', DaysOf(m))
  <2>1. \A m : DaysOf(m) \in SUBSET Dates
    BY DEF DaysOf
  <2>2. \A m : Total(raw, DaysOf(m)) \in Nat
    BY <1>3, Figures
  <2> QED BY <1>5, <2>1, <2>2
<1>9. \A e \in Dates : daily[e] <= raw'[e] /\ prompt'[e] <= raw'[e]
  <2> TAKE e \in Dates
  <2>1. daily[e] <= raw[e] /\ prompt[e] <= raw[e]
    BY <1>3 DEF NotAhead
  <2>2. daily[e] \in Nat /\ raw[e] \in Nat /\ prompt[e] \in Nat
    BY <1>3, Figures
  <2> QED BY <1>1, <1>4, <2>1, <2>2
<1>10. NotAhead'
  <2>1. \A m \in Months : monthly[m] <= Total(raw', DaysOf(m))
    <3>1. \A m \in Months : monthly[m] <= Total(raw, DaysOf(m)) /\ monthly[m] \in Nat
      BY <1>3, Figures DEF NotAhead
    <3> QED BY <1>8, <3>1
  <2>2. \A r \in reports : r.month \in Months => r.total <= Total(raw', DaysOf(r.month))
    <3>1. \A r \in reports : /\ r.total \in Nat
                             /\ r.month \in Months => r.total <= Total(raw, DaysOf(r.month))
      BY <1>3, Figures DEF NotAhead
    <3> QED BY <1>8, <3>1
  <2>3. total["daily"] \in Nat /\ total["monthly"] \in Nat
    BY <1>3, Figures
  <2>4. stage["daily"] = "selected" /\ total["daily"] > 0 =>
            target["daily"] \in Dates /\ total["daily"] <= raw'[target["daily"]]
    BY <1>3, <1>4, <1>5, <2>3 DEF NotAhead
  <2>5. stage["monthly"] = "selected" /\ total["monthly"] > 0 =>
            /\ target["monthly"] \in Months
            /\ total["monthly"] <= Total(raw', DaysOf(target["monthly"]))
    BY <1>3, <1>8, <2>3 DEF NotAhead
  <2>6. \A j \in Jobs : stage[j] # "selected" => total[j] = 0
    BY <1>3 DEF NotAhead
  <2> QED BY <1>2, <1>7, <1>9, <2>1, <2>2, <2>4, <2>5, <2>6 DEF NotAhead
<1> QED BY <1>6, <1>10 DEF TableInv

LEMMA TableTick ==
    ASSUME TableInv, Tick
    PROVE  TableInv'
<1>1. Types /\ NotAhead
  BY DEF TableInv
<1>2. /\ Proper(today') /\ hour' \in 0..Hours - 1 /\ faults' \in 0..MaxFaults
      /\ \A j \in Jobs :
            IF Starts(j) THEN stage'[j] = "started" /\ target'[j] = Target(j, today')
            ELSE stage'[j] = stage[j] /\ target'[j] = target[j]
      /\ stage' \in [Jobs -> {"idle", "started", "selected"}]
      /\ target' = [j \in Jobs |-> target'[j]]
      /\ UNCHANGED <<up, raw, prompt, daily, monthly, total, reports>>
  BY <1>1, TickEffect
<1>3. ClockTypes' /\ TableTypes'
  BY <1>1, <1>2 DEF Types, ClockTypes, TableTypes
<1>4. RunTypes'
  <2>1. /\ Target("daily", today') = PrevDate(today') /\ Proper(PrevDate(today'))
        /\ IsMonth(Target("monthly", today')) /\ IsMonth(Target("report", today'))
    BY <1>2, TargetFacts
  <2>2. RunTypes
    BY <1>1 DEF Types
  <2>3. stage'["report"] # "selected"
    BY <1>2, <2>2 DEF RunTypes, Jobs
  <2>4. \A j \in Jobs : Runs(j)' => up'
    BY <1>2, <2>2 DEF RunTypes, Runs, Starts
  <2>5. Runs("daily")' => Proper(target'["daily"])
    BY <1>2, <2>1, <2>2 DEF RunTypes, Runs, Jobs
  <2>6. \A j \in {"monthly", "report"} : Runs(j)' => IsMonth(target'[j])
    BY <1>2, <2>1, <2>2 DEF RunTypes, Runs, Jobs
  <2> QED BY <1>2, <2>2, <2>3, <2>4, <2>5, <2>6 DEF RunTypes
<1>5. NotAhead'
  <2>1. \A j \in Jobs : stage'[j] # "selected" => total[j] = 0
    BY <1>1, <1>2 DEF NotAhead, Starts, Runs
  <2>2. \A j \in {"daily", "monthly"} :
            stage'[j] = "selected" => stage[j] = "selected" /\ target'[j] = target[j]
    BY <1>2 DEF Jobs
  <2> QED BY <1>1, <1>2, <2>1, <2>2 DEF NotAhead
<1> QED BY <1>3, <1>4, <1>5 DEF TableInv, Types

\* The tables stay and runs end.
LEMMA TableEnded ==
    ASSUME TableInv, NEW jobs \in SUBSET Jobs, Ended(jobs),
           UNCHANGED <<raw, prompt, daily, monthly, reports>>,
           ClockTypes', up' = up \/ jobs = Jobs
    PROVE  TableInv'
<1>1. Types /\ NotAhead /\ TableTypes /\ RunTypes
  BY DEF TableInv, Types
<1>2. /\ \A j \in Jobs :
            IF j \in jobs THEN stage'[j] = "idle" /\ total'[j] = 0
            ELSE stage'[j] = stage[j] /\ target'[j] = target[j] /\ total'[j] = total[j]
      /\ stage' \in [Jobs -> {"idle", "started", "selected"}]
      /\ target' = [j \in Jobs |-> target'[j]]
      /\ total' \in [Jobs -> Nat]
  BY <1>1, EndedEffect
<1>3. TableTypes'
  BY <1>1 DEF TableTypes
<1>4. RunTypes'
  <2>1. \A j \in Jobs : Runs(j)' => Runs(j) /\ target'[j] = target[j] /\ up' = up
    BY <1>2 DEF Runs
  <2>2. stage'["report"] # "selected"
    BY <1>1, <1>2 DEF RunTypes, Jobs
  <2> QED BY <1>1, <1>2, <2>1, <2>2 DEF RunTypes, Jobs
<1>5. NotAhead'
  <2>1. \A j \in Jobs : stage'[j] # "selected" => total'[j] = 0
    BY <1>1, <1>2 DEF NotAhead
  <2>2. \A j \in {"daily", "monthly"} :
            stage'[j] = "selected" => /\ stage[j] = "selected" /\ target'[j] = target[j]
                                      /\ total'[j] = total[j]
    BY <1>2 DEF Jobs
  <2> QED BY <1>1, <2>1, <2>2 DEF NotAhead
<1> QED BY <1>3, <1>4, <1>5 DEF TableInv, Types

LEMMA TableStop == TableInv /\ Stop => TableInv'
<1> SUFFICES ASSUME TableInv, Stop PROVE TableInv'
  OBVIOUS
<1>1. ClockTypes'
  <2>1. ClockTypes /\ UNCHANGED <<today, hour>> /\ Fault /\ up' \in BOOLEAN
    BY DEF TableInv, Types, Stop, clock
  <2>2. faults' \in 0..MaxFaults
    BY <2>1, BoundAssumption DEF ClockTypes, Fault
  <2> QED BY <2>1, <2>2 DEF ClockTypes
<1>2. Ended(Jobs) /\ UNCHANGED <<raw, prompt, daily, monthly, reports>>
  BY DEF Stop, tables
<1> QED BY <1>1, <1>2, TableEnded

LEMMA TableFail ==
    ASSUME TableInv, NEW j \in Jobs, Fail(j)
    PROVE  TableInv'
<1>1. ClockTypes'
  BY BoundAssumption DEF TableInv, Types, ClockTypes, Fail, Fault, clock
<1>2. Ended({j}) /\ UNCHANGED <<raw, prompt, daily, monthly, reports>> /\ up' = up
  BY DEF Fail, tables
<1> QED BY <1>1, <1>2, TableEnded

LEMMA TableStart == TableInv /\ Start => TableInv'
<1> SUFFICES ASSUME TableInv, Start PROVE TableInv'
  OBVIOUS
<1>1. /\ today' = today /\ hour' = hour /\ raw' = raw /\ prompt' = prompt
      /\ daily' = daily /\ monthly' = monthly /\ stage' = stage /\ target' = target
      /\ total' = total /\ reports' = reports /\ faults' = faults /\ up' = TRUE
  BY DEF Start, clock, tables
<1>2. ClockTypes' /\ TableTypes'
  BY <1>1 DEF TableInv, Types, ClockTypes, TableTypes
<1>3. RunTypes'
  BY <1>1 DEF TableInv, Types, RunTypes, Runs
<1>4. NotAhead'
  BY <1>1 DEF TableInv, NotAhead
<1> QED BY <1>2, <1>3, <1>4 DEF TableInv, Types

\* What a SELECT of some total leaves.
LEMMA SelectEffect ==
    ASSUME Types, NEW j \in {"daily", "monthly"}, NEW t \in Nat, Select(j, t)
    PROVE  /\ Types'
           /\ stage[j] = "started" /\ stage'[j] = "selected" /\ total'[j] = t
           /\ \A k \in Jobs : k # j => stage'[k] = stage[k] /\ total'[k] = total[k]
           /\ UNCHANGED <<today, hour, raw, prompt, daily, monthly, target, reports, flawed>>
<1>1. /\ today' = today /\ hour' = hour /\ raw' = raw /\ prompt' = prompt
      /\ daily' = daily /\ monthly' = monthly /\ target' = target /\ up' = up
      /\ reports' = reports /\ flawed' = flawed /\ faults' = faults
  BY DEF Select, clock, tables
<1>2. j \in Jobs /\ j # "report" /\ RunTypes
  BY DEF Jobs, Types
<1>3. /\ stage[j] = "started" /\ stage'[j] = "selected" /\ total'[j] = t
      /\ \A k \in Jobs : k # j => stage'[k] = stage[k] /\ total'[k] = total[k]
      /\ stage' \in [Jobs -> {"idle", "started", "selected"}]
      /\ total' \in [Jobs -> Nat]
  BY <1>2 DEF Select, RunTypes
<1>4. ClockTypes' /\ TableTypes'
  BY <1>1 DEF Types, ClockTypes, TableTypes
<1>5. RunTypes'
  <2>1. \A k \in Jobs : Runs(k)' <=> Runs(k)
    BY <1>3 DEF Runs
  <2>2. stage'["report"] # "selected"
    BY <1>2, <1>3 DEF RunTypes, Jobs
  <2> QED BY <1>1, <1>2, <1>3, <2>1, <2>2 DEF RunTypes, Jobs
<1> QED BY <1>1, <1>3, <1>4, <1>5 DEF Types

\* The two SELECTs read no more than there is.
LEMMA SelectedDay ==
    ASSUME TableInv, SelectDay
    PROVE  \E t \in Nat :
              /\ Select("daily", t) /\ RunTypes
              /\ IF target["daily"] \in Dates THEN t = raw[target["daily"]] ELSE t = 0
<1> DEFINE t == IF target["daily"] \in Dates THEN raw[target["daily"]] ELSE 0
<1>1. t \in Nat
  BY Figures DEF TableInv
<1>2. Select("daily", t)
  BY DEF SelectDay
<1> QED BY <1>1, <1>2 DEF TableInv, Types

LEMMA SelectedMonth ==
    ASSUME TableInv, SelectMonth
    PROVE  /\ IsMonth(target["monthly"])
           /\ Total(daily, DaysOf(target["monthly"])) \in Nat
           /\ Select("monthly", Total(daily, DaysOf(target["monthly"])))
<1> DEFINE m == target["monthly"]
<1>1. Select("monthly", Total(daily, Summaries(FirstOf(m), LastDayOf(m))))
  BY DEF SelectMonth
<1>2. stage["monthly"] = "started"
  BY <1>1 DEF Select
<1>3. IsMonth(m)
  BY <1>2 DEF TableInv, Types, RunTypes, Runs
<1>4. Total(daily, DaysOf(m)) \in Nat
  BY Figures DEF TableInv
<1> QED BY <1>1, <1>3, <1>4, SummariesOfMonth

LEMMA TableSelectDay == TableInv /\ SelectDay => TableInv'
<1> SUFFICES ASSUME TableInv, SelectDay PROVE TableInv'
  OBVIOUS
<1>1. PICK t \in Nat :
          /\ Select("daily", t)
          /\ IF target["daily"] \in Dates THEN t = raw[target["daily"]] ELSE t = 0
  BY SelectedDay
<1>2. Types /\ NotAhead
  BY DEF TableInv
<1>3. /\ Types'
      /\ stage["daily"] = "started" /\ stage'["daily"] = "selected" /\ total'["daily"] = t
      /\ \A k \in Jobs : k # "daily" => stage'[k] = stage[k] /\ total'[k] = total[k]
      /\ UNCHANGED <<raw, prompt, daily, monthly, target, reports>>
  BY <1>1, <1>2, SelectEffect
<1>4. target["daily"] \in Dates => raw[target["daily"]] \in Nat
  BY <1>2, Figures
<1>5. NotAhead'
  <2>1. stage'["monthly"] = stage["monthly"] /\ total'["monthly"] = total["monthly"]
    BY <1>3 DEF Jobs
  <2>2. \A k \in Jobs : stage'[k] # "selected" => total'[k] = 0
    BY <1>2, <1>3 DEF NotAhead
  <2>3. t > 0 => target["daily"] \in Dates /\ t <= raw[target["daily"]]
    BY <1>1, <1>4
  <2> QED BY <1>2, <1>3, <2>1, <2>2, <2>3 DEF NotAhead
<1> QED BY <1>3, <1>5 DEF TableInv

LEMMA TableSelectMonth == TableInv /\ SelectMonth => TableInv'
<1> SUFFICES ASSUME TableInv, SelectMonth PROVE TableInv'
  OBVIOUS
<1> DEFINE m == target["monthly"]
           t == Total(daily, DaysOf(m))
<1>1. Types /\ NotAhead /\ TableTypes
  BY DEF TableInv, Types
<1>2. IsMonth(m) /\ t \in Nat /\ Select("monthly", t)
  BY SelectedMonth
<1>3. /\ Types'
      /\ stage'["monthly"] = "selected" /\ total'["monthly"] = t
      /\ \A k \in Jobs : k # "monthly" => stage'[k] = stage[k] /\ total'[k] = total[k]
      /\ UNCHANGED <<raw, prompt, daily, monthly, target, reports>>
  BY <1>1, <1>2, SelectEffect
<1>4. t > 0 => m \in Months
  <2>1. SUFFICES ASSUME m \notin Months PROVE t = 0
    OBVIOUS
  <2>2. DaysOf(m) = {}
    BY <2>1, DatesFacts DEF DaysOf
  <2> QED BY <2>2, SumEmpty DEF Total
<1>5. t <= Total(raw, DaysOf(m))
  <2>1. daily \in [Dates -> Nat] /\ raw \in [Dates -> Nat] /\ DaysOf(m) \in SUBSET Dates
    BY <1>1 DEF TableTypes, DaysOf
  <2>2. \A d \in DaysOf(m) : daily[d] <= raw[d]
    BY <1>1 DEF NotAhead, DaysOf
  <2> QED BY <2>1, <2>2, TotalAtMost
<1> HIDE DEF t
<1>6. NotAhead'
  <2>1. stage'["daily"] = stage["daily"] /\ total'["daily"] = total["daily"]
    BY <1>3 DEF Jobs
  <2>2. \A k \in Jobs : stage'[k] # "selected" => total'[k] = 0
    BY <1>1, <1>3 DEF NotAhead
  <2> QED BY <1>1, <1>3, <1>4, <1>5, <2>1, <2>2 DEF NotAhead
<1> QED BY <1>3, <1>6 DEF TableInv

\* What the upsert of a run leaves.
LEMMA CommitEffect ==
    ASSUME TableInv, NEW j \in Jobs, Commit(j)
    PROVE  /\ j # "report" /\ stage[j] = "selected" /\ Ended({j})
           /\ daily' \in [Dates -> Nat] /\ monthly' \in [Months -> Nat]
           /\ \A d \in Dates :
                 daily'[d] = IF j = "daily" /\ total[j] > 0 /\ target[j] = d
                             THEN total[j] ELSE daily[d]
           /\ \A m \in Months :
                 monthly'[m] = IF j = "monthly" /\ total[j] > 0 /\ target[j] = m
                               THEN total[j] ELSE monthly[m]
           /\ today' = today /\ hour' = hour /\ up' = up /\ raw' = raw /\ prompt' = prompt
           /\ reports' = reports /\ flawed' = flawed /\ faults' = faults
<1>1. /\ stage[j] = "selected" /\ Ended({j})
      /\ today' = today /\ hour' = hour /\ up' = up /\ raw' = raw /\ prompt' = prompt
      /\ reports' = reports /\ flawed' = flawed /\ faults' = faults
  BY DEF Commit, clock
<1>2. j # "report" /\ TableTypes /\ total[j] \in Nat
  BY <1>1, Figures DEF TableInv, Types, RunTypes
<1>3. /\ j = "daily" /\ total[j] > 0 => target[j] \in Dates
      /\ j = "monthly" /\ total[j] > 0 => target[j] \in Months
  BY <1>1 DEF TableInv, NotAhead
<1>4. /\ daily' = IF j = "daily" /\ total[j] > 0
                  THEN [daily EXCEPT ![target[j]] = total[j]] ELSE daily
      /\ monthly' = IF j = "monthly" /\ total[j] > 0
                    THEN [monthly EXCEPT ![target[j]] = total[j]] ELSE monthly
  BY DEF Commit
<1>5. daily \in [Dates -> Nat] /\ monthly \in [Months -> Nat]
  BY <1>2 DEF TableTypes
<1>6. /\ daily' \in [Dates -> Nat]
      /\ \A d \in Dates :
            daily'[d] = IF j = "daily" /\ total[j] > 0 /\ target[j] = d
                        THEN total[j] ELSE daily[d]
  BY <1>2, <1>3, <1>4, <1>5
<1>7. /\ monthly' \in [Months -> Nat]
      /\ \A m \in Months :
            monthly'[m] = IF j = "monthly" /\ total[j] > 0 /\ target[j] = m
                          THEN total[j] ELSE monthly[m]
  BY <1>2, <1>3, <1>4, <1>5
<1> QED BY <1>1, <1>2, <1>6, <1>7

LEMMA TableCommit ==
    ASSUME TableInv, NEW j \in Jobs, Commit(j)
    PROVE  TableInv'
<1>1. Types /\ NotAhead /\ TableTypes /\ RunTypes /\ ClockTypes
  BY DEF TableInv, Types
<1>2. /\ j # "report" /\ stage[j] = "selected" /\ Ended({j})
      /\ daily' \in [Dates -> Nat] /\ monthly' \in [Months -> Nat]
      /\ \A d \in Dates :
            daily'[d] = IF j = "daily" /\ total[j] > 0 /\ target[j] = d
                        THEN total[j] ELSE daily[d]
      /\ \A m \in Months :
            monthly'[m] = IF j = "monthly" /\ total[j] > 0 /\ target[j] = m
                          THEN total[j] ELSE monthly[m]
      /\ today' = today /\ hour' = hour /\ up' = up /\ raw' = raw /\ prompt' = prompt
      /\ reports' = reports /\ faults' = faults
  BY CommitEffect
<1>3. /\ \A k \in Jobs :
            IF k = j THEN stage'[k] = "idle" /\ total'[k] = 0
            ELSE stage'[k] = stage[k] /\ target'[k] = target[k] /\ total'[k] = total[k]
      /\ stage' \in [Jobs -> {"idle", "started", "selected"}]
      /\ target' = [k \in Jobs |-> target'[k]]
      /\ total' \in [Jobs -> Nat]
  BY <1>1, <1>2, EndedEffect
<1>4. ClockTypes' /\ TableTypes'
  BY <1>1, <1>2 DEF ClockTypes, TableTypes
<1>5. RunTypes'
  <2>1. \A k \in Jobs : Runs(k)' => Runs(k) /\ target'[k] = target[k]
    BY <1>3 DEF Runs
  <2>2. stage'["report"] # "selected"
    BY <1>1, <1>3 DEF RunTypes, Jobs
  <2> QED BY <1>1, <1>2, <1>3, <2>1, <2>2 DEF RunTypes, Jobs
<1>6. NotAhead'
  <2>1. \A k \in Jobs : stage'[k] # "selected" => total'[k] = 0
    BY <1>1, <1>3 DEF NotAhead
  <2>2. \A k \in {"daily", "monthly"} :
            stage'[k] = "selected" => /\ stage[k] = "selected" /\ target'[k] = target[k]
                                      /\ total'[k] = total[k]
    BY <1>3 DEF Jobs
  <2>3. \A d \in Dates : daily'[d] <= raw[d] /\ prompt[d] <= raw[d]
    BY <1>1, <1>2 DEF NotAhead
  <2>4. \A m \in Months : monthly'[m] <= Total(raw, DaysOf(m))
    BY <1>1, <1>2 DEF NotAhead
  <2> QED BY <1>1, <1>2, <2>1, <2>2, <2>3, <2>4 DEF NotAhead
<1> QED BY <1>4, <1>5, <1>6 DEF TableInv, Types

LEMMA TableReport == TableInv /\ Report => TableInv'
<1> SUFFICES ASSUME TableInv, Report PROVE TableInv'
  OBVIOUS
<1> DEFINE m == target["report"]
           r == [month |-> m, total |-> IF m \in Months THEN monthly[m] ELSE 0]
<1>1. Types /\ NotAhead /\ TableTypes /\ RunTypes /\ ClockTypes
  BY DEF TableInv, Types
<1>2. /\ Ended({"report"}) /\ reports' = reports \union {r}
      /\ today' = today /\ hour' = hour /\ up' = up /\ raw' = raw /\ prompt' = prompt
      /\ daily' = daily /\ monthly' = monthly /\ faults' = faults
  BY DEF Report, clock, tables
<1>3. /\ \A k \in Jobs :
            IF k = "report" THEN stage'[k] = "idle" /\ total'[k] = 0
            ELSE stage'[k] = stage[k] /\ target'[k] = target[k] /\ total'[k] = total[k]
      /\ stage' \in [Jobs -> {"idle", "started", "selected"}]
      /\ target' = [k \in Jobs |-> target'[k]]
      /\ total' \in [Jobs -> Nat]
  BY <1>1, <1>2, EndedEffect DEF Jobs
<1>4. /\ r.month = m /\ r.total \in Nat
      /\ r.month \in Months => r.total <= Total(raw, DaysOf(r.month))
  BY <1>1, Figures DEF NotAhead
<1> HIDE DEF r
<1>5. ClockTypes' /\ TableTypes'
  BY <1>1, <1>2, <1>4 DEF ClockTypes, TableTypes
<1>6. RunTypes'
  <2>1. \A k \in Jobs : Runs(k)' => Runs(k) /\ target'[k] = target[k]
    BY <1>3 DEF Runs
  <2>2. stage'["report"] # "selected"
    BY <1>1, <1>3 DEF RunTypes, Jobs
  <2> QED BY <1>1, <1>2, <1>3, <2>1, <2>2 DEF RunTypes, Jobs
<1>7. NotAhead'
  <2>1. \A k \in Jobs : stage'[k] # "selected" => total'[k] = 0
    BY <1>1, <1>3 DEF NotAhead
  <2>2. \A k \in {"daily", "monthly"} :
            /\ stage'[k] = stage[k] /\ target'[k] = target[k] /\ total'[k] = total[k]
    BY <1>3 DEF Jobs
  <2>3. \A s \in reports' : s.month \in Months => s.total <= Total(raw, DaysOf(s.month))
    BY <1>1, <1>2, <1>4 DEF NotAhead
  <2> QED BY <1>1, <1>2, <2>1, <2>2, <2>3 DEF NotAhead
<1> QED BY <1>5, <1>6, <1>7 DEF TableInv, Types

LEMMA TableNext == TableInv /\ [Next]_vars => TableInv'
<1> SUFFICES ASSUME TableInv, [Next]_vars PROVE TableInv'
  OBVIOUS
<1>1. CASE \E d \in Dates : Arrive(d)
  BY <1>1, TableArrive
<1>2. CASE Tick
  BY <1>2, TableTick
<1>3. CASE Stop
  BY <1>3, TableStop
<1>4. CASE Start
  BY <1>4, TableStart
<1>5. CASE SelectDay
  BY <1>5, TableSelectDay
<1>6. CASE SelectMonth
  BY <1>6, TableSelectMonth
<1>7. CASE \E j \in Jobs : Commit(j)
  BY <1>7, TableCommit
<1>8. CASE Report
  BY <1>8, TableReport
<1>9. CASE \E j \in Jobs : Fail(j)
  BY <1>9, TableFail
<1>10. CASE UNCHANGED vars
  BY <1>10 DEF vars, clock, tables, TableInv, Types, ClockTypes, TableTypes, RunTypes,
               NotAhead, Runs
<1> QED BY <1>1, <1>2, <1>3, <1>4, <1>5, <1>6, <1>7, <1>8, <1>9, <1>10 DEF Next, Run

\* No table and no run ever holds more than the events there are, whatever the
\* hours of the jobs, the time zones and the faults.
LEMMA TableHolds == Spec => []TableInv
  BY TableInit, TableNext, PTL DEF Spec

\* What TypeOK asks: the clock is on a date, the figures are numbers of events,
\* and only a worker that is up has runs, each about a month that there is.
THEOREM TypesHold == Spec => []TypeOK
<1>1. TableInv => TypeOK
  <2> SUFFICES ASSUME TableInv PROVE TypeOK
    OBVIOUS
  <2>1. Types /\ NotAhead /\ TableTypes /\ RunTypes /\ ClockTypes
    BY DEF TableInv, Types
  <2>2. \A S \in SUBSET Dates : Total(raw, S) <= MaxEvents
    <3>1. Total(raw, Dates) <= MaxEvents /\ Total(raw, Dates) \in Nat
      BY <2>1, Figures DEF NotAhead
    <3>2. \A S \in SUBSET Dates : Total(raw, S) \in Nat /\ Total(raw, S) <= Total(raw, Dates)
      BY <2>1, TotalFacts DEF TableTypes
    <3> QED BY <3>1, <3>2, BoundAssumption
  <2>3. \A d \in Dates : raw[d] \in 0..MaxEvents
    <3>1. \A d \in Dates : raw[d] \in Nat /\ raw[d] <= Total(raw, Dates)
      BY <2>1, TotalFacts DEF TableTypes
    <3>2. Total(raw, Dates) \in Nat /\ Total(raw, Dates) <= MaxEvents
      BY <2>1, <2>2, Figures
    <3> QED BY <3>1, <3>2, BoundAssumption
  <2>4. \A d \in Dates : daily[d] \in 0..MaxEvents /\ prompt[d] \in 0..MaxEvents
    <3>1. \A d \in Dates : /\ daily[d] \in Nat /\ prompt[d] \in Nat
                           /\ daily[d] <= raw[d] /\ prompt[d] <= raw[d]
      BY <2>1, Figures DEF NotAhead
    <3> QED BY <2>3, <3>1, BoundAssumption
  <2>5. \A m : Total(raw, DaysOf(m)) \in 0..MaxEvents
    <3>1. \A m : DaysOf(m) \in SUBSET Dates
      BY DEF DaysOf
    <3> QED BY <2>1, <2>2, <3>1, Figures, BoundAssumption
  <2>6. \A m \in Months : monthly[m] \in 0..MaxEvents
    <3>1. \A m \in Months : monthly[m] \in Nat /\ monthly[m] <= Total(raw, DaysOf(m))
      BY <2>1, Figures DEF NotAhead
    <3> QED BY <2>5, <3>1, BoundAssumption
  <2>7. \A j \in Jobs : total[j] \in 0..MaxEvents
    <3>1. total["daily"] \in 0..MaxEvents
      BY <2>1, <2>3, Figures, BoundAssumption DEF NotAhead, Jobs
    <3>2. total["monthly"] \in 0..MaxEvents
      BY <2>1, <2>5, Figures, BoundAssumption DEF NotAhead, Jobs
    <3>3. total["report"] \in 0..MaxEvents
      BY <2>1, BoundAssumption DEF NotAhead, RunTypes, Jobs
    <3> QED BY <3>1, <3>2, <3>3 DEF Jobs
  <2>8. \A j \in Jobs : stage[j] = "idle" \/ (up /\ MonthOf(target[j])[2] \in 1..12)
    <3>1. Runs("daily") => MonthOf(target["daily"])[2] \in 1..12
      BY <2>1 DEF RunTypes, Proper, IsDate, MonthOf
    <3>2. \A j \in {"monthly", "report"} : Runs(j) => MonthOf(target[j])[2] \in 1..12
      BY <2>1, PairOfMonth DEF RunTypes, MonthOf
    <3> QED BY <2>1, <3>1, <3>2 DEF RunTypes, Runs, Jobs
  <2>9. /\ raw \in [Dates -> 0..MaxEvents] /\ prompt \in [Dates -> 0..MaxEvents]
        /\ daily \in [Dates -> 0..MaxEvents] /\ monthly \in [Months -> 0..MaxEvents]
        /\ total \in [Jobs -> 0..MaxEvents]
    BY <2>1, <2>3, <2>4, <2>6, <2>7 DEF TableTypes, RunTypes
  <2> QED BY <2>1, <2>8, <2>9 DEF TypeOK, ClockTypes, RunTypes, Proper
<1> QED BY <1>1, TableHolds, PTL

-----------------------------------------------------------------------------
(* Time, from hour to hour.                                                *)

LEMMA DateOrder ==
    ASSUME NEW x, Proper(x), NEW y, Proper(y)
    PROVE  /\ AtMost(x, NextDate(y)) <=> (AtMost(x, y) \/ x = NextDate(y))
           /\ x = NextDate(y) => ~AtMost(x, y)
           /\ AtMost(x, y) /\ AtMost(y, x) => x = y
<1>1. /\ x[1] \in Int /\ x[2] \in 1..12 /\ x[3] \in 1..DaysIn[x[2]] /\ x = <<x[1], x[2], x[3]>>
      /\ y[1] \in Int /\ y[2] \in 1..12 /\ y[3] \in 1..DaysIn[y[2]] /\ y = <<y[1], y[2], y[3]>>
      /\ DaysIn[x[2]] \in Nat \ {0} /\ DaysIn[y[2]] \in Nat \ {0}
  BY CalendarAssumption DEF Proper, IsDate
<1>2. AtMost(x, y) /\ AtMost(y, x) => x = y
  BY <1>1 DEF AtMost
<1>3. CASE y[3] < DaysIn[y[2]]
  <2>1. NextDate(y) = <<y[1], y[2], y[3] + 1>>
    BY <1>3 DEF NextDate
  <2> QED BY <1>1, <1>2, <2>1 DEF AtMost
<1>4. CASE ~(y[3] < DaysIn[y[2]]) /\ y[2] < 12
  <2>1. NextDate(y) = <<y[1], y[2] + 1, 1>>
    BY <1>4 DEF NextDate
  <2> QED BY <1>1, <1>2, <1>4, <2>1 DEF AtMost
<1>5. CASE ~(y[3] < DaysIn[y[2]]) /\ ~(y[2] < 12)
  <2>1. NextDate(y) = <<y[1] + 1, 1, 1>>
    BY <1>5 DEF NextDate
  <2> QED BY <1>1, <1>2, <1>5, <2>1 DEF AtMost
<1> QED BY <1>3, <1>4, <1>5

LEMMA OrderIsTransitive ==
    ASSUME NEW x, Proper(x), NEW y, Proper(y), NEW z, Proper(z), AtMost(x, y), AtMost(y, z)
    PROVE  AtMost(x, z)
<1>1. /\ x[1] \in Int /\ x[2] \in Int /\ x[3] \in Int
      /\ y[1] \in Int /\ y[2] \in Int /\ y[3] \in Int
      /\ z[1] \in Int /\ z[2] \in Int /\ z[3] \in Int
  BY CalendarAssumption DEF Proper, IsDate
<1> QED BY <1>1 DEF AtMost

LEMMA MonthItself ==
    ASSUME NEW m, IsMonth(m)
    PROVE  MonthOf(m) = m
  BY PairOfMonth DEF MonthOf

\* The day in the month after on which a month is summed up.
LEMMA MonthAfter ==
    ASSUME InOrder, NEW m, IsMonth(m)
    PROVE  /\ Proper(MonthlyDate(m)) /\ MonthlyDate(m)[3] = MonthlyDay
           /\ \A d : Proper(d) /\ MonthOf(d) = m => AtMost(NextDate(d), MonthlyDate(m))
           /\ \A d : Proper(d) /\ ReportMonth(d) = m =>
                 /\ d[3] >= MonthlyDay => AtMost(MonthlyDate(m), d)
                 /\ d[3] = MonthlyDay <=> d = MonthlyDate(m)
           /\ ReportMonth(MonthlyDate(m)) = m
<1>1. m = <<m[1], m[2]>> /\ m[1] \in Int /\ m[2] \in 1..12
  BY PairOfMonth
<1>2. /\ DaysIn \in [1..12 -> Nat \ {0}] /\ MonthlyDay \in 1..2
      /\ \A i \in 1..12 : MonthlyDay <= DaysIn[i]
  BY CalendarAssumption DEF InOrder
<1>3. MonthlyDate(m) = IF m[2] = 12 THEN <<m[1] + 1, 1, MonthlyDay>>
                       ELSE <<m[1], m[2] + 1, MonthlyDay>>
  BY <1>1 DEF MonthlyDate, NextMonth
<1>4. Proper(MonthlyDate(m)) /\ MonthlyDate(m)[3] = MonthlyDay
  BY <1>1, <1>2, <1>3 DEF Proper, IsDate
<1>5. ASSUME NEW d, Proper(d), MonthOf(d) = m
      PROVE  AtMost(NextDate(d), MonthlyDate(m))
  <2>1. d[1] = m[1] /\ d[2] = m[2] /\ d[3] \in 1..DaysIn[m[2]]
    BY <1>1, <1>5 DEF MonthOf, Proper, IsDate
  <2> QED BY <1>1, <1>2, <1>3, <2>1 DEF NextDate, AtMost
<1>6. ASSUME NEW d, Proper(d), ReportMonth(d) = m
      PROVE  /\ d[3] >= MonthlyDay => AtMost(MonthlyDate(m), d)
             /\ d[3] = MonthlyDay <=> d = MonthlyDate(m)
  <2>1. d[1] \in Int /\ d[2] \in 1..12 /\ d[3] \in Nat \ {0} /\ d = <<d[1], d[2], d[3]>>
    BY <1>2, <1>6 DEF Proper, IsDate
  <2>2. MonthlyDate(m) = <<d[1], d[2], MonthlyDay>>
    BY <1>1, <1>3, <1>6, <2>1 DEF ReportMonth
  <2> QED BY <1>2, <2>1, <2>2 DEF AtMost
<1>7. ReportMonth(MonthlyDate(m)) = m
  BY <1>1, <1>3 DEF ReportMonth
<1> QED BY <1>4, <1>5, <1>6, <1>7

\* The clock comes to every hour of every date once, and does not go back.
LEMMA DueLater ==
    ASSUME Types, Tick, NEW x, Proper(x), NEW h \in 0..Hours - 1
    PROVE  /\ Due(x, h)' <=> (Due(x, h) \/ (x = today' /\ hour' = h))
           /\ Due(x, h) => ~(x = today' /\ hour' = h)
<1>1. /\ Proper(today) /\ hour \in 0..Hours - 1 /\ Hours \in Nat /\ Hours > 4
      /\ h \in 0..Hours - 1
  BY ScheduleAssumption DEF Types, ClockTypes
<1>2. hour' = (hour + 1) % Hours /\ today' = IF hour' = 0 THEN NextDate(today) ELSE today
  BY DEF Tick
<1>3. /\ AtMost(x, NextDate(today)) <=> (AtMost(x, today) \/ x = NextDate(today))
      /\ x = NextDate(today) => ~AtMost(x, today)
      /\ x = today => AtMost(x, today)
  BY <1>1, DateOrder, CalendarAssumption DEF AtMost, Proper, IsDate
<1>4. CASE hour < Hours - 1
  <2>1. hour' = hour + 1 /\ today' = today
    BY <1>1, <1>2, <1>4
  <2> QED BY <1>1, <1>3, <2>1 DEF Due
<1>5. CASE hour = Hours - 1
  <2>1. hour' = 0 /\ today' = NextDate(today)
    BY <1>1, <1>2, <1>5
  <2> QED BY <1>1, <1>3, <1>5, <2>1 DEF Due
<1> QED BY <1>1, <1>4, <1>5

-----------------------------------------------------------------------------
(* In the order of the default schedule, the figures are complete.         *)

\* Nothing that the bills are made of has changed.
LEMMA BillsStay ==
    ASSUME MonthsInv, Reports,
           today' = today, hour' = hour, daily' = daily, monthly' = monthly,
           stage' = stage, target' = target, total' = total, reports' = reports,
           flawed' = flawed
    PROVE  MonthsInv' /\ Reports'
<1>1. \A m : /\ MonthDue(m)' <=> MonthDue(m)
             /\ DaysDone(m)' <=> DaysDone(m)
             /\ Closed(m)' <=> Closed(m)
             /\ About("monthly", m)' <=> About("monthly", m)
             /\ About("report", m)' <=> About("report", m)
  BY DEF MonthDue, Due, DaysDone, Closed, About, Runs
<1>2. MonthsInv'
  BY <1>1 DEF MonthsInv
<1>3. Reports'
  BY <1>1 DEF Reports
<1> QED BY <1>2, <1>3

\* An event that counts as prompt is in time for the daily run of its day.
LEMMA PromptInTime ==
    ASSUME InOrder, ClockTypes, NEW d \in Dates, d = DatabaseDate \/ BeforeRun(d)
    PROVE  ~DayDue(d)
<1>1. Proper(d) /\ Proper(today)
  BY DatesFacts DEF ClockTypes
<1>2. CASE d = today
  BY <1>1, <1>2, DateOrder, NextAndPrev DEF DayDue, Due
<1>3. CASE d = PrevDate(today) /\ ~(hour >= Zone)
  <2>1. NextDate(d) = today
    BY <1>1, <1>3, NextAndPrev
  <2> QED BY <1>3, <2>1, ScheduleAssumption DEF DayDue, Due, InOrder, ClockTypes
<1>4. CASE NextDate(d) = today /\ hour < DailyHour
  BY <1>4, ScheduleAssumption DEF DayDue, Due, ClockTypes
<1> QED BY <1>2, <1>3, <1>4 DEF DatabaseDate, BeforeRun

LEMMA BillArrive ==
    ASSUME InOrder, BillInv, NEW d \in Dates, Arrive(d)
    PROVE  BillInv'
<1>1. /\ today' = today /\ hour' = hour /\ daily' = daily /\ monthly' = monthly
      /\ stage' = stage /\ target' = target /\ total' = total /\ reports' = reports
      /\ flawed' = flawed
  BY DEF Arrive, clock
<1>2. TableInv /\ Days /\ MonthsInv /\ Reports /\ ClockTypes /\ TableTypes /\ RunTypes
  BY DEF BillInv, TableInv, Types
<1>3. \A e \in Dates : DayDue(e) => prompt'[e] = prompt[e]
  <2>1. prompt' = prompt \/ ((d = DatabaseDate \/ BeforeRun(d)) /\ prompt' = [prompt EXCEPT ![d] = @ + 1])
    BY DEF Arrive
  <2>2. prompt' = prompt \/ (~DayDue(d) /\ prompt' = [prompt EXCEPT ![d] = @ + 1])
    BY <1>2, <2>1, PromptInTime
  <2>3. prompt \in [Dates -> Nat]
    BY <1>2 DEF TableTypes
  <2> QED BY <2>2, <2>3
<1>4. Days'
  <2>1. \A e : (DayDue(e)' <=> DayDue(e)) /\ (About("daily", e)' <=> About("daily", e))
    BY <1>1 DEF DayDue, Due, About, Runs
  <2>2. DayDue(target["daily"])' <=> DayDue(target["daily"])
    BY <1>1 DEF DayDue, Due
  <2>3. Runs("daily")' <=> Runs("daily")
    BY <1>1 DEF Runs
  <2>4. stage["daily"] = "selected" => DayDue(target["daily"])
    BY <1>2 DEF Days, Runs
  <2>5. \A e \in Dates : DayDue(e) /\ MonthOf(e) \notin flawed =>
                           About("daily", e) \/ daily[e] >= prompt'[e]
    BY <1>2, <1>3 DEF Days
  <2>6. stage["daily"] = "selected" /\ target["daily"] \in Dates =>
            total["daily"] >= prompt'[target["daily"]]
    BY <1>2, <1>3, <2>4 DEF Days
  <2> QED BY <1>1, <1>2, <2>1, <2>2, <2>3, <2>5, <2>6 DEF Days
<1> QED BY <1>1, <1>2, <1>4, BillsStay, TableArrive DEF BillInv

LEMMA BillStart ==
    ASSUME BillInv, Start
    PROVE  BillInv'
<1>1. /\ today' = today /\ hour' = hour /\ daily' = daily /\ monthly' = monthly
      /\ stage' = stage /\ target' = target /\ total' = total /\ reports' = reports
      /\ flawed' = flawed /\ prompt' = prompt
  BY DEF Start, clock, tables
<1>2. Days'
  BY <1>1 DEF BillInv, Days, DayDue, Due, About, Runs
<1> QED BY <1>1, <1>2, BillsStay, TableStart DEF BillInv

\* Runs end, and the months of those that did not finish are flawed.
LEMMA BillEnded ==
    ASSUME BillInv, NEW jobs \in SUBSET Jobs, Ended(jobs), TableInv',
           today' = today, hour' = hour, prompt' = prompt, daily' = daily,
           monthly' = monthly, reports' = reports,
           flawed \subseteq flawed',
           \A j \in jobs : Runs(j) => MonthOf(target[j]) \in flawed'
    PROVE  BillInv'
<1>1. /\ TableInv /\ Days /\ MonthsInv /\ Reports
      /\ Types /\ ClockTypes /\ TableTypes /\ RunTypes
  BY DEF BillInv, TableInv, Types
<1>2. \A j \in Jobs :
          IF j \in jobs THEN stage'[j] = "idle" /\ total'[j] = 0
          ELSE stage'[j] = stage[j] /\ target'[j] = target[j] /\ total'[j] = total[j]
  BY <1>1, EndedEffect
<1>3. \A j \in Jobs : \A t :
          /\ About(j, t)' => /\ About(j, t) /\ stage'[j] = stage[j]
                            /\ target'[j] = target[j] /\ total'[j] = total[j]
          /\ About(j, t) => About(j, t)' \/ MonthOf(t) \in flawed'
  BY <1>2 DEF About, Runs
<1>4. "daily" \in Jobs /\ "monthly" \in Jobs /\ "report" \in Jobs
  BY DEF Jobs
<1>5. \A t : (DayDue(t)' <=> DayDue(t)) /\ (MonthDue(t)' <=> MonthDue(t))
  BY DEF DayDue, MonthDue, Due
<1>6. Days'
  <2>1. Runs("daily")' => /\ Runs("daily") /\ target'["daily"] = target["daily"]
                          /\ stage'["daily"] = stage["daily"]
                          /\ total'["daily"] = total["daily"]
    BY <1>2, <1>4 DEF Runs
  <2>2. Runs("daily")' => DayDue(target["daily"])'
    BY <1>1, <2>1 DEF Days, DayDue, Due
  <2>3. stage'["daily"] = "selected" => Runs("daily")'
    BY DEF Runs
  <2>4. \A d \in Dates : DayDue(d)' /\ MonthOf(d) \notin flawed' =>
                           About("daily", d)' \/ daily[d] >= prompt[d]
    BY <1>1, <1>3, <1>4, <1>5 DEF Days
  <2>5. stage'["daily"] = "selected" /\ target'["daily"] \in Dates =>
            total'["daily"] >= prompt[target'["daily"]]
    BY <1>1, <2>1, <2>3 DEF Days
  <2> QED BY <2>2, <2>4, <2>5 DEF Days
<1>7. \A m \in Months : About("monthly", m) /\ m \notin flawed' => About("monthly", m)'
  BY <1>3, <1>4, MonthsAreMonths, MonthItself
<1>8. MonthsInv'
  <2>1. \A m : DaysDone(m) => DaysDone(m)'
    BY <1>2, <1>4 DEF DaysDone, Runs
  <2>2. ASSUME NEW m \in Months
        PROVE  /\ ~MonthDue(m) => monthly[m] = 0
               /\ About("monthly", m)' => MonthDue(m) /\ monthly[m] = 0
               /\ MonthDue(m) /\ m \notin flawed' =>
                     /\ DaysDone(m)'
                     /\ IF About("monthly", m)'
                        THEN stage'["monthly"] = "selected" =>
                                 total'["monthly"] = Total(daily, DaysOf(m))
                        ELSE monthly[m] = Total(daily, DaysOf(m))
    <3>1. ~MonthDue(m) => monthly[m] = 0
      BY <1>1 DEF MonthsInv
    <3>2. About("monthly", m)' => MonthDue(m) /\ monthly[m] = 0
      BY <1>1, <1>3, <1>4 DEF MonthsInv
    <3>3. ASSUME MonthDue(m), m \notin flawed'
          PROVE  /\ DaysDone(m)'
                 /\ IF About("monthly", m)'
                    THEN stage'["monthly"] = "selected" =>
                             total'["monthly"] = Total(daily, DaysOf(m))
                    ELSE monthly[m] = Total(daily, DaysOf(m))
      BY <1>1, <1>3, <1>4, <1>7, <2>1, <3>3 DEF MonthsInv
    <3> QED BY <3>1, <3>2, <3>3
  <2> QED BY <1>5, <2>2 DEF MonthsInv
<1>9. Reports'
  <2>1. \A m : Closed(m) => Closed(m)'
    BY <1>3, <1>4, <1>5 DEF Closed
  <2>2. \A m \in Months : About("report", m)' /\ m \notin flawed' => Closed(m)'
    BY <1>1, <1>3, <1>4, <2>1 DEF Reports
  <2>3. \A r \in reports : r.month \in Months /\ r.month \notin flawed' =>
            Closed(r.month)' /\ r.total = monthly[r.month]
    BY <1>1, <2>1 DEF Reports
  <2> QED BY <2>2, <2>3 DEF Reports
<1> QED BY <1>6, <1>8, <1>9 DEF BillInv

LEMMA BillStop ==
    ASSUME BillInv, Stop
    PROVE  BillInv'
<1>1. /\ Ended(Jobs) /\ today' = today /\ hour' = hour /\ prompt' = prompt /\ daily' = daily
      /\ monthly' = monthly /\ reports' = reports
      /\ flawed' = flawed \union {MonthOf(target[j]) : j \in {k \in Jobs : stage[k] # "idle"}}
  BY DEF Stop, clock, tables
<1>2. flawed \subseteq flawed' /\ \A j \in Jobs : Runs(j) => MonthOf(target[j]) \in flawed'
  BY <1>1 DEF Runs
<1>3. TableInv'
  BY TableStop DEF BillInv
<1> QED BY <1>1, <1>2, <1>3, BillEnded

LEMMA BillFail ==
    ASSUME BillInv, NEW j \in Jobs, Fail(j)
    PROVE  BillInv'
<1>1. /\ Ended({j}) /\ today' = today /\ hour' = hour /\ prompt' = prompt /\ daily' = daily
      /\ monthly' = monthly /\ reports' = reports
      /\ flawed' = flawed \union {MonthOf(target[j])}
  BY DEF Fail, clock, tables
<1>2. /\ {j} \in SUBSET Jobs /\ flawed \subseteq flawed'
      /\ \A k \in {j} : Runs(k) => MonthOf(target[k]) \in flawed'
  BY <1>1
<1>3. TableInv'
  BY TableFail DEF BillInv
<1> QED BY <1>1, <1>2, <1>3, BillEnded

\* A SELECT changes none of the facts that are not about its total.
LEMMA BillSelected ==
    ASSUME BillInv, NEW j \in {"daily", "monthly"}, NEW t \in Nat, Select(j, t), TableInv',
           j = "daily" /\ target[j] \in Dates => t >= prompt[target[j]],
           j = "monthly" => t = Total(daily, DaysOf(target[j]))
    PROVE  BillInv'
<1>1. TableInv /\ Days /\ MonthsInv /\ Reports /\ Types
  BY DEF BillInv, TableInv
<1>2. /\ stage[j] = "started" /\ stage'[j] = "selected" /\ total'[j] = t
      /\ \A k \in Jobs : k # j => stage'[k] = stage[k] /\ total'[k] = total[k]
      /\ today' = today /\ hour' = hour /\ prompt' = prompt /\ daily' = daily
      /\ monthly' = monthly /\ target' = target /\ reports' = reports /\ flawed' = flawed
  BY <1>1, SelectEffect
<1>3. "daily" \in Jobs /\ "monthly" \in Jobs /\ "report" \in Jobs
  BY DEF Jobs
<1>4. \A k \in Jobs : Runs(k)' <=> Runs(k)
  BY <1>2 DEF Runs
<1>5. \A k \in Jobs : \A x : About(k, x)' <=> About(k, x)
  BY <1>2, <1>4 DEF About
<1>6. \A x : /\ DayDue(x)' <=> DayDue(x)
             /\ MonthDue(x)' <=> MonthDue(x)
             /\ DaysDone(x)' <=> DaysDone(x)
             /\ Closed(x)' <=> Closed(x)
  BY <1>2, <1>3, <1>4, <1>5 DEF DayDue, MonthDue, Due, DaysDone, Closed
<1>7. Days'
  <2>1. Runs("daily")' => DayDue(target["daily"])'
    BY <1>1, <1>2, <1>3, <1>4 DEF Days, DayDue, Due
  <2>2. stage'["daily"] = "selected" /\ target["daily"] \in Dates =>
            total'["daily"] >= prompt[target["daily"]]
    BY <1>1, <1>2, <1>3 DEF Days
  <2>3. \A d \in Dates : DayDue(d)' /\ MonthOf(d) \notin flawed =>
                           About("daily", d)' \/ daily[d] >= prompt[d]
    BY <1>1, <1>3, <1>5, <1>6 DEF Days
  <2> QED BY <1>2, <2>1, <2>2, <2>3 DEF Days
<1>8. MonthsInv'
  <2>1. ASSUME NEW m \in Months, About("monthly", m), stage'["monthly"] = "selected",
               MonthDue(m), m \notin flawed
        PROVE  total'["monthly"] = Total(daily, DaysOf(m))
    <3>1. target["monthly"] = m
      BY <2>1 DEF About
    <3>2. CASE j = "monthly"
      BY <1>2, <3>1, <3>2
    <3>3. CASE j = "daily"
      <4>1. stage["monthly"] = "selected" /\ total'["monthly"] = total["monthly"]
        BY <1>2, <1>3, <2>1, <3>3
      <4> QED BY <1>1, <2>1, <4>1 DEF MonthsInv
    <3> QED BY <3>2, <3>3
  <2> QED BY <1>1, <1>2, <1>3, <1>5, <1>6, <2>1 DEF MonthsInv
<1>9. Reports'
  BY <1>1, <1>2, <1>3, <1>5, <1>6 DEF Reports
<1> QED BY <1>7, <1>8, <1>9 DEF BillInv

LEMMA BillSelectDay ==
    ASSUME BillInv, SelectDay
    PROVE  BillInv'
<1>1. TableInv /\ TableInv' /\ TableTypes /\ Types /\ NotAhead
  BY TableSelectDay DEF BillInv, TableInv, Types
<1>2. PICK t \in Nat :
          /\ Select("daily", t)
          /\ IF target["daily"] \in Dates THEN t = raw[target["daily"]] ELSE t = 0
  BY <1>1, SelectedDay
<1>3. target["daily"] \in Dates => t >= prompt[target["daily"]]
  <2>1. \A d \in Dates : prompt[d] <= raw[d] /\ prompt[d] \in Nat /\ raw[d] \in Nat
    BY <1>1, Figures DEF NotAhead
  <2> QED BY <1>2, <2>1
<1> QED BY <1>1, <1>2, <1>3, BillSelected

LEMMA BillSelectMonth ==
    ASSUME BillInv, SelectMonth
    PROVE  BillInv'
<1>1. TableInv /\ TableInv'
  BY TableSelectMonth DEF BillInv
<1>2. PICK t \in Nat : t = Total(daily, DaysOf(target["monthly"])) /\ Select("monthly", t)
  BY <1>1, SelectedMonth
<1> QED BY <1>1, <1>2, BillSelected

LEMMA BillCommit ==
    ASSUME BillInv, NEW j \in Jobs, Commit(j)
    PROVE  BillInv'
<1>1. /\ TableInv /\ Days /\ MonthsInv /\ Reports /\ TableInv'
      /\ Types /\ TableTypes /\ NotAhead
  BY TableCommit DEF BillInv, TableInv, Types
<1>2. /\ j # "report" /\ stage[j] = "selected" /\ Ended({j})
      /\ daily' \in [Dates -> Nat] /\ monthly' \in [Months -> Nat]
      /\ \A d \in Dates :
            daily'[d] = IF j = "daily" /\ total[j] > 0 /\ target[j] = d
                        THEN total[j] ELSE daily[d]
      /\ \A m \in Months :
            monthly'[m] = IF j = "monthly" /\ total[j] > 0 /\ target[j] = m
                          THEN total[j] ELSE monthly[m]
      /\ today' = today /\ hour' = hour /\ prompt' = prompt
      /\ reports' = reports /\ flawed' = flawed
  BY <1>1, CommitEffect
<1>3. \A k \in Jobs :
          IF k = j THEN stage'[k] = "idle" /\ total'[k] = 0
          ELSE stage'[k] = stage[k] /\ target'[k] = target[k] /\ total'[k] = total[k]
  BY <1>1, <1>2, EndedEffect
<1>4. "daily" \in Jobs /\ "monthly" \in Jobs /\ "report" \in Jobs
  BY DEF Jobs
<1>5. \A k \in Jobs : \A x : About(k, x)' <=> k # j /\ About(k, x)
  BY <1>3 DEF About, Runs
<1>6. \A x : (DayDue(x)' <=> DayDue(x)) /\ (MonthDue(x)' <=> MonthDue(x))
  BY <1>2 DEF DayDue, MonthDue, Due
<1>7. \A x : (DaysDone(x) => DaysDone(x)') /\ (Closed(x) => Closed(x)')
  <2>1. Runs("daily")' => Runs("daily") /\ target'["daily"] = target["daily"]
    BY <1>3, <1>4 DEF Runs
  <2> QED BY <1>4, <1>5, <1>6, <2>1 DEF DaysDone, Closed
<1>8. \A k \in Jobs : Runs(k)' => /\ k # j /\ Runs(k) /\ target'[k] = target[k]
                                  /\ stage'[k] = stage[k] /\ total'[k] = total[k]
  BY <1>3 DEF Runs
<1>9. Runs(j) /\ total[j] \in Nat
  BY <1>1, <1>2, Figures DEF Runs
<1>10. Days'
  <2>1. Runs("daily")' => DayDue(target["daily"])'
    BY <1>1, <1>2, <1>4, <1>8 DEF Days, DayDue, Due
  <2>2. stage'["daily"] = "selected" /\ target'["daily"] \in Dates =>
            total'["daily"] >= prompt[target'["daily"]]
    <3>1. stage'["daily"] = "selected" => Runs("daily")'
      BY DEF Runs
    <3> QED BY <1>1, <1>4, <1>8, <3>1 DEF Days
  <2>3. ASSUME NEW d \in Dates, DayDue(d), MonthOf(d) \notin flawed
        PROVE  About("daily", d)' \/ daily'[d] >= prompt[d]
    <3>1. About("daily", d) \/ daily[d] >= prompt[d]
      BY <1>1, <2>3 DEF Days
    <3>2. prompt[d] \in Nat /\ daily[d] \in Nat /\ daily'[d] \in Nat
      BY <1>1, <1>2, Figures
    <3>3. CASE j = "daily" /\ target[j] = d
      <4>1. total[j] >= prompt[d]
        BY <1>1, <1>2, <3>3 DEF Days
      <4>2. CASE total[j] > 0
        BY <1>2, <3>3, <4>1, <4>2
      <4>3. CASE total[j] = 0
        BY <1>9, <3>2, <4>1, <4>3
      <4> QED BY <1>9, <4>2, <4>3
    <3>4. CASE ~(j = "daily" /\ target[j] = d)
      <4>1. daily'[d] = daily[d]
        BY <1>2, <3>4
      <4>2. About("daily", d) => About("daily", d)'
        BY <1>4, <1>5, <3>4 DEF About
      <4> QED BY <3>1, <4>1, <4>2
    <3> QED BY <3>3, <3>4
  <2> QED BY <1>2, <1>6, <2>1, <2>2, <2>3 DEF Days
<1>11. MonthsInv'
  <2>1. ASSUME NEW m \in Months
        PROVE  /\ ~MonthDue(m) => monthly'[m] = 0
               /\ About("monthly", m)' => MonthDue(m) /\ monthly'[m] = 0
    <3>1. j = "monthly" /\ target[j] = m => About("monthly", m)
      BY <1>9 DEF About
    <3>2. monthly'[m] # monthly[m] => About("monthly", m) /\ j = "monthly"
      BY <1>2, <3>1
    <3> QED BY <1>1, <1>4, <1>5, <3>2 DEF MonthsInv
  <2>2. ASSUME NEW m \in Months, MonthDue(m), m \notin flawed
        PROVE  /\ DaysDone(m)'
               /\ IF About("monthly", m)'
                  THEN stage'["monthly"] = "selected" =>
                           total'["monthly"] = Total(daily', DaysOf(m))
                  ELSE monthly'[m] = Total(daily', DaysOf(m))
    <3>1. /\ DaysDone(m)
          /\ IF About("monthly", m)
             THEN stage["monthly"] = "selected" => total["monthly"] = Total(daily, DaysOf(m))
             ELSE monthly[m] = Total(daily, DaysOf(m))
      BY <1>1, <2>2 DEF MonthsInv
    <3>2. Total(daily', DaysOf(m)) = Total(daily, DaysOf(m))
      <4>1. \A d \in DaysOf(m) : daily'[d] = daily[d]
        BY <1>2, <1>9, <3>1 DEF DaysDone, DaysOf
      <4>2. daily \in [Dates -> Nat] /\ DaysOf(m) \in SUBSET Dates
        BY <1>1 DEF TableTypes, DaysOf
      <4> QED BY <1>2, <4>1, <4>2, TotalSame
    <3>3. CASE About("monthly", m)'
      BY <1>4, <1>5, <1>7, <1>8, <3>1, <3>2, <3>3 DEF About
    <3>4. CASE ~About("monthly", m)' /\ ~About("monthly", m)
      <4>1. monthly'[m] = monthly[m]
        BY <1>2, <1>9, <3>4 DEF About
      <4> QED BY <1>7, <3>1, <3>2, <3>4, <4>1
    <3>5. CASE ~About("monthly", m)' /\ About("monthly", m)
      <4>1. j = "monthly" /\ target[j] = m
        BY <1>4, <1>5, <3>5 DEF About
      <4>2. total[j] = Total(daily, DaysOf(m))
        BY <1>2, <3>1, <3>5, <4>1
      <4>3. monthly'[m] = total[j]
        <5>1. monthly[m] = 0
          BY <1>1, <3>5 DEF MonthsInv
        <5> QED BY <1>2, <1>9, <4>1, <5>1
      <4> QED BY <1>7, <3>1, <3>2, <3>5, <4>2, <4>3
    <3> QED BY <3>3, <3>4, <3>5
  <2> QED BY <1>2, <1>6, <2>1, <2>2 DEF MonthsInv
<1>12. Reports'
  <2>1. \A m \in Months : About("report", m)' /\ m \notin flawed => Closed(m)'
    BY <1>1, <1>4, <1>5, <1>7 DEF Reports
  <2>2. \A r \in reports : r.month \in Months /\ r.month \notin flawed =>
            Closed(r.month)' /\ r.total = monthly'[r.month]
    <3>1. \A m \in Months : Closed(m) => monthly'[m] = monthly[m]
      BY <1>2, <1>9 DEF Closed, About
    <3> QED BY <1>1, <1>7, <3>1 DEF Reports
  <2> QED BY <1>2, <2>1, <2>2 DEF Reports
<1> QED BY <1>1, <1>10, <1>11, <1>12 DEF BillInv

LEMMA BillReport ==
    ASSUME BillInv, Report
    PROVE  BillInv'
<1> DEFINE t == target["report"]
           r == [month |-> t, total |-> IF t \in Months THEN monthly[t] ELSE 0]
<1>1. /\ TableInv /\ Days /\ MonthsInv /\ Reports /\ TableInv' /\ Types
  BY TableReport DEF BillInv, TableInv
<1>2. /\ stage["report"] = "started" /\ Ended({"report"}) /\ reports' = reports \union {r}
      /\ today' = today /\ hour' = hour /\ prompt' = prompt
      /\ daily' = daily /\ monthly' = monthly /\ flawed' = flawed
  BY DEF Report, clock, tables
<1>3. \A k \in Jobs :
          IF k = "report" THEN stage'[k] = "idle" /\ total'[k] = 0
          ELSE stage'[k] = stage[k] /\ target'[k] = target[k] /\ total'[k] = total[k]
  BY <1>1, <1>2, EndedEffect DEF Jobs
<1>4. r.month = t /\ (t \in Months => r.total = monthly[t])
  OBVIOUS
<1> HIDE DEF r
<1>5. /\ stage'["daily"] = stage["daily"] /\ target'["daily"] = target["daily"]
      /\ total'["daily"] = total["daily"]
      /\ stage'["monthly"] = stage["monthly"] /\ target'["monthly"] = target["monthly"]
      /\ total'["monthly"] = total["monthly"]
      /\ stage'["report"] = "idle"
  BY <1>3 DEF Jobs
<1>6. \A x : /\ DayDue(x)' <=> DayDue(x)
             /\ MonthDue(x)' <=> MonthDue(x)
             /\ DaysDone(x)' <=> DaysDone(x)
             /\ Closed(x)' <=> Closed(x)
             /\ About("daily", x)' <=> About("daily", x)
             /\ About("monthly", x)' <=> About("monthly", x)
             /\ ~About("report", x)'
  BY <1>2, <1>5 DEF DayDue, MonthDue, Due, DaysDone, Closed, About, Runs
<1>7. Days'
  <2>1. (DayDue(target["daily"])' <=> DayDue(target["daily"])) /\ (Runs("daily")' <=> Runs("daily"))
    BY <1>2, <1>5 DEF DayDue, Due, Runs
  <2> QED BY <1>1, <1>2, <1>5, <1>6, <2>1 DEF Days
<1>8. MonthsInv'
  BY <1>1, <1>2, <1>5, <1>6 DEF MonthsInv
<1>9. Reports'
  <2>1. t \in Months /\ t \notin flawed => Closed(t)
    BY <1>1, <1>2 DEF Reports, About, Runs
  <2>2. \A s \in reports' : s.month \in Months /\ s.month \notin flawed =>
            Closed(s.month)' /\ s.total = monthly[s.month]
    BY <1>1, <1>2, <1>4, <1>6, <2>1 DEF Reports
  <2> QED BY <1>2, <1>6, <2>2 DEF Reports
<1> QED BY <1>1, <1>7, <1>8, <1>9 DEF BillInv

LEMMA BillTick ==
    ASSUME InOrder, BillInv, Tick
    PROVE  BillInv'
<1>1. /\ TableInv /\ Days /\ MonthsInv /\ Reports /\ TableInv' /\ Types /\ RunTypes
      /\ Proper(today')
  BY TableTick, TickEffect DEF BillInv, TableInv, Types
<1>2. /\ \A j \in Jobs :
            IF Starts(j) THEN stage'[j] = "started" /\ target'[j] = Target(j, today')
            ELSE stage'[j] = stage[j] /\ target'[j] = target[j]
      /\ flawed \subseteq flawed'
      /\ \A j \in Jobs : Fires(j, today', hour') /\ (~Starts(j) \/ TooLate(j)) =>
            MonthOf(Target(j, today')) \in flawed'
      /\ prompt' = prompt /\ daily' = daily /\ monthly' = monthly
      /\ total' = total /\ reports' = reports
  BY <1>1, TickEffect
<1>3. "daily" \in Jobs /\ "monthly" \in Jobs /\ "report" \in Jobs
  BY DEF Jobs
<1>4. /\ Fires("daily", today', hour') <=> hour' = DailyHour
      /\ Fires("monthly", today', hour') <=> today'[3] = MonthlyDay /\ hour' = 3
      /\ Fires("report", today', hour') <=> today'[3] = 2 /\ hour' = 4
  BY DEF Fires
<1>5. /\ Target("daily", today') = PrevDate(today') /\ Proper(PrevDate(today'))
      /\ NextDate(PrevDate(today')) = today'
      /\ Target("monthly", today') = ReportMonth(today')
      /\ Target("report", today') = ReportMonth(today')
      /\ IsMonth(ReportMonth(today'))
  BY <1>1, TargetFacts, NextAndPrev
<1>6. DailyHour \in 0..Hours - 1 /\ 3 \in 0..Hours - 1 /\ DailyHour < 3 /\ hour' \in Int
  <2>1. hour' \in 0..Hours - 1
    BY <1>1, TickEffect
  <2> QED BY <2>1, ScheduleAssumption DEF InOrder
<1>7. ASSUME NEW d, Proper(d)
      PROVE  DayDue(d)' <=> (DayDue(d) \/ (NextDate(d) = today' /\ hour' = DailyHour))
  BY <1>1, <1>6, <1>7, NextAndPrev, DueLater DEF DayDue
<1>8. ASSUME NEW m, IsMonth(m)
      PROVE  /\ MonthDue(m)' <=> (MonthDue(m) \/ (MonthlyDate(m) = today' /\ hour' = 3))
             /\ MonthDue(m) => ~(MonthlyDate(m) = today' /\ hour' = 3)
             /\ Fires("monthly", today', hour') /\ ReportMonth(today') = m
                   <=> MonthlyDate(m) = today' /\ hour' = 3
  <2>1. Proper(MonthlyDate(m))
    BY <1>8, MonthAfter
  <2>2. /\ MonthDue(m)' <=> (MonthDue(m) \/ (MonthlyDate(m) = today' /\ hour' = 3))
        /\ MonthDue(m) => ~(MonthlyDate(m) = today' /\ hour' = 3)
    BY <1>1, <1>6, <2>1, DueLater DEF MonthDue
  <2>3. Fires("monthly", today', hour') /\ ReportMonth(today') = m
            <=> MonthlyDate(m) = today' /\ hour' = 3
    BY <1>1, <1>4, <1>8, MonthAfter
  <2> QED BY <2>2, <2>3
<1>9. ASSUME NEW m, IsMonth(m), MonthDue(m)
      PROVE  /\ Starts("daily") => MonthOf(PrevDate(today')) # m
             /\ ~(Starts("monthly") /\ ReportMonth(today') = m)
  <2>1. SUFFICES ASSUME Starts("daily"), MonthOf(PrevDate(today')) = m PROVE FALSE
    BY <1>8, <1>9 DEF Starts
  <2>2. AtMost(today', MonthlyDate(m)) /\ Proper(MonthlyDate(m))
    BY <1>5, <1>9, <2>1, MonthAfter
  <2>3. MonthDue(m)'
    BY <1>8, <1>9
  <2>4. AtMost(MonthlyDate(m), today') /\ (MonthlyDate(m) = today' => hour' >= 3)
    BY <2>3 DEF MonthDue, Due
  <2>5. MonthlyDate(m) = today'
    BY <1>1, <2>2, <2>4, DateOrder
  <2> QED BY <1>4, <1>6, <2>1, <2>4, <2>5 DEF Starts
<1>10. Days'
  <2>1. Runs("daily")' => DayDue(target["daily"])'
    <3>1. CASE Starts("daily")
      <4>1. target'["daily"] = PrevDate(today') /\ hour' = DailyHour
        BY <1>2, <1>3, <1>4, <1>5, <3>1 DEF Starts
      <4>2. AtMost(today', today')
        BY <1>1, CalendarAssumption DEF AtMost, Proper, IsDate
      <4> QED BY <1>5, <1>6, <4>1, <4>2 DEF DayDue, Due
    <3>2. CASE ~Starts("daily")
      <4>1. stage'["daily"] = stage["daily"] /\ target'["daily"] = target["daily"]
        BY <1>2, <1>3, <3>2
      <4>2. SUFFICES ASSUME Runs("daily")' PROVE DayDue(target["daily"])'
        OBVIOUS
      <4>3. Runs("daily") /\ Proper(target["daily"]) /\ DayDue(target["daily"])
        BY <1>1, <4>1, <4>2 DEF Runs, RunTypes, Days
      <4>4. PICK d : d = target["daily"]
        OBVIOUS
      <4>5. DayDue(d)'
        BY <1>7, <4>3, <4>4
      <4> QED BY <4>1, <4>4, <4>5 DEF DayDue, Due
    <3> QED BY <3>1, <3>2
  <2>2. stage'["daily"] = "selected" => stage["daily"] = "selected" /\ target'["daily"] = target["daily"]
    BY <1>2, <1>3
  <2>3. ASSUME NEW d \in Dates, DayDue(d)', MonthOf(d) \notin flawed'
        PROVE  About("daily", d)' \/ daily[d] >= prompt[d]
    <3>1. Proper(d)
      BY DatesFacts
    <3>2. CASE DayDue(d)
      <4>1. About("daily", d) \/ daily[d] >= prompt[d]
        BY <1>1, <1>2, <2>3, <3>2 DEF Days
      <4>2. About("daily", d) => About("daily", d)'
        BY <1>2, <1>3 DEF About, Runs, Starts
      <4> QED BY <4>1, <4>2
    <3>3. CASE NextDate(d) = today' /\ hour' = DailyHour
      <4>1. PrevDate(today') = d
        BY <3>1, <3>3, NextAndPrev
      <4>2. Starts("daily")
        BY <1>2, <1>3, <1>4, <1>5, <2>3, <3>3, <4>1
      <4>3. stage'["daily"] = "started" /\ target'["daily"] = d
        BY <1>2, <1>3, <1>5, <4>1, <4>2
      <4> QED BY <4>3 DEF About, Runs
    <3> QED BY <1>7, <2>3, <3>1, <3>2, <3>3
  <2> QED BY <1>1, <1>2, <2>1, <2>2, <2>3 DEF Days
<1>11. ASSUME NEW m \in Months
       PROVE  About("monthly", m)' => About("monthly", m) \/ (MonthlyDate(m) = today' /\ hour' = 3)
  <2>1. CASE Starts("monthly")
    <3>1. target'["monthly"] = ReportMonth(today')
      BY <1>2, <1>3, <1>5, <2>1
    <3> QED BY <1>8, <2>1, <3>1, MonthsAreMonths DEF Starts, About
  <2>2. CASE ~Starts("monthly")
    BY <1>2, <1>3, <2>2 DEF About, Runs
  <2> QED BY <2>1, <2>2
<1>12. ASSUME NEW m \in Months, MonthDue(m)
       PROVE  About("monthly", m)' <=> About("monthly", m)
  <2>1. About("monthly", m)' => About("monthly", m)
    BY <1>8, <1>11, <1>12, MonthsAreMonths
  <2>2. About("monthly", m) => About("monthly", m)'
    BY <1>2, <1>3 DEF About, Runs, Starts
  <2> QED BY <2>1, <2>2
<1>13. MonthsInv'
  <2>1. ASSUME NEW m \in Months
        PROVE  /\ ~MonthDue(m)' => monthly[m] = 0
               /\ About("monthly", m)' => MonthDue(m)' /\ monthly[m] = 0
    BY <1>1, <1>8, <1>11, MonthsAreMonths DEF MonthsInv
  <2>2. ASSUME NEW m \in Months, MonthDue(m), m \notin flawed'
        PROVE  /\ DaysDone(m)'
               /\ IF About("monthly", m)'
                  THEN stage'["monthly"] = "selected" =>
                           total["monthly"] = Total(daily, DaysOf(m))
                  ELSE monthly[m] = Total(daily, DaysOf(m))
    <3>1. /\ DaysDone(m)
          /\ IF About("monthly", m)
             THEN stage["monthly"] = "selected" => total["monthly"] = Total(daily, DaysOf(m))
             ELSE monthly[m] = Total(daily, DaysOf(m))
      BY <1>1, <1>2, <2>2 DEF MonthsInv
    <3>2. DaysDone(m)'
      <4>1. CASE Starts("daily")
        <5>1. target'["daily"] = PrevDate(today')
          BY <1>2, <1>3, <1>5, <4>1
        <5> QED BY <1>9, <2>2, <4>1, <5>1, MonthsAreMonths DEF DaysDone
      <4>2. CASE ~Starts("daily")
        BY <1>2, <1>3, <3>1, <4>2 DEF DaysDone, Runs
      <4> QED BY <4>1, <4>2
    <3>3. stage'["monthly"] = "selected" => stage["monthly"] = "selected"
      BY <1>2, <1>3
    <3> QED BY <1>12, <2>2, <3>1, <3>2, <3>3
  <2>3. ASSUME NEW m \in Months, MonthlyDate(m) = today', hour' = 3, m \notin flawed'
        PROVE  About("monthly", m)' /\ DaysDone(m)' /\ stage'["monthly"] = "started"
    <3>1. Fires("monthly", today', hour') /\ ReportMonth(today') = m /\ MonthOf(m) = m
      BY <1>8, <2>3, MonthsAreMonths, MonthItself
    <3>2. Starts("monthly") /\ ~TooLate("monthly")
      BY <1>2, <1>3, <1>5, <2>3, <3>1
    <3>3. stage'["monthly"] = "started" /\ target'["monthly"] = m
      BY <1>2, <1>3, <1>5, <3>1, <3>2
    <3>4. ~Starts("daily")
      BY <1>4, <1>6, <2>3 DEF Starts
    <3>5. stage'["daily"] = stage["daily"] /\ target'["daily"] = target["daily"]
      BY <1>2, <1>3, <3>4
    <3>6. stage["daily"] # "idle" => MonthOf(target["daily"]) # m
      BY <1>3, <1>5, <3>1, <3>2 DEF TooLate
    <3> QED BY <3>3, <3>5, <3>6 DEF About, DaysDone, Runs
  <2>4. ASSUME NEW m \in Months, MonthDue(m)', m \notin flawed'
        PROVE  /\ DaysDone(m)'
               /\ IF About("monthly", m)'
                  THEN stage'["monthly"] = "selected" =>
                           total["monthly"] = Total(daily, DaysOf(m))
                  ELSE monthly[m] = Total(daily, DaysOf(m))
    <3>1. MonthDue(m) \/ (MonthlyDate(m) = today' /\ hour' = 3)
      BY <1>8, <2>4, MonthsAreMonths
    <3>2. CASE MonthDue(m)
      BY <2>2, <2>4, <3>2
    <3>3. CASE MonthlyDate(m) = today' /\ hour' = 3
      BY <2>3, <2>4, <3>3
    <3> QED BY <3>1, <3>2, <3>3
  <2> QED BY <1>2, <2>1, <2>4 DEF MonthsInv
<1>14. ASSUME NEW m \in Months, Closed(m)
       PROVE  Closed(m)'
  BY <1>8, <1>12, <1>14, MonthsAreMonths DEF Closed
<1>15. Reports'
  <2>1. ASSUME NEW m \in Months, About("report", m)', m \notin flawed'
        PROVE  Closed(m)'
    <3>1. CASE ~Starts("report")
      <4>1. About("report", m)
        BY <1>2, <1>3, <2>1, <3>1 DEF About, Runs
      <4> QED BY <1>1, <1>2, <1>14, <2>1, <4>1 DEF Reports
    <3>2. CASE Starts("report")
      <4>1. Fires("report", today', hour') /\ ReportMonth(today') = m
        BY <1>2, <1>3, <1>5, <2>1, <3>2 DEF Starts, About
      <4>2. today'[3] = 2 /\ IsMonth(m) /\ MonthOf(m) = m
        BY <1>4, <4>1, MonthsAreMonths, MonthItself
      <4>3. AtMost(MonthlyDate(m), today') /\ hour' = 4
        BY <1>1, <1>4, <4>1, <4>2, MonthAfter DEF InOrder
      <4>4. MonthDue(m)'
        BY <4>3 DEF MonthDue, Due
      <4>5. ~TooLate("report")
        BY <1>2, <1>3, <1>5, <2>1, <4>1, <4>2
      <4>6. ~About("monthly", m)
        BY <1>3, <1>5, <4>1, <4>2, <4>5 DEF TooLate, About, Runs
      <4>7. ~About("monthly", m)'
        BY <1>11, <4>2, <4>3, <4>6
      <4> QED BY <4>4, <4>7 DEF Closed
    <3> QED BY <3>1, <3>2
  <2>2. \A r \in reports : r.month \in Months /\ r.month \notin flawed' =>
            Closed(r.month)' /\ r.total = monthly[r.month]
    BY <1>1, <1>2, <1>14 DEF Reports
  <2> QED BY <1>2, <2>1, <2>2 DEF Reports
<1> QED BY <1>1, <1>10, <1>13, <1>15 DEF BillInv

LEMMA BillInit == Init => BillInv
<1> SUFFICES ASSUME Init PROVE BillInv
  OBVIOUS
<1>1. TableInv
  BY TableInit
<1>2. /\ \A j \in Jobs : stage[j] = "idle" /\ total[j] = 0
      /\ \A d \in Dates : daily[d] = 0 /\ prompt[d] = 0
      /\ \A m \in Months : monthly[m] = 0
      /\ reports = {}
  BY DEF Init
<1>3. \A j \in Jobs : ~Runs(j)
  BY <1>2 DEF Runs
<1>4. Days
  BY <1>2, <1>3 DEF Days, Runs, Jobs
<1>5. \A m : Total(daily, DaysOf(m)) = 0
  BY <1>2, DatesFinite, SumOfZeros DEF Total, DaysOf
<1>6. MonthsInv
  BY <1>2, <1>3, <1>5 DEF MonthsInv, About, DaysDone, Jobs
<1>7. Reports
  BY <1>2, <1>3 DEF Reports, About, Jobs
<1> QED BY <1>1, <1>4, <1>6, <1>7 DEF BillInv

LEMMA BillNext ==
    ASSUME InOrder, BillInv, [Next]_vars
    PROVE  BillInv'
<1>1. CASE \E d \in Dates : Arrive(d)
  BY <1>1, BillArrive
<1>2. CASE Tick
  BY <1>2, BillTick
<1>3. CASE Stop
  BY <1>3, BillStop
<1>4. CASE Start
  BY <1>4, BillStart
<1>5. CASE SelectDay
  BY <1>5, BillSelectDay
<1>6. CASE SelectMonth
  BY <1>6, BillSelectMonth
<1>7. CASE \E j \in Jobs : Commit(j)
  BY <1>7, BillCommit
<1>8. CASE Report
  BY <1>8, BillReport
<1>9. CASE \E j \in Jobs : Fail(j)
  BY <1>9, BillFail
<1>10. CASE UNCHANGED vars
  <2>1. /\ today' = today /\ hour' = hour /\ daily' = daily /\ monthly' = monthly
        /\ stage' = stage /\ target' = target /\ total' = total /\ reports' = reports
        /\ flawed' = flawed /\ prompt' = prompt
    BY <1>10 DEF vars, clock, tables
  <2>2. Days'
    BY <2>1 DEF BillInv, Days, DayDue, Due, About, Runs
  <2> QED BY <1>10, <2>1, <2>2, BillsStay, TableNext DEF BillInv
<1> QED BY <1>1, <1>2, <1>3, <1>4, <1>5, <1>6, <1>7, <1>8, <1>9, <1>10 DEF Next, Run

\* The days of a month are due before the month is.
LEMMA DaysBeforeMonth ==
    ASSUME InOrder, ClockTypes, NEW m, IsMonth(m), MonthDue(m),
           NEW d, Proper(d), MonthOf(d) = m
    PROVE  DayDue(d)
<1>1. /\ Proper(today) /\ Proper(MonthlyDate(m)) /\ Proper(NextDate(d))
      /\ AtMost(NextDate(d), MonthlyDate(m))
      /\ AtMost(MonthlyDate(m), today)
      /\ MonthlyDate(m) = today => hour >= 3
  BY MonthAfter, NextAndPrev DEF MonthDue, Due, ClockTypes
<1>2. AtMost(NextDate(d), today)
  BY <1>1, OrderIsTransitive
<1>3. NextDate(d) = today => MonthlyDate(m) = today
  BY <1>1, DateOrder
<1> QED BY <1>1, <1>2, <1>3, ScheduleAssumption DEF DayDue, Due, InOrder, ClockTypes

\* With a schedule in the order of the default one, every report of a month for
\* which no job failed or was late has all prompt events and no more than the
\* events there are, and equals the API's monthly figure and the sum of its
\* daily ones: for months of any length that have the day of the monthly job,
\* any number of events and faults, and a database that is no more hours
\* behind than the daily job waits.
THEOREM ReportsAreExact ==
    ASSUME InOrder
    PROVE  Spec => []ReportsExact
<1>1. BillInv => ReportsExact
  <2> SUFFICES ASSUME BillInv, NEW r \in reports, r.month \in Months
               PROVE  /\ r.total <= Total(raw, DatesOf(r.month))
                      /\ r.month \notin flawed =>
                            /\ r.total >= Total(prompt, DatesOf(r.month))
                            /\ r.total = MonthlyQuery(r.month[1], r.month[2])
                            /\ r.total = DailyQuery(<<r.month[1], r.month[2], 1>>,
                                            <<r.month[1], r.month[2], DaysIn[r.month[2]]>>)
    BY DEF ReportsExact
  <2>1. PICK m \in Months : m = r.month
    OBVIOUS
  <2>2. /\ Types /\ NotAhead /\ Days /\ MonthsInv /\ Reports /\ TableTypes /\ ClockTypes
    BY DEF BillInv, TableInv, Types
  <2>3. IsMonth(m) /\ DatesOf(m) = DaysOf(m) /\ DaysOf(m) \in SUBSET Dates
    BY MonthsAreMonths, DatesFacts DEF DaysOf
  <2>4. r.total <= Total(raw, DaysOf(m))
    BY <2>1, <2>2 DEF NotAhead
  <2>5. ASSUME m \notin flawed
        PROVE  /\ r.total >= Total(prompt, DaysOf(m))
               /\ r.total = MonthlyQuery(m[1], m[2])
               /\ r.total = DailyQuery(<<m[1], m[2], 1>>, <<m[1], m[2], DaysIn[m[2]]>>)
    <3>1. MonthDue(m) /\ ~About("monthly", m) /\ r.total = monthly[m]
      BY <2>1, <2>2, <2>5 DEF Reports, Closed
    <3>2. DaysDone(m) /\ monthly[m] = Total(daily, DaysOf(m))
      BY <2>2, <2>5, <3>1 DEF MonthsInv
    <3>3. \A d \in DaysOf(m) : prompt[d] <= daily[d]
      <4> TAKE d \in DaysOf(m)
      <4>1. d \in Dates /\ Proper(d) /\ MonthOf(d) = m
        BY DatesFacts DEF DaysOf
      <4>2. DayDue(d)
        BY <2>2, <2>3, <3>1, <4>1, DaysBeforeMonth
      <4>3. ~About("daily", d)
        BY <3>2, <4>1 DEF DaysDone, About
      <4>4. prompt[d] \in Nat /\ daily[d] \in Nat
        BY <2>2, <4>1, Figures
      <4> QED BY <2>2, <2>5, <4>1, <4>2, <4>3, <4>4 DEF Days
    <3>4. Total(prompt, DaysOf(m)) <= Total(daily, DaysOf(m))
      BY <2>2, <2>3, <3>3, TotalAtMost DEF TableTypes
    <3>5. Total(prompt, DaysOf(m)) \in Nat /\ Total(daily, DaysOf(m)) \in Nat
      BY <2>2, Figures
    <3>6. MonthlyQuery(m[1], m[2]) = monthly[m]
      <4>1. {row \in Months : row[1] = m[1] /\ row[2] = m[2]} = {m}
        BY MonthsAreMonths, PairOfMonth
      <4>2. Total(monthly, {m}) = monthly[m] + Total(monthly, {m} \ {m})
        <5>1. IsFiniteSet({m}) /\ \A x \in {m} : monthly[x] \in Nat
          BY <2>2, FS_Singleton DEF TableTypes
        <5> QED BY <5>1, SumRemove DEF Total
      <4>3. Total(monthly, {m} \ {m}) = 0
        BY SumEmpty DEF Total
      <4>4. monthly[m] \in Nat
        BY <2>2, Figures
      <4>5. MonthlyQuery(m[1], m[2]) = Total(monthly, {m})
        BY <4>1, Zenon DEF MonthlyQuery
      <4> QED BY <4>2, <4>3, <4>4, <4>5
    <3>7. DailyQuery(<<m[1], m[2], 1>>, <<m[1], m[2], DaysIn[m[2]]>>) = Total(daily, DaysOf(m))
      BY <2>3, SummariesOfMonth DEF DailyQuery
    <3> QED BY <3>1, <3>2, <3>4, <3>5, <3>6, <3>7
  <2> QED BY <2>1, <2>3, <2>4, <2>5
<1>2. BillInv /\ [Next]_vars => BillInv'
  BY BillNext
<1> QED BY <1>1, <1>2, BillInit, PTL DEF Spec

-----------------------------------------------------------------------------
(* The refinement of Rollup.                                               *)

Writers == {"daily", "monthly"}
AllHeld == [j \in Writers |-> Held(j)]

LEMMA MappedVars ==
    /\ R!vars = <<raw, daily, monthly, AllHeld>>
    /\ R!vars' = <<raw', daily', monthly', AllHeld'>>
    /\ R!Runs = Writers
  BY DEF R!vars, AllHeld, R!Runs, Writers

HeldOf(x, t) == [y \in IF t > 0 THEN {x} ELSE {} |-> t]

\* A run without a total holds nothing, any other one row.
LEMMA HeldIs ==
    ASSUME NEW j \in Writers
    PROVE  /\ total[j] = 0 => Held(j) = R!Nothing
           /\ total'[j] = 0 => Held(j)' = R!Nothing
           /\ total'[j] = total[j] /\ target'[j] = target[j] => Held(j)' = Held(j)
<1>1. Held(j) = HeldOf(target[j], total[j]) /\ Held(j)' = HeldOf(target'[j], total'[j])
  BY DEF Held, HeldOf
<1>2. \A x : HeldOf(x, 0) = R!Nothing
  BY DEF HeldOf, R!Nothing
<1> QED BY <1>1, <1>2

LEMMA HeldStays ==
    ASSUME \A j \in Writers : total'[j] = total[j],
           \A j \in Writers : total[j] = 0 \/ target'[j] = target[j]
    PROVE  AllHeld' = AllHeld
<1>1. \A j \in Writers : Held(j)' = Held(j)
  BY HeldIs
<1> QED BY <1>1 DEF AllHeld, Writers

\* Runs that end take their rows along.
LEMMA HeldGone ==
    ASSUME Types, NEW jobs \in SUBSET Jobs, Ended(jobs)
    PROVE  AllHeld' = [j \in Writers |-> IF j \in jobs THEN R!Nothing ELSE AllHeld[j]]
<1>1. \A j \in Jobs :
          IF j \in jobs THEN total'[j] = 0
          ELSE target'[j] = target[j] /\ total'[j] = total[j]
  BY EndedEffect
<1>2. \A j \in Writers : Held(j)' = IF j \in jobs THEN R!Nothing ELSE Held(j)
  BY <1>1, HeldIs DEF Writers, Jobs
<1> QED BY <1>2 DEF AllHeld, Writers

LEMMA EndMaps ==
    ASSUME Types, NEW jobs \in SUBSET Jobs, Ended(jobs), UNCHANGED <<raw, daily, monthly>>
    PROVE  R!Next
<1> DEFINE lost == jobs \cap Writers
<1>1. AllHeld' = [j \in R!Runs |-> IF j \in lost THEN R!Nothing ELSE AllHeld[j]]
  BY HeldGone, MappedVars
<1>2. lost \in SUBSET R!Runs
  BY MappedVars
<1> HIDE DEF lost
<1>3. R!Drop(lost)
  BY <1>1 DEF R!Drop, AllHeld, Writers
<1> QED BY <1>2, <1>3 DEF R!Next

LEMMA ArriveMaps ==
    ASSUME TableInv, NEW d \in Dates, Arrive(d)
    PROVE  R!Arrive(d)
<1>1. raw' = [raw EXCEPT ![d] = @ + 1] /\ UNCHANGED <<daily, monthly, total, target>>
  BY DEF Arrive
<1>2. AllHeld' = AllHeld
  BY <1>1, HeldStays
<1> QED BY <1>1, <1>2 DEF R!Arrive, AllHeld, Writers

\* An hour passes, and the worker starts: only idle runs get a new target.
LEMMA ClockMaps ==
    ASSUME TableInv, Tick \/ Start \/ UNCHANGED vars
    PROVE  UNCHANGED R!vars
<1>1. UNCHANGED <<raw, daily, monthly, total>>
  BY DEF Tick, Start, vars, tables
<1>2. \A j \in Writers : total[j] = 0 \/ target'[j] = target[j]
  <2>1. CASE UNCHANGED target
    BY <2>1
  <2>2. CASE Tick
    <3>1. \A j \in Jobs : ~Runs(j) => total[j] = 0
      BY DEF TableInv, NotAhead, Runs
    <3>2. \A j \in Jobs : target'[j] = target[j] \/ Starts(j)
      BY <2>2, TickEffect DEF TableInv
    <3> QED BY <3>1, <3>2 DEF Starts, Writers, Jobs
  <2> QED BY <2>1, <2>2 DEF Start, vars
<1>3. AllHeld' = AllHeld
  BY <1>1, <1>2, HeldStays
<1> QED BY <1>1, <1>3, MappedVars

\* The SELECT of a run leaves it with the row it is about.
LEMMA SelectHolds ==
    ASSUME Types, NEW j \in Writers, NEW t \in Nat, Select(j, t)
    PROVE  /\ UNCHANGED <<raw, daily, monthly>>
           /\ AllHeld' = [AllHeld EXCEPT ![j] =
                             [x \in IF t > 0 THEN {target[j]} ELSE {} |-> t]]
<1>1. /\ total'[j] = t /\ UNCHANGED <<raw, daily, monthly, target>>
      /\ \A k \in Jobs : k # j => total'[k] = total[k]
  BY SelectEffect DEF Writers
<1>2. Held(j)' = [x \in IF t > 0 THEN {target[j]} ELSE {} |-> t]
  BY <1>1 DEF Held
<1>3. \A k \in Writers : k # j => Held(k)' = Held(k)
  BY <1>1, HeldIs DEF Writers, Jobs
<1>4. AllHeld' = [k \in Writers |-> Held(k)']
  BY DEF AllHeld, Writers
<1> QED BY <1>1, <1>2, <1>3, <1>4 DEF AllHeld

LEMMA SameSum == \A f, S : R!SumFunctionOnSet(f, S) = SumFunctionOnSet(f, S)
  BY Zenon DEF R!SumFunctionOnSet, R!FoldFunctionOnSet, R!MapThenFoldSet,
               SumFunctionOnSet, FoldFunctionOnSet, MapThenFoldSet

\* A SELECT about what the model has no rows of leaves the run with nothing.
LEMMA NoneHeld ==
    ASSUME TableInv, NEW j \in Writers, Select(j, 0)
    PROVE  UNCHANGED R!vars
<1>1. /\ stage[j] = "started" /\ total'[j] = 0 /\ UNCHANGED <<raw, daily, monthly, target>>
      /\ \A k \in Jobs : k # j => total'[k] = total[k]
  BY SelectEffect DEF TableInv, Writers
<1>2. total[j] = 0
  BY <1>1 DEF TableInv, NotAhead, Writers, Jobs
<1>3. AllHeld' = AllHeld
  BY <1>1, <1>2, HeldStays DEF Writers, Jobs
<1> QED BY <1>1, <1>3, MappedVars

LEMMA SelectDayMaps ==
    ASSUME TableInv, SelectDay
    PROVE  R!Read("daily") \/ UNCHANGED R!vars
<1> DEFINE d == target["daily"]
<1>1. PICK t \in Nat : /\ Select("daily", t)
                       /\ IF d \in Dates THEN t = raw[d] ELSE t = 0
  BY SelectedDay
<1>2. CASE d \notin Dates
  BY <1>1, <1>2, NoneHeld DEF Writers
<1>3. CASE d \in Dates
  <2>1. /\ UNCHANGED <<raw, daily, monthly>>
        /\ AllHeld' = [AllHeld EXCEPT !["daily"] = [x \in IF t > 0 THEN {d} ELSE {} |-> t]]
    BY <1>1, SelectHolds DEF TableInv, Writers
  <2>2. R!Rows(raw, {d}) = [x \in IF t > 0 THEN {d} ELSE {} |-> t]
    BY <1>1, <1>3 DEF R!Rows
  <2>3. {d} \in {{e} : e \in Dates}
    BY <1>3
  <2> HIDE DEF d
  <2> QED BY <2>1, <2>2, <2>3 DEF R!Read, AllHeld, Writers
<1> QED BY <1>2, <1>3

\* The days up to the last of the month, from whichever calendar they are
\* computed, are those that the bill is the sum of.
LEMMA SelectMonthMaps ==
    ASSUME TableInv, SelectMonth
    PROVE  R!Read("monthly") \/ UNCHANGED R!vars
<1> DEFINE m == target["monthly"]
           t == Total(daily, DaysOf(m))
<1>1. t \in Nat /\ Select("monthly", t)
  BY SelectedMonth
<1>2. CASE m \notin Months
  <2>1. DaysOf(m) = {}
    BY <1>2, DatesFacts DEF DaysOf
  <2>2. t = 0
    BY <2>1, SumEmpty DEF Total
  <2> HIDE DEF t
  <2> QED BY <1>1, <2>2, NoneHeld DEF Writers
<1>3. CASE m \in Months
  <2>1. R!Bill[m] = t
    <3>1. DaysOf(m) = DatesOf(m)
      BY <1>3, DatesFacts
    <3> QED BY <1>3, <3>1, SameSum DEF R!Bill, Total
  <2> HIDE DEF t
  <2>2. /\ UNCHANGED <<raw, daily, monthly>>
        /\ AllHeld' = [AllHeld EXCEPT !["monthly"] = [x \in IF t > 0 THEN {m} ELSE {} |-> t]]
    BY <1>1, SelectHolds DEF TableInv, Writers
  <2>3. R!Rows(R!Bill, {m}) = [x \in IF t > 0 THEN {m} ELSE {} |-> t]
    BY <2>1 DEF R!Rows
  <2>4. {m} \in {{n} : n \in Months}
    BY <1>3
  <2> HIDE DEF m
  <2> QED BY <2>2, <2>3, <2>4 DEF R!Read, AllHeld, Writers
<1> QED BY <1>2, <1>3

\* The commit of a run replaces the one row that it holds.
LEMMA ReplacedRow ==
    ASSUME NEW D, NEW f \in [D -> Nat], NEW g \in [D -> Nat], NEW x, NEW t \in Nat,
           \A y \in D : g[y] = IF t > 0 /\ x = y THEN t ELSE f[y]
    PROVE  g = R!Replaced(f, HeldOf(x, t))
<1>1. \A y \in D : R!Replaced(f, HeldOf(x, t))[y] = IF t > 0 /\ x = y THEN t ELSE f[y]
  BY DEF R!Replaced, HeldOf
<1>2. DOMAIN R!Replaced(f, HeldOf(x, t)) = D
      /\ R!Replaced(f, HeldOf(x, t)) = [y \in D |-> R!Replaced(f, HeldOf(x, t))[y]]
  BY DEF R!Replaced
<1> QED BY <1>1, <1>2

LEMMA CommitMaps ==
    ASSUME TableInv, NEW j \in Jobs, Commit(j)
    PROVE  R!Next
<1>1. j \in Writers /\ Ended({j}) /\ raw' = raw /\ Types
  BY CommitEffect DEF Writers, Jobs, TableInv
<1>2. AllHeld' = [AllHeld EXCEPT ![j] = R!Nothing]
  <2>1. AllHeld' = [k \in Writers |-> IF k \in {j} THEN R!Nothing ELSE AllHeld[k]]
    BY <1>1, HeldGone
  <2> QED BY <2>1 DEF AllHeld
<1>3. AllHeld[j] = HeldOf(target[j], total[j]) /\ total[j] \in Nat
  BY <1>1, Figures DEF AllHeld, Held, HeldOf
<1>4. /\ daily \in [Dates -> Nat] /\ monthly \in [Months -> Nat]
      /\ daily' \in [Dates -> Nat] /\ monthly' \in [Months -> Nat]
  BY <1>1, CommitEffect DEF Types, TableTypes
<1>5. daily' = IF j = "daily" THEN R!Replaced(daily, AllHeld[j]) ELSE daily
  <2>1. CASE j = "daily"
    <3>1. \A d \in Dates :
              daily'[d] = IF total[j] > 0 /\ target[j] = d THEN total[j] ELSE daily[d]
      BY <2>1, CommitEffect
    <3> QED BY <1>3, <1>4, <2>1, <3>1, ReplacedRow
  <2>2. CASE j # "daily"
    BY <2>2 DEF Commit
  <2> QED BY <2>1, <2>2
<1>6. monthly' = IF j = "monthly" THEN R!Replaced(monthly, AllHeld[j]) ELSE monthly
  <2>1. CASE j = "monthly"
    <3>1. \A m \in Months :
              monthly'[m] = IF total[j] > 0 /\ target[j] = m THEN total[j] ELSE monthly[m]
      BY <2>1, CommitEffect
    <3> QED BY <1>3, <1>4, <2>1, <3>1, ReplacedRow
  <2>2. CASE j # "monthly"
    BY <2>2 DEF Commit
  <2> QED BY <2>1, <2>2
<1>7. R!Write(j)
  BY <1>1, <1>2, <1>5, <1>6 DEF R!Write, AllHeld, Writers
<1> QED BY <1>1, <1>7, MappedVars DEF R!Next

LEMMA MapsToRollup ==
    ASSUME TableInv, [Next]_vars
    PROVE  [R!Next]_(R!vars)
<1>1. Types /\ R!Runs = Writers
  BY MappedVars DEF TableInv
<1>2. CASE \E d \in Dates : Arrive(d)
  BY <1>2, ArriveMaps DEF R!Next
<1>3. CASE Tick \/ Start \/ UNCHANGED vars
  BY <1>3, ClockMaps
<1>4. CASE Stop
  BY <1>1, <1>4, EndMaps DEF Stop, tables
<1>5. CASE SelectDay
  BY <1>1, <1>5, SelectDayMaps DEF R!Next, Writers
<1>6. CASE SelectMonth
  BY <1>1, <1>6, SelectMonthMaps DEF R!Next, Writers
<1>7. CASE \E j \in Jobs : Commit(j)
  BY <1>7, CommitMaps
<1>8. CASE Report
  <2>1. Ended({"report"}) /\ UNCHANGED <<raw, daily, monthly>>
    BY <1>8 DEF Report, tables
  <2> QED BY <1>1, <2>1, EndMaps DEF Jobs
<1>9. CASE \E j \in Jobs : Fail(j)
  <2>1. PICK j \in Jobs : Ended({j}) /\ UNCHANGED <<raw, daily, monthly>>
    BY <1>9 DEF Fail, tables
  <2> QED BY <1>1, <2>1, EndMaps
<1> QED BY <1>2, <1>3, <1>4, <1>5, <1>6, <1>7, <1>8, <1>9 DEF Next, Run

LEMMA InitMaps == Init => R!Init
<1> SUFFICES ASSUME Init PROVE R!Init
  OBVIOUS
<1>1. AllHeld = [j \in Writers |-> R!Nothing]
  <2>1. \A j \in Writers : total[j] = 0
    BY DEF Init, Writers, Jobs
  <2> QED BY <2>1, HeldIs DEF AllHeld
<1> QED BY <1>1, MappedVars DEF Init, R!Init, AllHeld, Writers

\* On every calendar, at any hours of the jobs, in any time zone and whenever
\* the worker stops: a run sums up one day, or exactly the days of one month,
\* as they are at one moment, and replaces that row or leaves no trace.
THEOREM JobsAreAtomic == Spec => RollsUp
<1>1. Init => R!Init
  BY InitMaps
<1>2. TableInv /\ [Next]_vars => [R!Next]_(R!vars)
  BY MapsToRollup
<1> QED BY <1>1, <1>2, TableHolds, PTL DEF Spec, RollsUp, R!Spec
=============================================================================
