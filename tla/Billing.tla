------------------------------ MODULE Billing ------------------------------
(***************************************************************************)
(* From events to bills: the jobs of the scheduler worker                  *)
(* (backend/jobs/scheduler.py) over the calendar, the billing reports      *)
(* (backend/jobs/reports.py), and the daily and monthly queries of a       *)
(* tenant (backend/services/usage.py).                                     *)
(*                                                                         *)
(* At 2 the day before is summed up, on the first of a month at 3 the      *)
(* month before, from its daily summaries, and on the second at 4 its      *)
(* report is written, from the monthly summary.  Nothing but the clock     *)
(* orders the three jobs.  A job whose hour passes while the worker is     *)
(* down, or while it still runs, is skipped, and the exception of one that *)
(* fails is logged: neither is made up for.                                *)
(*                                                                         *)
(* What Aggregation has in detail, the groups and the upserts of a run and *)
(* the runs beside it, is left out: a run selects a total and commits it.  *)
(***************************************************************************)
EXTENDS Integers, FiniteSets, FiniteSetsExt, Functions

CONSTANTS
    DaysIn,      \* DaysIn[m]: the days of the month m of a year
    Hours,       \* the hours of a day
    DailyHour,   \* settings.daily_aggregation_hour
    MonthlyDay,  \* settings.monthly_aggregation_day
    Zone,        \* hours by which the worker's clock is ahead of the database's
    FirstMonth,  \* bound: the first month, as <<year, month>>
    LastMonth,   \* bound: the last month
    MaxEvents,   \* bound: events altogether
    MaxFaults    \* bound: failed and slow runs, and stops of the worker

ASSUME CalendarAssumption == DaysIn \in [1..12 -> Nat \ {0}]
ASSUME ScheduleAssumption ==
    /\ Hours \in Nat /\ Hours > 4  \* the hours of the jobs are among them
    /\ DailyHour \in 0..Hours - 1 /\ MonthlyDay \in Nat /\ Zone \in Nat
ASSUME SpanAssumption == FirstMonth \in Int \X (1..12) /\ LastMonth \in Int \X (1..12)
ASSUME BoundAssumption == MaxEvents \in Nat /\ MaxFaults \in Nat

VARIABLES
    today,     \* the date where the worker is, as <<year, month, day>>
    hour,      \* and the hour
    up,        \* the worker runs
    raw,       \* events by the date their timestamp has in the database
    prompt,    \* history: those of them that arrived before the daily run
    daily,     \* tenant_daily_summary.total_requests, 0 for no row
    monthly,   \* tenant_monthly_summary.total_requests, 0 for no row
    stage,     \* of each job: idle, started, or selected
    target,    \* the day or month its run is about
    total,     \* what its SELECT returned
    reports,   \* the files: [month, total]
    flawed,    \* history: months that a job failed, missed or was too late for
    faults     \* faults so far

tables == <<raw, prompt, daily, monthly>>
clock == <<today, hour>>
vars == <<clock, up, tables, stage, target, total, reports, flawed, faults>>

Jobs == {"daily", "monthly", "report"}

-----------------------------------------------------------------------------
(* Dates, as datetime.date and timedelta have them.                        *)

MonthOf(date) == <<date[1], date[2]>>
FirstOf(m) == <<m[1], m[2], 1>>

IsDate(date) == date[1] \in Int /\ date[2] \in 1..12 /\ date[3] \in 1..DaysIn[date[2]]

NextDate(date) ==
    IF date[3] < DaysIn[date[2]] THEN <<date[1], date[2], date[3] + 1>>
    ELSE IF date[2] < 12 THEN <<date[1], date[2] + 1, 1>>
    ELSE <<date[1] + 1, 1, 1>>

PrevDate(date) ==
    IF date[3] > 1 THEN <<date[1], date[2], date[3] - 1>>
    ELSE IF date[2] > 1 THEN <<date[1], date[2] - 1, DaysIn[date[2] - 1]>>
    ELSE <<date[1] - 1, 12, DaysIn[12]>>

\* The order of dates, in Python and in SQL.
AtMost(d, e) ==
    \/ d[1] < e[1]
    \/ d[1] = e[1] /\ d[2] < e[2]
    \/ d[1] = e[1] /\ d[2] = e[2] /\ d[3] <= e[3]

\* MonthlyAggregationJob.run(): the month of the day before the first.
PreviousMonth(date) == MonthOf(PrevDate(FirstOf(MonthOf(date))))

\* Wrong: the report of December is looked for in month 0.
ReportMonth_NoJanuary(date) == <<date[1], date[2] - 1>>

\* run_monthly_reports().
ReportMonth(date) ==
    IF date[2] = 1 THEN <<date[1] - 1, 12>> ELSE <<date[1], date[2] - 1>>

\* The last day that the monthly job takes.
LastDayOf(m) ==
    PrevDate(IF m[2] = 12 THEN <<m[1] + 1, 1, 1>> ELSE <<m[1], m[2] + 1, 1>>)

\* Wrong: years and months are compared on their own.
InRange_Apart(m, from, to) ==
    m[1] >= from[1] /\ m[2] >= from[2] /\ m[1] <= to[1] /\ m[2] <= to[2]

\* The filter of generate_tenant_summary_report().
InRange(m, from, to) ==
    /\ m[1] > from[1] \/ (m[1] = from[1] /\ m[2] >= from[2])
    /\ m[1] < to[1] \/ (m[1] = to[1] /\ m[2] <= to[2])

\* The months and days of the model.
Months == {m \in (FirstMonth[1]..LastMonth[1]) \X (1..12) :
              AtMost(FirstOf(FirstMonth), FirstOf(m)) /\ AtMost(FirstOf(m), FirstOf(LastMonth))}
DatesOf(m) == {<<m[1], m[2], d>> : d \in 1..DaysIn[m[2]]}
Dates == UNION {DatesOf(m) : m \in Months}

\* The sum of some of the rows of a table.
Total(table, rows) == SumFunctionOnSet(table, rows)

Init ==
    /\ today = FirstOf(FirstMonth) /\ hour = 0
    /\ up = TRUE
    /\ raw = [d \in Dates |-> 0] /\ prompt = raw
    /\ daily = [d \in Dates |-> 0]
    /\ monthly = [m \in Months |-> 0]
    /\ stage = [j \in Jobs |-> "idle"]
    /\ target = [j \in Jobs |-> <<>>]
    /\ total = [j \in Jobs |-> 0]
    /\ reports = {}
    /\ flawed = {}
    /\ faults = 0

Fault == faults < MaxFaults /\ faults' = faults + 1

-----------------------------------------------------------------------------
(* Events.                                                                 *)

\* The date the database gives to an event of this moment.
DatabaseDate == IF hour >= Zone THEN today ELSE PrevDate(today)

\* The last that the daily run of a day should take.
BeforeRun(d) == d = today \/ (NextDate(d) = today /\ hour < DailyHour)

\* An event of this moment is stored, or one that waited a day in a client.
Arrive(d) ==
    /\ d \in {DatabaseDate, PrevDate(DatabaseDate)} \intersect Dates
    /\ Total(raw, Dates) < MaxEvents
    /\ raw' = [raw EXCEPT ![d] = @ + 1]
    /\ prompt' = IF d = DatabaseDate \/ BeforeRun(d)
                 THEN [prompt EXCEPT ![d] = @ + 1] ELSE prompt
    /\ UNCHANGED <<clock, up, daily, monthly, stage, target, total, reports,
                   flawed, faults>>

-----------------------------------------------------------------------------
(* The clock and the scheduler.                                            *)

\* Wrong: both aggregations at the same hour.
Fires_Together(j, date, h) ==
    CASE j = "daily"   -> h = DailyHour
      [] j = "monthly" -> date[3] = MonthlyDay /\ h = DailyHour
      [] j = "report"  -> date[3] = 2 /\ h = 4

\* setup(): the cron triggers.
Fires(j, date, h) ==
    CASE j = "daily"   -> h = DailyHour
      [] j = "monthly" -> date[3] = MonthlyDay /\ h = 3
      [] j = "report"  -> date[3] = 2 /\ h = 4

\* What a run that starts on this date is about.
Target(j, date) ==
    CASE j = "daily"   -> PrevDate(date)
      [] j = "monthly" -> PreviousMonth(date)
      [] j = "report"  -> ReportMonth(date)

Past(m) == ~AtMost(FirstOf(MonthOf(today)), FirstOf(m))

\* Bound: the last month has been billed.
Over == Past(LastMonth) /\ today[3] >= 2 /\ hour > 4

\* A job still runs when one that reads what it writes is due.
TooLate(j) ==
    \E k \in Jobs : stage[k] # "idle" /\ MonthOf(target[k]) = MonthOf(Target(j, today'))

\* An hour passes, in which no run is under way unless it is slow.  Of the
\* jobs that are due, those that still run (max_instances is 1), or all if
\* the worker is down, are skipped.
Tick ==
    /\ ~Over
    /\ IF \A j \in Jobs : stage[j] = "idle" THEN UNCHANGED faults ELSE Fault
    /\ hour' = (hour + 1) % Hours
    /\ today' = IF hour' = 0 THEN NextDate(today) ELSE today
    /\ LET due     == {j \in Jobs : Fires(j, today', hour')}
           started == {j \in due : up /\ stage[j] = "idle"}
       IN  /\ stage' = [j \in Jobs |-> IF j \in started THEN "started" ELSE stage[j]]
           /\ target' = [j \in Jobs |->
                            IF j \in started THEN Target(j, today') ELSE target[j]]
           /\ flawed' = flawed \union
                  {MonthOf(Target(j, today')) :
                      j \in {k \in due : k \notin started \/ TooLate(k)}}
    /\ UNCHANGED <<up, tables, total, reports>>

\* Nothing is left of the runs of these jobs.
Ended(jobs) ==
    /\ stage' = [j \in Jobs |-> IF j \in jobs THEN "idle" ELSE stage[j]]
    /\ target' = [j \in Jobs |-> IF j \in jobs THEN <<>> ELSE target[j]]
    /\ total' = [j \in Jobs |-> IF j \in jobs THEN 0 ELSE total[j]]

\* The worker is stopped or killed, and its runs with it; it starts again
\* without knowing of them.
Stop ==
    /\ up /\ Fault
    /\ up' = FALSE
    /\ Ended(Jobs)
    /\ flawed' = flawed \union {MonthOf(target[j]) : j \in {k \in Jobs : stage[k] # "idle"}}
    /\ UNCHANGED <<clock, tables, reports>>

Start ==
    /\ ~up
    /\ up' = TRUE
    /\ UNCHANGED <<clock, tables, stage, target, total, reports, flawed, faults>>

-----------------------------------------------------------------------------
(* The runs.                                                               *)

Select(j, selected) ==
    /\ stage[j] = "started"
    /\ stage' = [stage EXCEPT ![j] = "selected"]
    /\ total' = [total EXCEPT ![j] = selected]
    /\ UNCHANGED <<clock, up, tables, target, reports, flawed, faults>>

\* Wrong: the period that is summed up has no end.
SelectDay_NoEnd ==
    Select("daily", Total(raw, {d \in Dates : AtMost(target["daily"], d)}))

SelectDay ==
    Select("daily", IF target["daily"] \in Dates THEN raw[target["daily"]] ELSE 0)

\* The daily summaries of a period.
Summaries(from, to) == {d \in Dates : AtMost(from, d) /\ AtMost(d, to)}

SelectMonth ==
    LET m == target["monthly"]
    IN  Select("monthly", Total(daily, Summaries(FirstOf(m), LastDayOf(m))))

\* The summary is upserted; without rows there is "no data to aggregate".
Commit(j) ==
    /\ stage[j] = "selected"
    /\ Ended({j})
    /\ daily' = IF j = "daily" /\ total[j] > 0
                THEN [daily EXCEPT ![target[j]] = total[j]] ELSE daily
    /\ monthly' = IF j = "monthly" /\ total[j] > 0
                  THEN [monthly EXCEPT ![target[j]] = total[j]] ELSE monthly
    /\ UNCHANGED <<clock, up, raw, prompt, reports, flawed, faults>>

\* generate_monthly_report(): the rows are read and the file is written.
Report ==
    /\ stage["report"] = "started"
    /\ LET m == target["report"]
       IN  reports' = reports \union
               {[month |-> m, total |-> IF m \in Months THEN monthly[m] ELSE 0]}
    /\ Ended({"report"})
    /\ UNCHANGED <<clock, up, tables, flawed, faults>>

\* The run raises; run_daily_aggregation() and the others log it.
Fail(j) ==
    /\ stage[j] # "idle" /\ Fault
    /\ Ended({j})
    /\ flawed' = flawed \union {MonthOf(target[j])}
    /\ UNCHANGED <<clock, up, tables, reports>>

Run ==
    \/ SelectDay \/ SelectMonth \/ Report
    \/ \E j \in Jobs : Commit(j)

Next ==
    \/ \E d \in Dates : Arrive(d)
    \/ Tick \/ Stop \/ Start
    \/ Run
    \/ \E j \in Jobs : Fail(j)

\* The clock goes on, and so do the runs of the worker.
Spec == Init /\ [][Next]_vars /\ WF_vars(Tick) /\ WF_vars(Run)

-----------------------------------------------------------------------------
(* Queries.                                                                *)

\* get_daily_summary(): the total of its items.
DailyQuery(from, to) == Total(daily, Summaries(from, to))

\* get_monthly_summary() with a year and a month.
MonthlyQuery(y, m) == Total(monthly, {row \in Months : row[1] = y /\ row[2] = m})

\* generate_tenant_summary_report(): the total of its rows.
RangeQuery(from, to) == Total(monthly, {m \in Months : InRange(m, from, to)})

-----------------------------------------------------------------------------
(* Properties.                                                             *)

TypeOK ==
    /\ IsDate(today) /\ hour \in 0..Hours - 1 /\ up \in BOOLEAN
    /\ raw \in [Dates -> 0..MaxEvents] /\ prompt \in [Dates -> 0..MaxEvents]
    /\ daily \in [Dates -> 0..MaxEvents] /\ monthly \in [Months -> 0..MaxEvents]
    /\ stage \in [Jobs -> {"idle", "started", "selected"}]
    /\ \A j \in Jobs : stage[j] = "idle" \/ (up /\ MonthOf(target[j])[2] \in 1..12)
    /\ total \in [Jobs -> 0..MaxEvents]
    /\ faults \in 0..MaxFaults

\* A report bills all events of its month that were there in time for their
\* daily run, and no more than its events, whatever the jobs' hours, the end
\* of the year and the time zones do, if each job ran once and in time.  And
\* the bill stays what the API answers for the month and for its days.
ReportsExact ==
    \A r \in {r \in reports : r.month \in Months} :
        LET y == r.month[1]
            m == r.month[2]
        IN  /\ r.total <= Total(raw, DatesOf(r.month))
            /\ r.month \notin flawed =>
                  /\ r.total >= Total(prompt, DatesOf(r.month))
                  /\ r.total = MonthlyQuery(y, m)
                  /\ r.total = DailyQuery(<<y, m, 1>>, <<y, m, DaysIn[m]>>)

\* The months as numbers.
Index(m) == 12 * m[1] + m[2]

\* The report over a period is the sum of the monthly ones, also across
\* the end of a year.
RangeAddsUp ==
    \A from, to \in Months :
        RangeQuery(from, to) =
            Total(monthly, {m \in Months : Index(m) \in Index(from)..Index(to)})

\* Every month is reported, unless a job for it was missed or failed.
EveryMonthReported ==
    \A m \in Months :
        Past(m) ~> (m \in flawed \/ \E r \in reports : r.month = m)

-----------------------------------------------------------------------------
(* The refinement mapping to Rollup.                                       *)

Held(j) == [t \in IF total[j] > 0 THEN {target[j]} ELSE {} |-> total[j]]

R == INSTANCE Rollup WITH
        DailyRuns <- {"daily"}, MonthlyRuns <- {"monthly"},
        Cells <- Dates, Bills <- Months, Feeds <- [m \in Months |-> DatesOf(m)],
        DailyScopes <- {{d} : d \in Dates}, MonthlyScopes <- {{m} : m \in Months},
        held <- [j \in {"daily", "monthly"} |-> Held(j)]

\* Whatever the clock, the ends of months and the restarts of the worker do,
\* a run takes the events of one day, or the daily summaries of exactly the
\* days of one month, at one moment, and replaces the row of that day or
\* month or leaves no trace.
RollsUp == R!Spec
=============================================================================
