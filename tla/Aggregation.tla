---------------------------- MODULE Aggregation ----------------------------
(***************************************************************************)
(* The aggregation jobs (backend/jobs/aggregation.py), as the scheduler    *)
(* worker (backend/jobs/scheduler.py), the Kubernetes CronJobs and an      *)
(* operator's backfill run them: concurrently with each other and with     *)
(* the ingest of events.                                                   *)
(*                                                                         *)
(* A run is one transaction: a single grouped SELECT, then one upsert per  *)
(* group, each setting the totals of a summary row to what the SELECT      *)
(* saw, then the commit.  PostgreSQL runs it at READ COMMITTED: the SELECT *)
(* sees what is committed when it starts, and an upsert waits for another  *)
(* transaction that wrote the same row, until that one ends.  Nothing      *)
(* orders the groups, so two runs may wait for each other; PostgreSQL      *)
(* then aborts one.                                                        *)
(*                                                                         *)
(* All totals of a summary row are sums over the same events: the model    *)
(* keeps their number, total_requests.  There is one month.                *)
(***************************************************************************)
EXTENDS Integers, Sequences, FiniteSets, SequencesExt

CONSTANTS
    DailyRunners,    \* processes that run the daily job or a backfill
    MonthlyRunners,  \* processes that run the monthly job
    Groups,          \* <<tenant, provider, model, cloud_provider>> of events
    Account,         \* Account[g]: its <<tenant, provider, model>>
    LastDay,         \* the days of the month are 1..LastDay
    MaxEvents,       \* bound: events altogether
    MaxRuns,         \* bound: how many runs are started
    MaxFaults        \* bound: how many runs fail or are killed

ASSUME RunnerAssumption == DailyRunners \cap MonthlyRunners = {}
ASSUME GroupAssumption == IsFiniteSet(Groups)
ASSUME BoundAssumption ==
    /\ LastDay \in Nat \ {0}
    /\ MaxEvents \in Nat /\ MaxRuns \in Nat /\ MaxFaults \in Nat

VARIABLES
    today,      \* the current day; LastDay + 1 is the first of the next month
    raw,        \* committed rows of token_usage_raw, by day and group
    daily,      \* tenant_daily_summary.total_requests, 0 for no row
    monthly,    \* tenant_monthly_summary.total_requests, 0 for no row
    stage,      \* where each runner is
    current,    \* the day its run is about
    endDate,    \* the last day of its backfill
    todo,       \* what its SELECT returned: sequence of [row, total]
    upserted,   \* how many of them it has upserted, holding their row locks
    overtaken,  \* history: another run wrote the same table since the SELECT
    snapshots,  \* history: every state raw[d] has been in
    mixed,      \* history: days last written by a run that was overtaken
    runs,       \* runs started so far
    faults      \* faults so far

tables == <<raw, daily, monthly, snapshots, mixed>>
progress == <<stage, current, endDate, todo, upserted, overtaken>>
vars == <<today, raw, daily, monthly, stage, current, endDate, todo, upserted,
          overtaken, snapshots, mixed, runs, faults>>

Runners == DailyRunners \union MonthlyRunners
Days == 1..LastDay
Accounts == {Account[g] : g \in Groups}
NoEvents == [g \in Groups |-> 0]

\* The total of some groups over the month.
MonthSum(counts, groups) ==
    SumFunctionOnSet([p \in Days \X Groups |-> counts[p[1]][p[2]]],
                     Days \X groups)

Init ==
    /\ today = 1
    /\ raw = [d \in Days |-> NoEvents]
    /\ daily = [d \in Days |-> NoEvents]
    /\ monthly = [a \in Accounts |-> 0]
    /\ stage = [j \in Runners |-> "idle"]
    /\ current = [j \in Runners |-> 1]
    /\ endDate = [j \in Runners |-> 1]
    /\ todo = [j \in Runners |-> <<>>]
    /\ upserted = [j \in Runners |-> 0]
    /\ overtaken = [j \in Runners |-> FALSE]
    /\ snapshots = [d \in Days |-> {NoEvents}]
    /\ mixed = {}
    /\ runs = 0 /\ faults = 0

-----------------------------------------------------------------------------
(* The world: events arrive, also for past days, and days pass.            *)

\* An ingest transaction commits an event.  Its timestamp is the client's,
\* so an event that was queued or retried belongs to an earlier day.
Arrive(d, g) ==
    /\ d <= today
    /\ MonthSum(raw, Groups) < MaxEvents
    /\ raw' = [raw EXCEPT ![d][g] = @ + 1]
    /\ snapshots' = [snapshots EXCEPT ![d] = @ \union {raw'[d]}]
    /\ UNCHANGED <<today, daily, monthly, mixed, progress, runs, faults>>

Midnight ==
    /\ today <= LastDay
    /\ today' = today + 1
    /\ UNCHANGED <<tables, progress, runs, faults>>

-----------------------------------------------------------------------------
(* Starting a run.                                                         *)

Start(j, from, to) ==
    /\ stage[j] = "idle" /\ runs < MaxRuns
    /\ runs' = runs + 1
    /\ stage' = [stage EXCEPT ![j] = "select"]
    /\ current' = [current EXCEPT ![j] = from]
    /\ endDate' = [endDate EXCEPT ![j] = to]
    /\ UNCHANGED <<today, tables, todo, upserted, overtaken, faults>>

\* run(): yesterday.
StartDaily(j) == today > 1 /\ Start(j, today - 1, today - 1)

\* backfill(start_date, end_date): one run after the other.
StartBackfill(j) ==
    \E from \in Days, to \in Days : from <= to /\ to <= today /\ Start(j, from, to)

\* run() of the monthly job: the month that has ended.
StartMonthly(j) == today > LastDay /\ Start(j, 1, LastDay)

-----------------------------------------------------------------------------
(* The transaction.                                                        *)

\* The rows of a grouped SELECT with these totals, in any order; a group
\* without a matching row of the table selected from is not returned.
Result(totals) ==
    SetToSeqs({[row |-> x, total |-> totals[x]] :
                  x \in {y \in DOMAIN totals : totals[y] > 0}})

\* Wrong: the last day of a backfill is not its last.
NextDay_Beyond(j) ==
    /\ todo' = [todo EXCEPT ![j] = <<>>]
    /\ upserted' = [upserted EXCEPT ![j] = 0]
    /\ IF j \in DailyRunners /\ current[j] <= endDate[j]
       THEN /\ stage' = [stage EXCEPT ![j] = "select"]
            /\ current' = [current EXCEPT ![j] = @ + 1]
       ELSE /\ stage' = [stage EXCEPT ![j] = "idle"]
            /\ UNCHANGED current
    /\ UNCHANGED endDate

\* The runner goes on to the next day of a backfill, or is finished.
NextDay(j) ==
    /\ todo' = [todo EXCEPT ![j] = <<>>]
    /\ upserted' = [upserted EXCEPT ![j] = 0]
    /\ IF j \in DailyRunners /\ current[j] < endDate[j]
       THEN /\ stage' = [stage EXCEPT ![j] = "select"]
            /\ current' = [current EXCEPT ![j] = @ + 1]
       ELSE /\ stage' = [stage EXCEPT ![j] = "idle"]
            /\ UNCHANGED current
    /\ UNCHANGED endDate

\* "No data to aggregate", or the upserts follow.
Select(j, totals) ==
    /\ stage[j] = "select"
    /\ overtaken' = [overtaken EXCEPT ![j] = FALSE]
    /\ \/ /\ \A x \in DOMAIN totals : totals[x] = 0
          /\ NextDay(j)
       \/ /\ \E x \in DOMAIN totals : totals[x] > 0
          /\ \E rows \in Result(totals) : todo' = [todo EXCEPT ![j] = rows]
          /\ stage' = [stage EXCEPT ![j] = "upsert"]
          /\ UNCHANGED <<current, endDate, upserted>>
    /\ UNCHANGED <<today, tables, runs, faults>>

\* Wrong: the SELECT goes to a replica that lags behind.
SelectDay_Lagging(j) ==
    \E before \in snapshots[current[j]] : Select(j, before)

SelectDay(j) == Select(j, raw[current[j]])

\* Daily summaries of the month, all clouds of an account together.
MonthTotals ==
    [a \in Accounts |-> MonthSum(daily, {g \in Groups : Account[g] = a})]

SelectMonth(j) == Select(j, MonthTotals)

\* Two runs write the same rows of the same table.
SameTarget(j, k) ==
    \/ {j, k} \subseteq MonthlyRunners
    \/ {j, k} \subseteq DailyRunners /\ current[j] = current[k]

Locked(j) == {todo[j][i].row : i \in 1..upserted[j]}

\* j's next upsert needs a row that the open transaction of k has written.
WaitsFor(j, k) ==
    /\ j # k /\ SameTarget(j, k)
    /\ stage[j] = "upsert" /\ upserted[j] < Len(todo[j])
    /\ todo[j][upserted[j] + 1].row \in Locked(k)

\* Wrong: every upsert is committed on its own.
Upsert_Autocommit(j) ==
    /\ stage[j] = "upsert" /\ upserted[j] < Len(todo[j])
    /\ upserted' = [upserted EXCEPT ![j] = @ + 1]
    /\ LET r == todo[j][upserted'[j]]
       IN  IF j \in DailyRunners
           THEN daily' = [daily EXCEPT ![current[j]][r.row] = r.total]
                /\ UNCHANGED monthly
           ELSE monthly' = [monthly EXCEPT ![r.row] = r.total]
                /\ UNCHANGED daily
    /\ UNCHANGED <<today, raw, snapshots, mixed, stage, current, endDate, todo,
                   overtaken, runs, faults>>

\* INSERT .. ON CONFLICT DO UPDATE of one row.
Upsert(j) ==
    /\ stage[j] = "upsert" /\ upserted[j] < Len(todo[j])
    /\ \A k \in Runners : ~WaitsFor(j, k)
    /\ upserted' = [upserted EXCEPT ![j] = @ + 1]
    /\ UNCHANGED <<today, tables, stage, current, endDate, todo, overtaken,
                   runs, faults>>

\* Wrong: the upsert adds to the totals that are there.
Written_Adds(j, totals) ==
    [x \in DOMAIN totals |->
        IF \E i \in 1..Len(todo[j]) : todo[j][i].row = x
        THEN totals[x] + (CHOOSE r \in ToSet(todo[j]) : r.row = x).total
        ELSE totals[x]]

\* The totals of a table after j's transaction.
Written(j, totals) ==
    [x \in DOMAIN totals |->
        IF \E i \in 1..Len(todo[j]) : todo[j][i].row = x
        THEN (CHOOSE r \in ToSet(todo[j]) : r.row = x).total
        ELSE totals[x]]

Publish(j) ==
    /\ IF j \in DailyRunners
       THEN /\ daily' = [daily EXCEPT ![current[j]] = Written(j, @)]
            /\ UNCHANGED monthly
       ELSE /\ monthly' = Written(j, monthly)
            /\ UNCHANGED daily
    /\ overtaken' = [k \in Runners |->
                        overtaken[k] \/ (k # j /\ SameTarget(j, k))]
    /\ mixed' = IF j \notin DailyRunners THEN mixed
                ELSE IF overtaken[j] THEN mixed \union {current[j]}
                ELSE mixed \ {current[j]}
    /\ UNCHANGED <<raw, snapshots>>

AllUpserted(j) == stage[j] = "upsert" /\ upserted[j] = Len(todo[j])

Commit(j) ==
    /\ AllUpserted(j)
    /\ Publish(j)
    /\ NextDay(j)
    /\ UNCHANGED <<today, runs, faults>>

\* Wrong: an error path that neither rolls back nor closes the session.
Abandon_KeepsLocks(j) ==
    /\ stage' = [stage EXCEPT ![j] = "idle"]
    /\ UNCHANGED <<todo, upserted, current, endDate>>

\* The exception ends the run, and the whole backfill; get_session_context
\* rolls back and closes, which releases the locks.
Abandon(j) ==
    /\ stage' = [stage EXCEPT ![j] = "idle"]
    /\ todo' = [todo EXCEPT ![j] = <<>>]
    /\ upserted' = [upserted EXCEPT ![j] = 0]
    /\ UNCHANGED <<current, endDate>>

\* The database fails or the process is killed; at the commit, it may have
\* happened all the same.
Fails(j) ==
    /\ stage[j] # "idle"
    /\ faults < MaxFaults /\ faults' = faults + 1
    /\ \/ UNCHANGED <<tables, overtaken>>
       \/ AllUpserted(j) /\ Publish(j)
    /\ Abandon(j)
    /\ UNCHANGED <<today, runs>>

\* j is on a cycle of runs that wait for each other.
Deadlocked(j) ==
    \E cycle \in SUBSET Runners :
        /\ j \in cycle
        /\ \A k \in cycle : \E l \in cycle : WaitsFor(k, l)
        /\ \A k \in cycle : \E l \in cycle : WaitsFor(l, k)

\* PostgreSQL's deadlock detector aborts the transaction.
DeadlockAbort(j) ==
    /\ Deadlocked(j)
    /\ Abandon(j)
    /\ UNCHANGED <<today, tables, overtaken, runs, faults>>

-----------------------------------------------------------------------------
DailyRun(j) == SelectDay(j) \/ Upsert(j) \/ Commit(j) \/ DeadlockAbort(j)
MonthlyRun(j) == SelectMonth(j) \/ Upsert(j) \/ Commit(j) \/ DeadlockAbort(j)

Next ==
    \/ \E d \in Days, g \in Groups : Arrive(d, g)
    \/ Midnight
    \/ \E j \in DailyRunners : StartDaily(j) \/ StartBackfill(j) \/ DailyRun(j)
    \/ \E j \in MonthlyRunners : StartMonthly(j) \/ MonthlyRun(j)
    \/ \E j \in Runners : Fails(j)

Spec == Init /\ [][Next]_vars

\* A run that was started is carried on; PostgreSQL hands a row lock to the
\* transaction that has waited longest.  Nothing makes a run start.
Fairness ==
    /\ \A j \in DailyRunners : SF_vars(DailyRun(j))
    /\ \A j \in MonthlyRunners : SF_vars(MonthlyRun(j))

FairSpec == Spec /\ Fairness

-----------------------------------------------------------------------------
(* Properties.                                                             *)

\* A backfill stays inside its range, a run upserts no row it did not read,
\* and every variable keeps its type.
TypeOK ==
    /\ today \in 1..LastDay + 1
    /\ raw \in [Days -> [Groups -> 0..MaxEvents]]
    /\ daily \in [Days -> [Groups -> Nat]]
    /\ monthly \in [Accounts -> Nat]
    /\ stage \in [Runners -> {"idle", "select", "upsert"}]
    /\ \A j \in Runners :
          /\ current[j] \in 1..endDate[j]
          /\ endDate[j] \in Days
          /\ upserted[j] \in 0..Len(todo[j])
          /\ \A i \in 1..Len(todo[j]) :
                /\ todo[j][i].row \in IF j \in DailyRunners THEN Groups
                                      ELSE Accounts
                /\ todo[j][i].total \in Nat \ {0}
    /\ overtaken \in [Runners -> BOOLEAN]
    /\ \A d \in Days : snapshots[d] \subseteq [Groups -> 0..MaxEvents]
    /\ mixed \subseteq Days
    /\ runs \in 0..MaxRuns /\ faults \in 0..MaxFaults

\* However often the jobs are repeated, retried after a commit whose answer
\* was lost, or run twice at the same time, no event is counted twice: a
\* summary never exceeds the events there are.
NeverOvercounts ==
    /\ \A d \in Days, g \in Groups : daily[d][g] <= raw[d][g]
    /\ \A a \in Accounts :
          monthly[a] <= MonthSum(raw, {g \in Groups : Account[g] = a})

\* What a reader sees of a day is what the events of that day added up to at
\* one moment, never the rows of half a run.  Only a run that was overtaken by
\* another of the same day leaves rows of both, and the next one that is not
\* repairs them.
DailySnapshot == \A d \in Days \ mixed : daily[d] \in snapshots[d]

\* A daily summary goes down only when the run that writes it was overtaken:
\* another run of the same day committed after this one's SELECT, and the
\* older totals overwrite the newer ones.
ShrinksOnlyWhenOvertaken ==
    [][\A d \in Days : (\E g \in Groups : daily'[d][g] < daily[d][g]) =>
          \E j \in DailyRunners :
              AllUpserted(j) /\ current[j] = d /\ overtaken[j]]_vars

\* Every run ends: runs that lock each other's rows are not stuck, and a
\* failed run leaves no lock behind for others to wait on.
RunsEnd == \A j \in Runners : (stage[j] # "idle") ~> (stage[j] = "idle")

-----------------------------------------------------------------------------
(* The refinement mapping to Rollup.                                       *)

\* The counts of all days, as one table.
Table(counts) == [c \in Days \X Groups |-> counts[c[1]][c[2]]]

\* The rows that a transaction would leave in an empty table.
Held(j) ==
    IF j \in DailyRunners
    THEN LET rows == Written(j, NoEvents)
         IN  [c \in {current[j]} \X {g \in Groups : rows[g] > 0} |-> rows[c[2]]]
    ELSE LET rows == Written(j, [a \in Accounts |-> 0])
         IN  [a \in {b \in Accounts : rows[b] > 0} |-> rows[a]]

R == INSTANCE Rollup WITH
        DailyRuns <- DailyRunners, MonthlyRuns <- MonthlyRunners,
        Cells <- Days \X Groups, Bills <- Accounts,
        Feeds <- [a \in Accounts |-> Days \X {g \in Groups : Account[g] = a}],
        DailyScopes <- {{d} \X Groups : d \in Days}, MonthlyScopes <- {Accounts},
        raw <- Table(raw), daily <- Table(daily),
        held <- [j \in Runners |-> Held(j)]

\* Although a run locks and upserts one row after the other, in any order,
\* and may wait, fail or be aborted between two of them, it reads all groups
\* of its day or month at one moment and writes all of them or none.
RollsUp == R!Spec
=============================================================================
