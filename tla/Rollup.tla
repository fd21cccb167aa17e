------------------------------- MODULE Rollup -------------------------------
(***************************************************************************)
(* What the aggregation jobs promise: a run reads all it sums up at one    *)
(* moment, and either replaces what it has read rows for, all of it at     *)
(* once, or leaves no trace.  Nothing is promised of which run comes       *)
(* first.                                                                  *)
(*                                                                         *)
(* Aggregation implements it with SELECTs, single upserts and row locks;   *)
(* Billing, where a run is two steps, with a clock and a scheduler.        *)
(***************************************************************************)
EXTENDS Integers, Functions

CONSTANTS
    DailyRuns,    \* processes that run the daily job
    MonthlyRuns,  \* processes that run the monthly job
    Cells,        \* rows of the daily table
    Bills,        \* rows of the monthly table
    Feeds,        \* Feeds[b]: the cells that b is the sum of
    DailyScopes,  \* the sets of cells that a daily run may be about
    MonthlyScopes \* the sets of bills that a monthly run may be about

VARIABLES
    raw,      \* events of each cell
    daily,    \* the daily summaries, 0 for no row
    monthly,  \* the monthly summaries, 0 for no row
    held      \* what each run has read and not yet written, by row

vars == <<raw, daily, monthly, held>>

Runs == DailyRuns \union MonthlyRuns

Nothing == [x \in {} |-> 0]

Init ==
    /\ raw = [c \in Cells |-> 0]
    /\ daily = [c \in Cells |-> 0]
    /\ monthly = [b \in Bills |-> 0]
    /\ held = [j \in Runs |-> Nothing]

\* An event is stored, whenever it happened.
Arrive(c) ==
    /\ raw' = [raw EXCEPT ![c] = @ + 1]
    /\ UNCHANGED <<daily, monthly, held>>

\* A query returns the rows that have events, with their totals.
Rows(totals, scope) == [x \in {y \in scope : totals[y] > 0} |-> totals[x]]

Bill == [b \in Bills |-> SumFunctionOnSet(daily, Feeds[b])]

Read(j) ==
    /\ \/ /\ j \in DailyRuns
          /\ \E scope \in DailyScopes : held' = [held EXCEPT ![j] = Rows(raw, scope)]
       \/ /\ j \in MonthlyRuns
          /\ \E scope \in MonthlyScopes : held' = [held EXCEPT ![j] = Rows(Bill, scope)]
    /\ UNCHANGED <<raw, daily, monthly>>

\* Rows that are there are replaced, the others stay.
Replaced(table, rows) ==
    [x \in DOMAIN table |-> IF x \in DOMAIN rows THEN rows[x] ELSE table[x]]

Write(j) ==
    /\ daily' = IF j \in DailyRuns THEN Replaced(daily, held[j]) ELSE daily
    /\ monthly' = IF j \in MonthlyRuns THEN Replaced(monthly, held[j]) ELSE monthly
    /\ held' = [held EXCEPT ![j] = Nothing]
    /\ UNCHANGED raw

\* Runs fail, are aborted or killed, or give up what they have.
Drop(lost) ==
    /\ held' = [j \in Runs |-> IF j \in lost THEN Nothing ELSE held[j]]
    /\ UNCHANGED <<raw, daily, monthly>>

Next ==
    \/ \E c \in Cells : Arrive(c)
    \/ \E j \in Runs : Read(j) \/ Write(j)
    \/ \E lost \in SUBSET Runs : Drop(lost)

Spec == Init /\ [][Next]_vars
=============================================================================
