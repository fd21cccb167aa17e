--------------------------- MODULE TenantSummary ---------------------------
(***************************************************************************)
(* GET /tenants/{tenant_id}/summary (backend/api/endpoints/tenants.py,     *)
(* UsageService.get_tenant_summary) while events are priced and stored.    *)
(* The summary is put together from four SELECTs over token_usage_raw.     *)
(* They share a transaction, but at READ COMMITTED each sees what is       *)
(* committed when it starts.                                               *)
(***************************************************************************)
EXTENDS Pricing, Functions

CONSTANTS
    Readers,  \* requests for a summary
    TenantOf  \* TenantOf[q]: the tenant in the path of reader q

VARIABLES
    selected, \* how many of its SELECTs each reader has done
    total,    \* the row of the first one: requests and cost
    parts     \* the breakdowns, by column: for each value requests and cost

summaries == <<selected, total, parts>>
vars == <<file, loaded, stage, handling, cost, readings, edits,
          selected, total, parts>>

\* The SELECTs after the first, in their order.
Columns == <<"provider", "model", "cloud_provider">>

\* count(id) and sum(calculated_cost) of some rows.
Aggregate(rows) ==
    [requests |-> Cardinality(rows), cost |-> SumFunctionOnSet(cost, rows)]

Nothing == [requests |-> 0, cost |-> 0]

RowsOf(tenant) == {r \in Rows : Event[r].tenant = tenant}

Init ==
    /\ PricingInit
    /\ selected = [q \in Readers |-> 0]
    /\ total = [q \in Readers |-> Nothing]
    /\ parts = [q \in Readers |-> [c \in ToSet(Columns) |-> <<>>]]

\* The first SELECT.
SelectTotal(q) ==
    /\ selected[q] = 0
    /\ total' = [total EXCEPT ![q] = Aggregate(RowsOf(TenantOf[q]))]
    /\ selected' = [selected EXCEPT ![q] = 1]
    /\ UNCHANGED <<pricingVars, parts>>

\* _get_breakdown(): the rows of the tenant grouped by a column.
Breakdown(tenant, column) ==
    LET rows == RowsOf(tenant)
        values == {Event[r][column] : r \in rows}
    IN  [x \in values |-> Aggregate({r \in rows : Event[r][column] = x})]

\* Wrong: the breakdowns are selected first, the total last.
SelectBreakdown_BeforeTotal(q) ==
    /\ selected[q] \in 1..Len(Columns)
    /\ parts' = [parts EXCEPT ![q][Columns[selected[q]]] =
                    Breakdown(TenantOf[q], Columns[selected[q]])]
    /\ total' = [total EXCEPT ![q] = Aggregate(RowsOf(TenantOf[q]))]
    /\ selected' = [selected EXCEPT ![q] = @ + 1]
    /\ UNCHANGED pricingVars

\* The next breakdown.
SelectBreakdown(q) ==
    /\ selected[q] \in 1..Len(Columns)
    /\ LET column == Columns[selected[q]]
       IN  parts' = [parts EXCEPT ![q][column] = Breakdown(TenantOf[q], column)]
    /\ selected' = [selected EXCEPT ![q] = @ + 1]
    /\ UNCHANGED <<pricingVars, total>>

Next ==
    \/ PricingNext /\ UNCHANGED summaries
    \/ \E q \in Readers : SelectTotal(q) \/ SelectBreakdown(q)

Spec == Init /\ [][Next]_vars

-----------------------------------------------------------------------------
(* Properties.                                                             *)

Answered(q) == selected[q] = Len(Columns) + 1

\* What a breakdown adds up to.
Sum(part) ==
    [requests |-> SumFunction([x \in DOMAIN part |-> part[x].requests]),
     cost     |-> SumFunction([x \in DOMAIN part |-> part[x].cost])]

AtMost(a, b) == a.requests <= b.requests /\ a.cost <= b.cost

TypeOK ==
    /\ file \in Files
    /\ \A p \in Processes :
          /\ loaded[p] \in PriceLists \union {Unloaded, BuiltIn, [kind |-> "empty"]}
          /\ loaded[p] # Unloaded => loaded[p] \in readings[p]
    /\ stage \in [Requests -> {"new", "priced", "stored", "refused"}]
    /\ handling \in [Processes -> SUBSET {r \in Requests : stage[r] = "priced"}]
    /\ cost \in [Requests -> Nat]
    /\ edits \in 0..MaxEdits
    /\ selected \in [Readers -> 0..Len(Columns) + 1]
    /\ \A q \in Readers : total[q].requests \in Nat /\ total[q].cost \in Nat

\* Events stored between the SELECTs make the parts of a summary disagree,
\* but in one direction only: each breakdown covers at least what the total
\* and the breakdowns before it count, and never more than is stored.  In a
\* summary during which nothing was stored for its tenant they hence agree.
PartsOnlyGrow ==
    \A q \in Readers : Answered(q) =>
        LET sum == [c \in ToSet(Columns) |-> Sum(parts[q][c])]
        IN  /\ AtMost(total[q], sum["provider"])
            /\ AtMost(sum["provider"], sum["model"])
            /\ AtMost(sum["model"], sum["cloud_provider"])
            /\ AtMost(sum["cloud_provider"], Aggregate(RowsOf(TenantOf[q])))

=============================================================================
