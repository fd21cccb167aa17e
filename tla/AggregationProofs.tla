------------------------- MODULE AggregationProofs -------------------------
(***************************************************************************)
(* Proofs about Aggregation: for any number of runners, groups, days and   *)
(* events, no summary exceeds the events there are, a day's summary is one *)
(* of the states that day was in, and only an overtaken run makes one go   *)
(* down.                                                                   *)
(***************************************************************************)
EXTENDS Aggregation, DataLemmas, TLAPS

-----------------------------------------------------------------------------
(* The inductive invariant.                                                *)

GroupsOf(a) == {g \in Groups : Account[g] = a}
RowsFor(j) == IF j \in DailyRunners THEN Groups ELSE Accounts

Row == [row : Groups \union Accounts, total : Nat \ {0}]

\* The tables: their types and what they promise to readers.
Stored ==
    /\ today \in 1..LastDay + 1
    /\ raw \in [Days -> [Groups -> 0..MaxEvents]]
    /\ daily \in [Days -> [Groups -> Nat]]
    /\ monthly \in [Accounts -> Nat]
    /\ snapshots \in [Days -> SUBSET [Groups -> 0..MaxEvents]]
    /\ \A d \in Days : raw[d] \in snapshots[d]
    /\ mixed \subseteq Days
    /\ runs \in 0..MaxRuns /\ faults \in 0..MaxFaults
    /\ NeverOvercounts
    /\ DailySnapshot

\* The runners' variables are functions on the runners.
Domains ==
    /\ stage \in [Runners -> {"idle", "select", "upsert"}]
    /\ current \in [Runners -> Days]
    /\ endDate \in [Runners -> Days]
    /\ todo \in [Runners -> Seq(Row)]
    /\ upserted \in [Runners -> Nat]
    /\ overtaken \in [Runners -> BOOLEAN]

\* What a run has read and not yet written is not more than what is stored
\* by now, because events are never taken back.
NotAhead(j) ==
    \A i \in 1..Len(todo[j]) :
        todo[j][i].total <=
            IF j \in DailyRunners THEN raw[current[j]][todo[j][i].row]
            ELSE MonthSum(raw, GroupsOf(todo[j][i].row))

\* A run that was not overtaken holds all of one state s of its day, of
\* which the summary it is about to write is not ahead.
Whole(j, s) ==
    /\ \A g \in Groups : daily[current[j]][g] <= s[g]
    /\ \A i \in 1..Len(todo[j]) : todo[j][i].total = s[todo[j][i].row]
    /\ \A g \in Groups : s[g] > 0 => \E i \in 1..Len(todo[j]) : todo[j][i].row = g

RunOK(j) ==
    /\ current[j] <= endDate[j]
    /\ stage[j] # "upsert" => todo[j] = <<>>
    /\ upserted[j] <= Len(todo[j])
    /\ \A i \in 1..Len(todo[j]) : todo[j][i].row \in RowsFor(j)
    /\ NotAhead(j)
    /\ j \in DailyRunners /\ stage[j] = "upsert" /\ ~overtaken[j] =>
          \E s \in snapshots[current[j]] : Whole(j, s)

IInv == Stored /\ Domains /\ \A j \in Runners : RunOK(j)

-----------------------------------------------------------------------------
(* Lemmas about the operators of the model.                                *)

LEMMA AccountsFinite == IsFiniteSet(Accounts)
<1> DEFINE f == [g \in Groups |-> Account[g]]
<1>1. f \in Surjection(Groups, Accounts)
  BY DEF Surjection, Accounts
<1> QED BY <1>1, GroupAssumption, FS_Surjection

LEMMA DaysTimesGroups ==
    ASSUME NEW G \in SUBSET Groups
    PROVE  IsFiniteSet(Days \X G)
<1>1. IsFiniteSet(G)
  BY GroupAssumption, FS_Subset
<1>2. LastDay \in Int
  BY BoundAssumption
<1>3. IsFiniteSet(Days)
  BY <1>2, FS_Interval DEF Days
<1> QED BY <1>1, <1>3, FS_Product

\* The total of a month is a number, and larger counts have a larger one.
LEMMA MonthSumGrows ==
    ASSUME NEW a \in [Days -> [Groups -> Nat]],
           NEW b \in [Days -> [Groups -> Nat]],
           \A d \in Days, g \in Groups : a[d][g] <= b[d][g],
           NEW G \in SUBSET Groups
    PROVE  MonthSum(a, G) \in Nat /\ MonthSum(a, G) <= MonthSum(b, G)
<1> DEFINE f == [p \in Days \X Groups |-> a[p[1]][p[2]]]
           h == [p \in Days \X Groups |-> b[p[1]][p[2]]]
<1>1. \A p \in Days \X G : f[p] \in Nat /\ h[p] \in Nat /\ f[p] <= h[p]
  OBVIOUS
<1>2. MonthSum(a, G) = SumFunctionOnSet(f, Days \X G)
      /\ MonthSum(b, G) = SumFunctionOnSet(h, Days \X G)
  BY DEF MonthSum
<1>3. IsFiniteSet(Days \X G)
  BY DaysTimesGroups
<1> HIDE DEF f, h
<1>4. SumFunctionOnSet(f, Days \X G) \in Nat
  BY <1>1, <1>3, SumRemove
<1>5. SumFunctionOnSet(f, Days \X G) <= SumFunctionOnSet(h, Days \X G)
  BY <1>1, <1>3, SumAtMost
<1> QED BY <1>2, <1>4, <1>5

\* One count is at most the total of the month.
LEMMA MonthSumItem ==
    ASSUME NEW a \in [Days -> [Groups -> Nat]], NEW d \in Days, NEW g \in Groups
    PROVE  a[d][g] <= MonthSum(a, Groups)
<1> DEFINE f == [p \in Days \X Groups |-> a[p[1]][p[2]]]
<1>1. \A p \in Days \X Groups : f[p] \in Nat
  OBVIOUS
<1>2. f[<<d, g>>] = a[d][g] /\ <<d, g>> \in Days \X Groups
  OBVIOUS
<1>3. MonthSum(a, Groups) = SumFunctionOnSet(f, Days \X Groups)
  BY DEF MonthSum
<1>4. IsFiniteSet(Days \X Groups)
  BY DaysTimesGroups
<1> HIDE DEF f
<1>5. f[<<d, g>>] <= SumFunctionOnSet(f, Days \X Groups)
  BY <1>1, <1>2, <1>4, SumItem
<1> QED BY <1>2, <1>3, <1>5

\* A SELECT returns the positive totals, each with its row.
LEMMA ResultRows ==
    ASSUME NEW D \in SUBSET (Groups \union Accounts), IsFiniteSet(D),
           NEW totals \in [D -> Nat], NEW rows \in Result(totals)
    PROVE  /\ rows \in Seq(Row)
           /\ \A i \in 1..Len(rows) : rows[i].row \in D
           /\ \A i \in 1..Len(rows) : rows[i].total = totals[rows[i].row]
           /\ \A x \in D : totals[x] > 0 => \E i \in 1..Len(rows) : rows[i].row = x
<1> DEFINE P == {x \in D : totals[x] > 0}
           f == [x \in P |-> [row |-> x, total |-> totals[x]]]
           Items == {[row |-> x, total |-> totals[x]] : x \in P}
<1>1. f \in Surjection(P, Items)
  BY DEF Surjection
<1>2. IsFiniteSet(P)
  BY FS_Subset
<1>3. rows \in SetToSeqs(Items)
  BY DEF Result
<1>4. \A r \in Items : r \in Row /\ r.row \in D /\ r.total = totals[r.row]
  BY DEF Row
<1>5. \A x \in D : totals[x] > 0 => \E r \in Items : r.row = x
  <2> SUFFICES ASSUME NEW x \in D, totals[x] > 0
               PROVE  \E r \in Items : r.row = x
    OBVIOUS
  <2>1. x \in P
    OBVIOUS
  <2>2. [row |-> x, total |-> totals[x]] \in Items
    BY <2>1
  <2>3. [row |-> x, total |-> totals[x]].row = x
    OBVIOUS
  <2> QED BY <2>2, <2>3
<1> HIDE DEF Items, P, f
<1>6. IsFiniteSet(Items)
  BY <1>1, <1>2, FS_Surjection
<1>7. /\ rows \in Seq(Items)
      /\ \A x \in Items : \E i \in 1..Len(rows) : rows[i] = x
  BY <1>3, <1>6, EnumerationOfSet
<1>8. \A i \in 1..Len(rows) : rows[i] \in Items
  BY <1>7, SequenceItems
<1>9. rows \in Seq(Row)
  BY <1>4, <1>7, <1>8, SequenceItems
<1>10. \A i \in 1..Len(rows) : rows[i].row \in D /\ rows[i].total = totals[rows[i].row]
  BY <1>4, <1>8
<1>11. \A x \in D : totals[x] > 0 => \E i \in 1..Len(rows) : rows[i].row = x
  BY <1>5, <1>7
<1> QED BY <1>9, <1>10, <1>11

\* What a transaction leaves of a row: a total that it upserts, or what was
\* there.
LEMMA WrittenRow ==
    ASSUME Domains, NEW j \in Runners, NEW D, NEW totals \in [D -> Nat]
    PROVE  /\ Written(j, totals) \in [D -> Nat]
           /\ \A x \in D :
                 \/ \E i \in 1..Len(todo[j]) :
                       /\ todo[j][i].row = x
                       /\ Written(j, totals)[x] = todo[j][i].total
                 \/ /\ \A i \in 1..Len(todo[j]) : todo[j][i].row # x
                    /\ Written(j, totals)[x] = totals[x]
<1> DEFINE t == todo[j]
           W == Written(j, totals)
<1>1. t \in Seq(Row)
  BY DEF Domains
<1>2. \A r : r \in ToSet(t) <=> \E i \in 1..Len(t) : r = t[i]
  BY <1>1, ToSetMembers
<1>3. DOMAIN totals = D
  OBVIOUS
<1>4. W = [x \in D |-> IF \E i \in 1..Len(t) : t[i].row = x
                       THEN (CHOOSE r \in ToSet(t) : r.row = x).total
                       ELSE totals[x]]
  BY <1>3 DEF Written
<1>5. ASSUME NEW x \in D, \E i \in 1..Len(t) : t[i].row = x
      PROVE  \E i \in 1..Len(t) : t[i].row = x /\ W[x] = t[i].total
  <2> DEFINE r == CHOOSE r \in ToSet(t) : r.row = x
  <2>1. \E q \in ToSet(t) : q.row = x
    BY <1>2, <1>5
  <2>2. r \in ToSet(t) /\ r.row = x
    BY <2>1
  <2>3. W[x] = r.total
    BY <1>4, <1>5
  <2> HIDE DEF r, W, t
  <2> QED BY <1>2, <2>2, <2>3
<1>6. ASSUME NEW x \in D, ~ \E i \in 1..Len(t) : t[i].row = x
      PROVE  W[x] = totals[x]
  BY <1>4, <1>6
<1>7. \A i \in 1..Len(t) : t[i].total \in Nat
  <2>1. \A i \in 1..Len(t) : t[i] \in Row
    BY <1>1, SequenceItems
  <2> QED BY <2>1 DEF Row
<1>8. \A x \in D : W[x] \in Nat
  <2> HIDE DEF W, t
  <2> QED BY <1>5, <1>6, <1>7
<1>9. W \in [D -> Nat]
  <2>1. W = [x \in D |-> W[x]]
    BY <1>4
  <2> HIDE DEF W
  <2> QED BY <1>8, <2>1
<1> HIDE DEF W, t
<1>10. QED BY <1>5, <1>6, <1>9 DEF W, t

-----------------------------------------------------------------------------
(* What the actions do to the runs.                                        *)

\* A run keeps what it has read while the events grow and no other run
\* writes its day.
LEMMA RunKept ==
    ASSUME IInv, NEW k \in Runners, RunOK(k),
           stage'[k] = stage[k], current'[k] = current[k],
           endDate'[k] = endDate[k], todo'[k] = todo[k],
           upserted'[k] <= Len(todo[k]),
           raw' \in [Days -> [Groups -> Nat]],
           \A d \in Days, g \in Groups : raw[d][g] <= raw'[d][g],
           \A d \in Days : snapshots[d] \subseteq snapshots'[d],
           k \in DailyRunners /\ ~overtaken'[k] =>
               ~overtaken[k] /\ daily'[current[k]] = daily[current[k]]
    PROVE  RunOK(k)'
<1> DEFINE t == todo[k]
<1>1. /\ current[k] \in Days /\ t \in Seq(Row)
      /\ raw \in [Days -> [Groups -> Nat]]
  <2>1. current[k] \in Days
    BY DEF IInv, Domains
  <2>2. t \in Seq(Row)
    BY DEF IInv, Domains
  <2>3. raw \in [Days -> [Groups -> Nat]]
    BY BoundAssumption DEF IInv, Stored
  <2> QED BY <2>1, <2>2, <2>3
<1>2. \A i \in 1..Len(t) : t[i].row \in RowsFor(k) /\ t[i].total \in Nat
  <2>1. \A i \in 1..Len(t) : t[i] \in Row
    BY <1>1, SequenceItems
  <2> QED BY <2>1 DEF RunOK, Row
<1>3. NotAhead(k)'
  <2> SUFFICES ASSUME NEW i \in 1..Len(t)
               PROVE  t[i].total <=
                         IF k \in DailyRunners THEN raw'[current[k]][t[i].row]
                         ELSE MonthSum(raw', GroupsOf(t[i].row))
    BY DEF NotAhead, GroupsOf
  <2>1. t[i].total <= IF k \in DailyRunners THEN raw[current[k]][t[i].row]
                      ELSE MonthSum(raw, GroupsOf(t[i].row))
    BY DEF RunOK, NotAhead
  <2>2. CASE k \in DailyRunners
    <3>1. t[i].row \in Groups
      BY <1>2, <2>2 DEF RowsFor
    <3>2. raw[current[k]][t[i].row] <= raw'[current[k]][t[i].row]
          /\ raw[current[k]][t[i].row] \in Nat /\ raw'[current[k]][t[i].row] \in Nat
      BY <1>1, <3>1
    <3> QED BY <1>2, <2>1, <2>2, <3>2
  <2>3. CASE k \notin DailyRunners
    <3> DEFINE G == GroupsOf(t[i].row)
    <3>1. G \in SUBSET Groups
      BY DEF GroupsOf
    <3>2. MonthSum(raw, G) \in Nat /\ MonthSum(raw, G) <= MonthSum(raw', G)
      BY <1>1, <3>1, MonthSumGrows
    <3>3. MonthSum(raw', G) \in Nat
      <4>1. \A d \in Days, g \in Groups : raw'[d][g] <= raw'[d][g]
        OBVIOUS
      <4> QED BY <3>1, <4>1, MonthSumGrows
    <3> HIDE DEF G
    <3>4. t[i].total <= MonthSum(raw, G)
      BY <2>1, <2>3 DEF G
    <3>5. t[i].total <= MonthSum(raw', G)
      BY <1>2, <3>2, <3>3, <3>4
    <3> QED BY <2>3, <3>5 DEF G
  <2> QED BY <2>2, <2>3
<1>4. ASSUME k \in DailyRunners, stage'[k] = "upsert", ~overtaken'[k]
      PROVE  \E s \in snapshots'[current'[k]] : Whole(k, s)'
  <2>1. PICK s \in snapshots[current[k]] : Whole(k, s)
    BY <1>4 DEF RunOK
  <2>2. s \in snapshots'[current'[k]]
    BY <1>1, <2>1
  <2>3. Whole(k, s)'
    BY <1>4, <2>1 DEF Whole
  <2> QED BY <2>2, <2>3
<1>5. /\ current'[k] <= endDate'[k]
      /\ stage'[k] # "upsert" => todo'[k] = <<>>
      /\ upserted'[k] <= Len(todo'[k])
      /\ \A i \in 1..Len(todo'[k]) : todo'[k][i].row \in RowsFor(k)
  BY DEF RunOK
<1> QED BY <1>3, <1>4, <1>5 DEF RunOK, RowsFor, Accounts

Others(j) ==
    \A k \in Runners \ {j} :
        /\ stage'[k] = stage[k] /\ current'[k] = current[k]
        /\ endDate'[k] = endDate[k] /\ todo'[k] = todo[k]
        /\ upserted'[k] = upserted[k]

\* A transaction that ends, one way or the other, leaves a runner with
\* nothing to write.
LEMMA RunEnded ==
    ASSUME Domains, NEW j \in Runners, RunOK(j), NextDay(j) \/ Abandon(j)
    PROVE  /\ stage' \in [Runners -> {"idle", "select", "upsert"}]
           /\ current' \in [Runners -> Days]
           /\ endDate' \in [Runners -> Days]
           /\ todo' \in [Runners -> Seq(Row)]
           /\ upserted' \in [Runners -> Nat]
           /\ RunOK(j)'
           /\ Others(j)
<1>1. current[j] \in Days /\ endDate[j] \in Days /\ current[j] <= endDate[j]
  BY DEF Domains, RunOK
<1>2. <<>> \in Seq(Row) /\ Len(<<>>) = 0
  OBVIOUS
<1>3. /\ todo' = [todo EXCEPT ![j] = <<>>] /\ upserted' = [upserted EXCEPT ![j] = 0]
      /\ endDate' = endDate
  BY DEF NextDay, Abandon
<1>4. \/ stage' = [stage EXCEPT ![j] = "idle"] /\ current' = current
      \/ /\ stage' = [stage EXCEPT ![j] = "select"]
         /\ current[j] < endDate[j]
         /\ current' = [current EXCEPT ![j] = @ + 1]
  BY DEF NextDay, Abandon
<1>5. current[j] < endDate[j] => current[j] + 1 \in Days
  BY <1>1, BoundAssumption DEF Days
<1>6. /\ stage' \in [Runners -> {"idle", "select", "upsert"}]
      /\ current' \in [Runners -> Days]
      /\ endDate' \in [Runners -> Days]
      /\ todo' \in [Runners -> Seq(Row)]
      /\ upserted' \in [Runners -> Nat]
  <2>1. current' \in [Runners -> Days]
    BY <1>4, <1>5 DEF Domains
  <2>2. stage' \in [Runners -> {"idle", "select", "upsert"}]
    BY <1>4 DEF Domains
  <2>3. endDate' \in [Runners -> Days] /\ upserted' \in [Runners -> Nat]
    BY <1>3 DEF Domains
  <2>4. todo' \in [Runners -> Seq(Row)]
    BY <1>2, <1>3 DEF Domains
  <2> QED BY <2>1, <2>2, <2>3, <2>4
<1>7. stage'[j] # "upsert" /\ todo'[j] = <<>> /\ upserted'[j] = 0
  BY <1>3, <1>4 DEF Domains
<1>8. current'[j] <= endDate'[j]
  BY <1>1, <1>3, <1>4 DEF Domains, Days
<1>9. RunOK(j)'
  BY <1>2, <1>7, <1>8 DEF RunOK, NotAhead
<1>10. Others(j)
  BY <1>3, <1>4 DEF Others, Domains
<1> QED BY <1>6, <1>9, <1>10

\* The commit.
LEMMA Published ==
    ASSUME IInv, NEW j \in Runners, AllUpserted(j), Publish(j),
           today' = today, runs' = runs, faults' \in 0..MaxFaults
    PROVE  /\ Stored'
           /\ overtaken' \in [Runners -> BOOLEAN]
           /\ raw' = raw /\ snapshots' = snapshots
           /\ \A k \in Runners \ {j} :
                 k \in DailyRunners /\ ~overtaken'[k] =>
                     ~overtaken[k] /\ daily'[current[k]] = daily[current[k]]
           /\ \A d \in Days : (\E g \in Groups : daily'[d][g] < daily[d][g]) =>
                 j \in DailyRunners /\ current[j] = d /\ overtaken[j]
<1> DEFINE t == todo[j]
           d0 == current[j]
<1>1. Stored /\ Domains /\ RunOK(j)
  BY DEF IInv
<1>2. /\ d0 \in Days
      /\ t \in Seq(Row)
      /\ \A i \in 1..Len(t) : t[i].total \in Nat
  <2>1. d0 \in Days
    BY <1>1 DEF Domains
  <2>2. t \in Seq(Row)
    BY <1>1 DEF Domains
  <2>3. \A i \in 1..Len(t) : t[i] \in Row
    BY <2>2, SequenceItems
  <2> QED BY <2>1, <2>2, <2>3 DEF Row
<1>3. \A i \in 1..Len(t) : t[i].row \in RowsFor(j)
  BY <1>1 DEF RunOK
<1>4. raw' = raw /\ snapshots' = snapshots /\ today' = today /\ runs' = runs
      /\ faults' \in 0..MaxFaults
  BY DEF Publish
<1>5. /\ overtaken' = [k \in Runners |-> overtaken[k] \/ (k # j /\ SameTarget(j, k))]
      /\ overtaken' \in [Runners -> BOOLEAN]
  <2>1. overtaken' = [k \in Runners |-> overtaken[k] \/ (k # j /\ SameTarget(j, k))]
    BY DEF Publish
  <2>2. \A k \in Runners : (overtaken[k] \/ (k # j /\ SameTarget(j, k))) \in BOOLEAN
    BY DEF SameTarget
  <2> QED BY <2>1, <2>2, Zenon
<1>6. CASE j \in DailyRunners
  <2> DEFINE W == Written(j, daily[d0])
  <2>1. /\ daily' = [daily EXCEPT ![d0] = W]
        /\ monthly' = monthly
        /\ mixed' = IF overtaken[j] THEN mixed \union {d0} ELSE mixed \ {d0}
    BY <1>6 DEF Publish
  <2>2. daily[d0] \in [Groups -> Nat] /\ raw[d0] \in [Groups -> Nat]
    BY <1>1, <1>2 DEF Stored
  <2>3. /\ W \in [Groups -> Nat]
        /\ \A x \in Groups :
              \/ \E i \in 1..Len(t) : t[i].row = x /\ W[x] = t[i].total
              \/ (\A i \in 1..Len(t) : t[i].row # x) /\ W[x] = daily[d0][x]
    <3> DEFINE D == Groups
               totals == daily[d0]
    <3>1. totals \in [D -> Nat] /\ Domains
      BY <1>1, <2>2
    <3> HIDE DEF D, totals
    <3>2. /\ Written(j, totals) \in [D -> Nat]
          /\ \A x \in D :
                \/ \E i \in 1..Len(todo[j]) :
                      /\ todo[j][i].row = x
                      /\ Written(j, totals)[x] = todo[j][i].total
                \/ /\ \A i \in 1..Len(todo[j]) : todo[j][i].row # x
                   /\ Written(j, totals)[x] = totals[x]
      BY ONLY <3>1, j \in Runners, WrittenRow
    <3> QED BY <3>2, Zenon DEF D, totals
  <2> HIDE DEF W
  <2>4. \A g \in Groups : W[g] <= raw[d0][g]
    <3> TAKE g \in Groups
    <3>1. \A i \in 1..Len(t) : t[i].total <= raw[d0][t[i].row]
      BY <1>1, <1>6 DEF RunOK, NotAhead
    <3>2. daily[d0][g] <= raw[d0][g]
      BY <1>1, <1>2 DEF Stored, NeverOvercounts
    <3> QED BY <2>3, <3>1, <3>2
  <2>5. ~overtaken[j] => /\ W \in snapshots[d0]
                         /\ \A g \in Groups : daily[d0][g] <= W[g]
    <3> SUFFICES ASSUME ~overtaken[j]
                 PROVE  W \in snapshots[d0] /\ \A g \in Groups : daily[d0][g] <= W[g]
      OBVIOUS
    <3>1. PICK s \in snapshots[d0] : Whole(j, s)
      BY <1>1, <1>6 DEF RunOK, AllUpserted
    <3>2. s \in [Groups -> Nat]
      BY <1>1, <1>2 DEF Stored
    <3>3. \A g \in Groups : W[g] = s[g]
      <4> TAKE g \in Groups
      <4>1. CASE \E i \in 1..Len(t) : t[i].row = g /\ W[g] = t[i].total
        BY <4>1, <3>1 DEF Whole
      <4>2. CASE (\A i \in 1..Len(t) : t[i].row # g) /\ W[g] = daily[d0][g]
        <5>1. ~(s[g] > 0) /\ daily[d0][g] <= s[g]
          BY <3>1, <4>2 DEF Whole
        <5>2. s[g] \in Nat /\ daily[d0][g] \in Nat
          BY <2>2, <3>2
        <5> QED BY <4>2, <5>1, <5>2
      <4> QED BY <2>3, <4>1, <4>2
    <3>4. W = s
      BY <2>3, <3>2, <3>3
    <3> QED BY <3>1, <3>4 DEF Whole
  <2>6. \A d \in Days : daily'[d] = IF d = d0 THEN W ELSE daily[d]
    BY <1>1, <2>1 DEF Stored
  <2>7. daily' \in [Days -> [Groups -> Nat]]
    BY <1>1, <2>1, <2>3 DEF Stored
  <2>8. NeverOvercounts'
    <3>1. \A d \in Days, g \in Groups : daily'[d][g] <= raw[d][g]
      BY <1>1, <2>4, <2>6 DEF Stored, NeverOvercounts
    <3>2. \A a \in Accounts :
             monthly[a] <= MonthSum(raw, {g \in Groups : Account[g] = a})
      BY <1>1 DEF Stored, NeverOvercounts
    <3> QED BY <1>4, <2>1, <3>1, <3>2 DEF NeverOvercounts
  <2>9. DailySnapshot'
    <3>1. \A d \in Days \ mixed : daily[d] \in snapshots[d]
      BY <1>1 DEF Stored, DailySnapshot
    <3>2. \A d \in Days \ mixed' : daily'[d] \in snapshots[d]
      BY <2>1, <2>5, <2>6, <3>1
    <3> QED BY <1>4, <3>2 DEF DailySnapshot
  <2>10. Stored'
    <3>1. mixed' \subseteq Days
      BY <1>1, <1>2, <2>1 DEF Stored
    <3>2. monthly' \in [Accounts -> Nat]
      BY <1>1, <2>1 DEF Stored
    <3> QED BY <1>1, <1>4, <2>7, <2>8, <2>9, <3>1, <3>2 DEF Stored
  <2>11. \A k \in Runners \ {j} :
            k \in DailyRunners /\ ~overtaken'[k] =>
                ~overtaken[k] /\ daily'[current[k]] = daily[current[k]]
    <3> SUFFICES ASSUME NEW k \in Runners \ {j}, k \in DailyRunners, ~overtaken'[k]
                 PROVE  ~overtaken[k] /\ daily'[current[k]] = daily[current[k]]
      OBVIOUS
    <3>1. ~overtaken[k] /\ ~SameTarget(j, k)
      BY <1>5
    <3>2. current[k] # d0
      BY <1>6, <3>1 DEF SameTarget
    <3>3. current[k] \in Days
      BY <1>1 DEF Domains
    <3> QED BY <2>6, <3>1, <3>2, <3>3
  <2>12. \A d \in Days : (\E g \in Groups : daily'[d][g] < daily[d][g]) =>
            j \in DailyRunners /\ current[j] = d /\ overtaken[j]
    <3> SUFFICES ASSUME NEW d \in Days, NEW g \in Groups, daily'[d][g] < daily[d][g]
                 PROVE  current[j] = d /\ overtaken[j]
      BY <1>6
    <3>1. daily[d][g] \in Nat /\ W[g] \in Nat
      BY <1>1, <2>3 DEF Stored
    <3>2. d = d0
      BY <2>6, <3>1
    <3>3. ~(daily[d0][g] <= W[g])
      BY <2>6, <3>1, <3>2
    <3> QED BY <1>1, <2>5, <3>2, <3>3 DEF Domains
  <2> QED BY <1>4, <1>5, <2>10, <2>11, <2>12
<1>7. CASE j \notin DailyRunners
  <2> DEFINE W == Written(j, monthly)
  <2>1. daily' = daily /\ monthly' = W /\ mixed' = mixed
    BY <1>7 DEF Publish
  <2>2. monthly \in [Accounts -> Nat]
    BY <1>1 DEF Stored
  <2>3. /\ W \in [Accounts -> Nat]
        /\ \A x \in Accounts :
              \/ \E i \in 1..Len(t) : t[i].row = x /\ W[x] = t[i].total
              \/ (\A i \in 1..Len(t) : t[i].row # x) /\ W[x] = monthly[x]
    BY <1>1, <2>2, WrittenRow
  <2> HIDE DEF W
  <2>4. \A a \in Accounts : W[a] <= MonthSum(raw, GroupsOf(a))
    <3> TAKE a \in Accounts
    <3>1. \A i \in 1..Len(t) : t[i].total <= MonthSum(raw, GroupsOf(t[i].row))
      BY <1>1, <1>7 DEF RunOK, NotAhead
    <3>2. monthly[a] <= MonthSum(raw, GroupsOf(a))
      BY <1>1 DEF Stored, NeverOvercounts, GroupsOf
    <3> QED BY <2>3, <3>1, <3>2
  <2>5. NeverOvercounts'
    <3>1. \A d \in Days, g \in Groups : daily[d][g] <= raw[d][g]
      BY <1>1 DEF Stored, NeverOvercounts
    <3> QED BY <1>4, <2>1, <2>4, <3>1 DEF NeverOvercounts, GroupsOf
  <2>6. DailySnapshot'
    BY <1>1, <1>4, <2>1 DEF Stored, DailySnapshot
  <2>7. Stored'
    BY <1>1, <1>4, <2>1, <2>3, <2>5, <2>6 DEF Stored
  <2>8. \A k \in Runners \ {j} : ~overtaken'[k] => ~overtaken[k]
    BY <1>5
  <2>9. \A d \in Days, g \in Groups : ~(daily'[d][g] < daily[d][g])
    BY <1>1, <2>1 DEF Stored
  <2> QED BY <1>4, <1>5, <2>1, <2>7, <2>8, <2>9
<1> QED BY <1>6, <1>7

-----------------------------------------------------------------------------
(* The initial state and each action.                                      *)

LEMMA InitOK == Init => IInv
<1> SUFFICES ASSUME Init PROVE IInv
  OBVIOUS
<1>1. 1 \in Days /\ \A d \in Days, g \in Groups : raw[d][g] = 0 /\ daily[d][g] = 0
  BY BoundAssumption DEF Init, Days, NoEvents
<1>2. NoEvents \in [Groups -> 0..MaxEvents] /\ NoEvents \in [Groups -> Nat]
  BY BoundAssumption DEF NoEvents
<1>3. raw \in [Days -> [Groups -> 0..MaxEvents]] /\ raw \in [Days -> [Groups -> Nat]]
      /\ daily \in [Days -> [Groups -> Nat]]
  BY <1>2 DEF Init
<1>4. NeverOvercounts
  <2>1. \A a \in Accounts : monthly[a] <= MonthSum(raw, {g \in Groups : Account[g] = a})
    <3> SUFFICES ASSUME NEW a \in Accounts
                 PROVE  monthly[a] <= MonthSum(raw, GroupsOf(a))
      BY DEF GroupsOf
    <3>1. GroupsOf(a) \in SUBSET Groups /\ \A d \in Days, g \in Groups : raw[d][g] <= raw[d][g]
      BY <1>1 DEF GroupsOf
    <3>2. MonthSum(raw, GroupsOf(a)) \in Nat
      BY <1>3, <3>1, MonthSumGrows
    <3>3. monthly[a] = 0
      BY DEF Init
    <3> QED BY <3>2, <3>3
  <2>2. \A d \in Days, g \in Groups : daily[d][g] <= raw[d][g]
    BY <1>1
  <2> QED BY <2>1, <2>2 DEF NeverOvercounts
<1>5. Stored
  <2>1. snapshots \in [Days -> SUBSET [Groups -> 0..MaxEvents]]
        /\ \A d \in Days : raw[d] \in snapshots[d] /\ daily[d] \in snapshots[d]
    BY <1>2 DEF Init
  <2>2. today \in 1..LastDay + 1
    BY BoundAssumption DEF Init
  <2>3. monthly \in [Accounts -> Nat] /\ mixed \subseteq Days
    BY DEF Init
  <2>4. runs \in 0..MaxRuns /\ faults \in 0..MaxFaults
    BY BoundAssumption DEF Init
  <2> QED BY <1>3, <1>4, <2>1, <2>2, <2>3, <2>4 DEF Stored, DailySnapshot
<1>6. <<>> \in Seq(Row) /\ Len(<<>>) = 0
  OBVIOUS
<1>7. Domains
  BY <1>1, <1>6 DEF Init, Domains
<1>8. \A j \in Runners : RunOK(j)
  BY <1>6 DEF Init, RunOK, NotAhead
<1> QED BY <1>5, <1>7, <1>8 DEF IInv

\* Runs that are not j's are kept by what j does to its own variables.
LEMMA OthersKept ==
    ASSUME IInv, NEW j, Others(j),
           raw' = raw, snapshots' = snapshots,
           \A k \in Runners \ {j} :
               k \in DailyRunners /\ ~overtaken'[k] =>
                   ~overtaken[k] /\ daily'[current[k]] = daily[current[k]]
    PROVE  \A k \in Runners \ {j} : RunOK(k)'
<1> SUFFICES ASSUME NEW k \in Runners \ {j} PROVE RunOK(k)'
  OBVIOUS
<1>1. RunOK(k)
  BY DEF IInv
<1>2. /\ stage'[k] = stage[k] /\ current'[k] = current[k]
      /\ endDate'[k] = endDate[k] /\ todo'[k] = todo[k]
      /\ upserted'[k] = upserted[k]
  BY DEF Others
<1>3. upserted'[k] <= Len(todo[k])
  BY <1>1, <1>2 DEF RunOK
<1>4. raw' \in [Days -> [Groups -> Nat]]
      /\ \A d \in Days, g \in Groups : raw[d][g] <= raw'[d][g]
  <2>1. raw \in [Days -> [Groups -> Nat]]
    BY BoundAssumption DEF IInv, Stored
  <2>2. \A d \in Days, g \in Groups : raw[d][g] \in Nat
    BY <2>1
  <2>3. \A d \in Days, g \in Groups : raw[d][g] <= raw[d][g]
    BY <2>2
  <2> QED BY <2>1, <2>3
<1>5. \A d \in Days : snapshots[d] \subseteq snapshots'[d]
  OBVIOUS
<1> QED BY <1>1, <1>2, <1>3, <1>4, <1>5, RunKept

LEMMA ArriveOK ==
    ASSUME IInv, NEW d \in Days, NEW g \in Groups, Arrive(d, g)
    PROVE  IInv'
<1>1. Stored /\ Domains
  BY DEF IInv
<1>2. raw \in [Days -> [Groups -> Nat]] /\ raw \in [Days -> [Groups -> 0..MaxEvents]]
  BY <1>1, BoundAssumption DEF Stored
<1>3. raw[d][g] < MaxEvents
  <2>1. raw[d][g] <= MonthSum(raw, Groups)
    BY <1>2, MonthSumItem
  <2>2. MonthSum(raw, Groups) < MaxEvents
    BY DEF Arrive
  <2>3. MonthSum(raw, Groups) \in Nat
    <3>1. \A e \in Days, h \in Groups : raw[e][h] <= raw[e][h]
      BY <1>2
    <3>2. Groups \in SUBSET Groups
      OBVIOUS
    <3> QED BY <1>2, <3>1, <3>2, MonthSumGrows
  <2>4. raw[d][g] \in Nat
    BY <1>2
  <2> QED BY <2>1, <2>2, <2>3, <2>4, BoundAssumption
<1>4. raw' = [raw EXCEPT ![d][g] = @ + 1]
  BY DEF Arrive
<1>5. raw' \in [Days -> [Groups -> 0..MaxEvents]]
  <2>1. raw[d][g] + 1 \in 0..MaxEvents
    BY <1>2, <1>3, BoundAssumption
  <2> QED BY <1>2, <1>4, <2>1
<1>6. raw' \in [Days -> [Groups -> Nat]]
      /\ \A e \in Days, h \in Groups : raw[e][h] <= raw'[e][h]
  <2>1. raw' \in [Days -> [Groups -> Nat]]
    BY <1>5, BoundAssumption
  <2>2. \A e \in Days, h \in Groups : raw[e][h] <= raw'[e][h]
    BY <1>2, <1>4
  <2> QED BY <2>1, <2>2
<1>7. snapshots' = [snapshots EXCEPT ![d] = @ \union {raw'[d]}]
      /\ UNCHANGED <<today, daily, monthly, mixed, progress, runs, faults>>
  BY DEF Arrive
<1>8. /\ snapshots' \in [Days -> SUBSET [Groups -> 0..MaxEvents]]
      /\ \A e \in Days : snapshots[e] \subseteq snapshots'[e] /\ raw'[e] \in snapshots'[e]
  <2>1. raw'[d] \in [Groups -> 0..MaxEvents]
    BY <1>5
  <2>2. \A e \in Days : e # d => raw'[e] = raw[e]
    BY <1>2, <1>4
  <2>3. snapshots \in [Days -> SUBSET [Groups -> 0..MaxEvents]]
        /\ \A e \in Days : raw[e] \in snapshots[e]
    BY <1>1 DEF Stored
  <2> HIDE DEF Days
  <2> QED BY <1>7, <2>1, <2>2, <2>3
<1>9. NeverOvercounts'
  <2>1. \A e \in Days, h \in Groups : daily[e][h] <= raw'[e][h]
    <3> TAKE e \in Days, h \in Groups
    <3>1. daily[e][h] \in Nat /\ raw[e][h] \in Nat /\ raw'[e][h] \in Nat
      BY <1>1, <1>2, <1>6 DEF Stored
    <3>2. daily[e][h] <= raw[e][h]
      BY <1>1 DEF Stored, NeverOvercounts
    <3>3. raw[e][h] <= raw'[e][h]
      BY <1>6
    <3> QED BY <3>1, <3>2, <3>3
  <2>2. \A a \in Accounts : monthly[a] <= MonthSum(raw', GroupsOf(a))
    <3> TAKE a \in Accounts
    <3>1. GroupsOf(a) \in SUBSET Groups
      BY DEF GroupsOf
    <3>2. MonthSum(raw, GroupsOf(a)) \in Nat
          /\ MonthSum(raw, GroupsOf(a)) <= MonthSum(raw', GroupsOf(a))
      BY <1>2, <1>6, <3>1, MonthSumGrows
    <3>3. MonthSum(raw', GroupsOf(a)) \in Nat
      <4>1. \A e \in Days, h \in Groups : raw'[e][h] <= raw'[e][h]
        BY <1>6
      <4> QED BY <1>6, <3>1, <4>1, MonthSumGrows
    <3>4. monthly[a] <= MonthSum(raw, GroupsOf(a)) /\ monthly[a] \in Nat
      BY <1>1 DEF Stored, NeverOvercounts, GroupsOf
    <3> QED BY <3>2, <3>3, <3>4
  <2> QED BY <1>7, <2>1, <2>2 DEF NeverOvercounts, GroupsOf
<1>10. DailySnapshot'
  <2>1. \A e \in Days \ mixed : daily[e] \in snapshots'[e]
    BY <1>1, <1>8 DEF Stored, DailySnapshot
  <2> QED BY <1>7, <2>1 DEF DailySnapshot
<1>11. Stored'
  BY <1>1, <1>5, <1>7, <1>8, <1>9, <1>10 DEF Stored
<1>12. Domains'
  BY <1>1, <1>7 DEF Domains, progress
<1>13. \A k \in Runners : RunOK(k)'
  <2> TAKE k \in Runners
  <2>1. RunOK(k)
    BY DEF IInv
  <2>2. /\ stage'[k] = stage[k] /\ current'[k] = current[k]
        /\ endDate'[k] = endDate[k] /\ todo'[k] = todo[k]
        /\ upserted'[k] = upserted[k] /\ overtaken'[k] = overtaken[k]
        /\ daily' = daily
    BY <1>7 DEF progress
  <2>3. upserted'[k] <= Len(todo[k])
    BY <2>1, <2>2 DEF RunOK
  <2> QED BY <1>6, <1>8, <2>1, <2>2, <2>3, RunKept
<1> QED BY <1>11, <1>12, <1>13 DEF IInv

LEMMA MidnightOK ==
    ASSUME IInv, Midnight
    PROVE  IInv'
<1>1. today' \in 1..LastDay + 1
  BY BoundAssumption DEF Midnight, IInv, Stored
<1>2. UNCHANGED <<tables, progress, runs, faults>>
  BY DEF Midnight
<1>3. Stored'
  BY <1>1, <1>2 DEF IInv, Stored, tables, NeverOvercounts, DailySnapshot
<1>4. Domains'
  BY <1>2 DEF IInv, Domains, progress
<1>5. \A k \in Runners : RunOK(k)'
  BY <1>2 DEF IInv, RunOK, NotAhead, Whole, progress, tables
<1> QED BY <1>3, <1>4, <1>5 DEF IInv

LEMMA StartOK ==
    ASSUME IInv, NEW j \in Runners, NEW from \in Days, NEW to \in Days, from <= to,
           Start(j, from, to)
    PROVE  IInv'
<1>1. Stored /\ Domains /\ RunOK(j)
  BY DEF IInv
<1>2. /\ stage[j] = "idle" /\ runs < MaxRuns /\ runs' = runs + 1
      /\ stage' = [stage EXCEPT ![j] = "select"]
      /\ current' = [current EXCEPT ![j] = from]
      /\ endDate' = [endDate EXCEPT ![j] = to]
      /\ UNCHANGED <<today, tables, todo, upserted, overtaken, faults>>
  BY DEF Start
<1>3. runs' \in 0..MaxRuns
  BY <1>1, <1>2, BoundAssumption DEF Stored
<1>4. Stored'
  BY <1>1, <1>2, <1>3 DEF Stored, tables, NeverOvercounts, DailySnapshot
<1>5. Domains'
  BY <1>1, <1>2 DEF Domains
<1>6. Others(j)
  BY <1>1, <1>2 DEF Others, Domains
<1>7. \A k \in Runners \ {j} : RunOK(k)'
  BY <1>2, <1>6, OthersKept DEF tables
<1>8. RunOK(j)'
  <2>1. todo[j] = <<>> /\ upserted[j] <= Len(todo[j])
    BY <1>1, <1>2 DEF RunOK
  <2>2. stage'[j] = "select" /\ current'[j] = from /\ endDate'[j] = to
        /\ todo'[j] = <<>> /\ upserted'[j] <= Len(todo'[j])
    BY <1>1, <1>2, <2>1 DEF Domains
  <2>3. Len(<<>>) = 0
    OBVIOUS
  <2> QED BY <2>2, <2>3 DEF RunOK, NotAhead
<1> QED BY <1>4, <1>5, <1>7, <1>8 DEF IInv

\* The SELECT of a run returns totals that are not ahead of the events; for
\* a daily run they are a state of the day that the summary is not ahead of.
LEMMA SelectOK ==
    ASSUME IInv, NEW j \in Runners, NEW totals \in [RowsFor(j) -> Nat],
           \A x \in RowsFor(j) :
               totals[x] <= IF j \in DailyRunners THEN raw[current[j]][x]
                            ELSE MonthSum(raw, GroupsOf(x)),
           j \in DailyRunners =>
               /\ totals \in snapshots[current[j]]
               /\ \A g \in Groups : daily[current[j]][g] <= totals[g],
           Select(j, totals)
    PROVE  IInv'
<1>1. Stored /\ Domains /\ RunOK(j)
  BY DEF IInv
<1>2. /\ overtaken' = [overtaken EXCEPT ![j] = FALSE]
      /\ UNCHANGED <<today, tables, runs, faults>>
      /\ stage[j] = "select"
  BY DEF Select
<1>3. Stored'
  BY <1>1, <1>2 DEF Stored, tables, NeverOvercounts, DailySnapshot
<1>4. overtaken' \in [Runners -> BOOLEAN]
  BY <1>1, <1>2 DEF Domains
<1>5. \A k \in Runners \ {j} : overtaken'[k] = overtaken[k]
  BY <1>1, <1>2 DEF Domains
<1>6. DOMAIN totals = RowsFor(j)
  OBVIOUS
<1>7. CASE NextDay(j)
  <2>1. /\ stage' \in [Runners -> {"idle", "select", "upsert"}]
        /\ current' \in [Runners -> Days]
        /\ endDate' \in [Runners -> Days]
        /\ todo' \in [Runners -> Seq(Row)]
        /\ upserted' \in [Runners -> Nat]
        /\ RunOK(j)'
        /\ Others(j)
    BY <1>1, <1>7, RunEnded
  <2>2. Domains'
    BY <1>4, <2>1 DEF Domains
  <2>3. \A k \in Runners \ {j} : RunOK(k)'
    BY <1>2, <1>5, <2>1, OthersKept DEF tables
  <2> QED BY <1>3, <2>1, <2>2, <2>3 DEF IInv
<1>8. CASE /\ \E rows \in Result(totals) : todo' = [todo EXCEPT ![j] = rows]
           /\ stage' = [stage EXCEPT ![j] = "upsert"]
           /\ UNCHANGED <<current, endDate, upserted>>
  <2>1. PICK rows \in Result(totals) : todo' = [todo EXCEPT ![j] = rows]
    BY <1>8
  <2>2. IsFiniteSet(RowsFor(j))
    BY GroupAssumption, AccountsFinite DEF RowsFor
  <2>3. /\ rows \in Seq(Row)
        /\ \A i \in 1..Len(rows) : rows[i].row \in RowsFor(j)
        /\ \A i \in 1..Len(rows) : rows[i].total = totals[rows[i].row]
        /\ \A x \in RowsFor(j) : totals[x] > 0 => \E i \in 1..Len(rows) : rows[i].row = x
    <3> DEFINE D == RowsFor(j)
    <3>1. D \in SUBSET (Groups \union Accounts) /\ IsFiniteSet(D)
          /\ totals \in [D -> Nat] /\ rows \in Result(totals)
      BY <2>1, <2>2 DEF RowsFor
    <3> HIDE DEF D
    <3>2. /\ rows \in Seq(Row)
          /\ \A i \in 1..Len(rows) : rows[i].row \in D
          /\ \A i \in 1..Len(rows) : rows[i].total = totals[rows[i].row]
          /\ \A x \in D : totals[x] > 0 => \E i \in 1..Len(rows) : rows[i].row = x
      BY ONLY <3>1, ResultRows
    <3> QED BY <3>2 DEF D
  <2>5. rows \in Seq(Row) /\ Len(rows) \in Nat
    BY <2>3, SequenceItems
  <2>6. \A i \in 1..Len(rows) : rows[i].row \in RowsFor(j)
    BY <2>3
  <2>7. Domains'
    <3>1. todo' \in [Runners -> Seq(Row)]
      BY <1>1, <2>1, <2>5 DEF Domains
    <3>2. stage' \in [Runners -> {"idle", "select", "upsert"}]
      BY <1>1, <1>8 DEF Domains
    <3> QED BY <1>1, <1>4, <1>8, <3>1, <3>2 DEF Domains
  <2>8. Others(j)
    BY <1>1, <1>8, <2>1 DEF Others, Domains
  <2>9. \A k \in Runners \ {j} : RunOK(k)'
    BY <1>2, <1>5, <2>8, OthersKept DEF tables
  <2>10. /\ todo'[j] = rows /\ stage'[j] = "upsert" /\ current' = current
         /\ endDate' = endDate /\ upserted' = upserted
         /\ raw' = raw /\ daily' = daily /\ snapshots' = snapshots
    BY <1>1, <1>2, <1>8, <2>1 DEF Domains, tables
  <2>11. upserted[j] <= Len(rows)
    <3>1. todo[j] = <<>> /\ upserted[j] <= Len(todo[j]) /\ upserted[j] \in Nat
      BY <1>1, <1>2 DEF RunOK, Domains
    <3>2. Len(<<>>) = 0
      OBVIOUS
    <3> QED BY <2>5, <3>1, <3>2
  <2>12. NotAhead(j)'
    <3>1. \A i \in 1..Len(rows) :
             rows[i].total <= IF j \in DailyRunners THEN raw[current[j]][rows[i].row]
                              ELSE MonthSum(raw, GroupsOf(rows[i].row))
      BY <2>3, <2>6
    <3> QED BY <2>10, <3>1 DEF NotAhead, GroupsOf
  <2>13. j \in DailyRunners =>
            \E s \in snapshots'[current'[j]] : Whole(j, s)'
    <3> SUFFICES ASSUME j \in DailyRunners
                 PROVE  \E s \in snapshots'[current'[j]] : Whole(j, s)'
      OBVIOUS
    <3>1. RowsFor(j) = Groups
      BY DEF RowsFor
    <3>2. \A g \in Groups : daily[current[j]][g] <= totals[g]
      OBVIOUS
    <3>3. Whole(j, totals)'
      <4>1. \A g \in Groups : daily'[current'[j]][g] <= totals[g]
        BY <2>10, <3>2
      <4>2. \A i \in 1..Len(todo'[j]) : todo'[j][i].total = totals[todo'[j][i].row]
        BY <2>3, <2>10
      <4>3. \A g \in Groups : totals[g] > 0 =>
               \E i \in 1..Len(todo'[j]) : todo'[j][i].row = g
        BY <2>3, <2>10, <3>1
      <4> QED BY <4>1, <4>2, <4>3 DEF Whole
    <3>4. totals \in snapshots'[current'[j]]
      BY <2>10
    <3> QED BY <3>3, <3>4
  <2>14. RunOK(j)'
    <3>1. current[j] <= endDate[j]
      BY <1>1 DEF RunOK
    <3>2. \A i \in 1..Len(todo'[j]) : todo'[j][i].row \in RowsFor(j)'
      BY <2>6, <2>10 DEF RowsFor, Accounts
    <3> QED BY <2>10, <2>11, <2>12, <2>13, <3>1, <3>2 DEF RunOK
  <2> QED BY <1>3, <2>7, <2>9, <2>14 DEF IInv
<1> QED BY <1>7, <1>8 DEF Select

LEMMA SelectDayOK ==
    ASSUME IInv, NEW j \in DailyRunners, SelectDay(j)
    PROVE  IInv'
<1> DEFINE d == current[j]
           totals == raw[d]
<1>1. d \in Days /\ j \in Runners /\ RowsFor(j) = Groups
  BY DEF IInv, Domains, Runners, RowsFor
<1>2. totals \in [Groups -> Nat] /\ totals \in snapshots[d]
  BY <1>1, BoundAssumption DEF IInv, Stored
<1>3. \A g \in Groups : daily[d][g] <= totals[g]
  BY <1>1 DEF IInv, Stored, NeverOvercounts
<1>4. \A g \in Groups : totals[g] <= raw[d][g]
  BY <1>2
<1>5. Select(j, totals)
  BY DEF SelectDay
<1> QED BY <1>1, <1>2, <1>3, <1>4, <1>5, SelectOK

LEMMA SelectMonthOK ==
    ASSUME IInv, NEW j \in MonthlyRunners, SelectMonth(j)
    PROVE  IInv'
<1>1. j \in Runners /\ j \notin DailyRunners /\ RowsFor(j) = Accounts
  BY RunnerAssumption DEF Runners, RowsFor
<1>2. /\ raw \in [Days -> [Groups -> Nat]] /\ daily \in [Days -> [Groups -> Nat]]
      /\ \A d \in Days, g \in Groups : daily[d][g] <= raw[d][g]
  BY BoundAssumption DEF IInv, Stored, NeverOvercounts
<1>3. \A a \in Accounts : MonthSum(daily, GroupsOf(a)) \in Nat
                          /\ MonthSum(daily, GroupsOf(a)) <= MonthSum(raw, GroupsOf(a))
  <2> TAKE a \in Accounts
  <2>1. GroupsOf(a) \in SUBSET Groups
    BY DEF GroupsOf
  <2> QED BY <1>2, <2>1, MonthSumGrows
<1>4. MonthTotals = [a \in Accounts |-> MonthSum(daily, GroupsOf(a))]
  BY DEF MonthTotals, GroupsOf
<1> DEFINE totals == MonthTotals
<1>5. totals \in [Accounts -> Nat]
      /\ \A a \in Accounts : totals[a] <= MonthSum(raw, GroupsOf(a))
  BY <1>3, <1>4
<1>6. Select(j, totals)
  BY DEF SelectMonth
<1> HIDE DEF totals
<1> QED BY <1>1, <1>5, <1>6, SelectOK

LEMMA UpsertOK ==
    ASSUME IInv, NEW j \in Runners, Upsert(j)
    PROVE  IInv'
<1>1. Stored /\ Domains /\ RunOK(j)
  BY DEF IInv
<1>2. /\ upserted[j] < Len(todo[j]) /\ upserted' = [upserted EXCEPT ![j] = @ + 1]
      /\ UNCHANGED <<today, tables, stage, current, endDate, todo, overtaken,
                     runs, faults>>
  BY DEF Upsert
<1>3. Stored'
  BY <1>1, <1>2 DEF Stored, tables, NeverOvercounts, DailySnapshot
<1>4. Domains'
  BY <1>1, <1>2 DEF Domains
<1>5. Others(j)
  BY <1>1, <1>2 DEF Others, Domains
<1>6. \A k \in Runners \ {j} : RunOK(k)'
  BY <1>2, <1>5, OthersKept DEF tables
<1>7. RunOK(j)'
  <2>1. todo[j] \in Seq(Row) /\ upserted[j] \in Nat
    BY <1>1 DEF Domains
  <2>2. upserted'[j] <= Len(todo'[j])
    BY <1>1, <1>2, <2>1, SequenceItems DEF Domains
  <2>3. /\ NotAhead(j)'
        /\ j \in DailyRunners /\ stage'[j] = "upsert" /\ ~overtaken'[j] =>
              \E s \in snapshots'[current'[j]] : Whole(j, s)'
    BY <1>1, <1>2 DEF RunOK, NotAhead, Whole, tables
  <2>4. /\ current'[j] <= endDate'[j]
        /\ stage'[j] # "upsert" => todo'[j] = <<>>
        /\ \A i \in 1..Len(todo'[j]) : todo'[j][i].row \in RowsFor(j)'
    BY <1>1, <1>2 DEF RunOK, RowsFor, Accounts
  <2> QED BY <2>2, <2>3, <2>4 DEF RunOK
<1> QED BY <1>3, <1>4, <1>6, <1>7 DEF IInv

LEMMA CommitOK ==
    ASSUME IInv, NEW j \in Runners, AllUpserted(j), Publish(j),
           NextDay(j) \/ Abandon(j),
           today' = today, runs' = runs, faults' \in 0..MaxFaults
    PROVE  IInv'
<1>1. /\ Stored' /\ overtaken' \in [Runners -> BOOLEAN]
      /\ raw' = raw /\ snapshots' = snapshots
      /\ \A k \in Runners \ {j} :
            k \in DailyRunners /\ ~overtaken'[k] =>
                ~overtaken[k] /\ daily'[current[k]] = daily[current[k]]
  BY Published
<1>2. Domains /\ RunOK(j)
  BY DEF IInv
<1>3. /\ stage' \in [Runners -> {"idle", "select", "upsert"}]
      /\ current' \in [Runners -> Days]
      /\ endDate' \in [Runners -> Days]
      /\ todo' \in [Runners -> Seq(Row)]
      /\ upserted' \in [Runners -> Nat]
      /\ RunOK(j)'
      /\ Others(j)
  BY <1>2, RunEnded
<1>4. \A k \in Runners \ {j} : RunOK(k)'
  BY <1>1, <1>3, OthersKept
<1>5. Domains'
  BY <1>1, <1>3 DEF Domains
<1> QED BY <1>1, <1>3, <1>4, <1>5 DEF IInv

\* A run that ends without having written anything.
LEMMA AbandonOK ==
    ASSUME IInv, NEW j \in Runners, Abandon(j), UNCHANGED <<tables, overtaken>>,
           today' = today, runs' = runs, faults' \in 0..MaxFaults
    PROVE  IInv'
<1>1. Domains /\ RunOK(j)
  BY DEF IInv
<1>2. /\ stage' \in [Runners -> {"idle", "select", "upsert"}]
      /\ current' \in [Runners -> Days]
      /\ endDate' \in [Runners -> Days]
      /\ todo' \in [Runners -> Seq(Row)]
      /\ upserted' \in [Runners -> Nat]
      /\ RunOK(j)'
      /\ Others(j)
  BY <1>1, RunEnded
<1>3. Stored'
  BY DEF IInv, Stored, tables, NeverOvercounts, DailySnapshot
<1>4. \A k \in Runners \ {j} : RunOK(k)'
  BY <1>2, OthersKept DEF tables
<1>5. Domains'
  BY <1>1, <1>2 DEF Domains
<1> QED BY <1>2, <1>3, <1>4, <1>5 DEF IInv

LEMMA FailsOK ==
    ASSUME IInv, NEW j \in Runners, Fails(j)
    PROVE  IInv'
<1>1. /\ Abandon(j) /\ today' = today /\ runs' = runs
      /\ faults < MaxFaults /\ faults' = faults + 1
  BY DEF Fails
<1>2. faults' \in 0..MaxFaults
  BY <1>1, BoundAssumption DEF IInv, Stored
<1>3. CASE UNCHANGED <<tables, overtaken>>
  BY <1>1, <1>2, <1>3, AbandonOK
<1>4. CASE AllUpserted(j) /\ Publish(j)
  BY <1>1, <1>2, <1>4, CommitOK
<1> QED BY <1>3, <1>4 DEF Fails

LEMMA NextOK ==
    ASSUME IInv, [Next]_vars
    PROVE  IInv'
<1>1. ASSUME NEW d \in Days, NEW g \in Groups, Arrive(d, g) PROVE IInv'
  BY <1>1, ArriveOK
<1>2. CASE Midnight
  BY <1>2, MidnightOK
<1>3. ASSUME NEW j \in Runners, Upsert(j) PROVE IInv'
  BY <1>3, UpsertOK
<1>4. ASSUME NEW j \in Runners, Commit(j) PROVE IInv'
  <2>1. faults' \in 0..MaxFaults
    BY <1>4 DEF Commit, IInv, Stored
  <2> QED BY <1>4, <2>1, CommitOK DEF Commit
<1>5. ASSUME NEW j \in Runners, DeadlockAbort(j) PROVE IInv'
  <2>1. faults' \in 0..MaxFaults
    BY <1>5 DEF DeadlockAbort, IInv, Stored
  <2> QED BY <1>5, <2>1, AbandonOK DEF DeadlockAbort
<1>6. ASSUME NEW j \in Runners, Fails(j) PROVE IInv'
  BY <1>6, FailsOK
<1>7. ASSUME NEW j \in DailyRunners, StartDaily(j) PROVE IInv'
  <2>1. today - 1 \in Days /\ today - 1 <= today - 1 /\ j \in Runners
    BY <1>7, BoundAssumption DEF StartDaily, IInv, Stored, Days, Runners
  <2> QED BY <1>7, <2>1, StartOK DEF StartDaily
<1>8. ASSUME NEW j \in DailyRunners, StartBackfill(j) PROVE IInv'
  BY <1>8, StartOK DEF StartBackfill, Runners
<1>9. ASSUME NEW j \in MonthlyRunners, StartMonthly(j) PROVE IInv'
  <2>1. 1 \in Days /\ LastDay \in Days /\ 1 <= LastDay /\ j \in Runners
    BY BoundAssumption DEF Days, Runners
  <2> QED BY <1>9, <2>1, StartOK DEF StartMonthly
<1>10. ASSUME NEW j \in DailyRunners, SelectDay(j) PROVE IInv'
  BY <1>10, SelectDayOK
<1>11. ASSUME NEW j \in MonthlyRunners, SelectMonth(j) PROVE IInv'
  BY <1>11, SelectMonthOK
<1>12. CASE UNCHANGED vars
  BY <1>12 DEF vars, IInv, Stored, NeverOvercounts, DailySnapshot, Domains, RunOK,
               NotAhead, Whole
<1>13. DailyRunners \subseteq Runners /\ MonthlyRunners \subseteq Runners
  BY DEF Runners
<1> QED
  BY <1>1, <1>2, <1>3, <1>4, <1>5, <1>6, <1>7, <1>8, <1>9, <1>10, <1>11, <1>12,
     <1>13 DEF Next, DailyRun, MonthlyRun

LEMMA Inductive == Spec => []IInv
<1>1. Init => IInv
  BY InitOK
<1>2. IInv /\ [Next]_vars => IInv'
  BY NextOK
<1> QED BY <1>1, <1>2, PTL DEF Spec

-----------------------------------------------------------------------------
(* The theorems.                                                           *)

\* A backfill stays inside its range, a run upserts only rows of its own
\* table that it read, and every variable keeps its type.
THEOREM TypesHold == Spec => []TypeOK
<1>1. IInv => TypeOK
  <2> SUFFICES ASSUME IInv PROVE TypeOK
    OBVIOUS
  <2>1. Stored /\ Domains
    BY DEF IInv
  <2>2. ASSUME NEW j \in Runners
        PROVE  /\ current[j] \in 1..endDate[j]
               /\ endDate[j] \in Days
               /\ upserted[j] \in 0..Len(todo[j])
               /\ \A i \in 1..Len(todo[j]) :
                     /\ todo[j][i].row \in IF j \in DailyRunners THEN Groups
                                           ELSE Accounts
                     /\ todo[j][i].total \in Nat \ {0}
    <3>1. RunOK(j)
      BY DEF IInv
    <3>2. current[j] \in Days /\ endDate[j] \in Days /\ upserted[j] \in Nat
          /\ todo[j] \in Seq(Row)
      BY <2>1 DEF Domains
    <3>3. \A i \in 1..Len(todo[j]) : todo[j][i] \in Row
      BY <3>2, SequenceItems
    <3>4. Len(todo[j]) \in Nat
      BY <3>2, SequenceItems
    <3>5. current[j] \in 1..endDate[j] /\ upserted[j] \in 0..Len(todo[j])
      BY <3>1, <3>2, <3>4, BoundAssumption DEF RunOK, Days
    <3>6. \A i \in 1..Len(todo[j]) :
             /\ todo[j][i].row \in IF j \in DailyRunners THEN Groups ELSE Accounts
             /\ todo[j][i].total \in Nat \ {0}
      BY <3>1, <3>3 DEF RunOK, RowsFor, Row
    <3> QED BY <3>2, <3>5, <3>6
  <2>3. \A d \in Days : snapshots[d] \subseteq [Groups -> 0..MaxEvents]
    BY <2>1 DEF Stored
  <2> QED BY <2>1, <2>2, <2>3 DEF TypeOK, Stored, Domains
<1> QED BY <1>1, Inductive, PTL

\* However the runs interleave, are repeated, fail or deadlock, no daily or
\* monthly summary exceeds the events there are.
THEOREM NoneCountedTwice == Spec => []NeverOvercounts
<1>1. IInv => NeverOvercounts
  BY DEF IInv, Stored
<1> QED BY <1>1, Inductive, PTL

\* A day's summary, unless an overtaken run wrote it last, is one state that
\* the events of the day were in, all its rows together.
THEOREM SummariesAreSnapshots == Spec => []DailySnapshot
<1>1. IInv => DailySnapshot
  BY DEF IInv, Stored
<1> QED BY <1>1, Inductive, PTL

\* Only the commit of an overtaken run makes a daily summary smaller.
THEOREM OnlyOvertakenShrink == Spec => ShrinksOnlyWhenOvertaken
<1> DEFINE Shrinks == \A d \in Days :
              (\E g \in Groups : daily'[d][g] < daily[d][g]) =>
                 \E j \in DailyRunners :
                    AllUpserted(j) /\ current[j] = d /\ overtaken[j]
<1>1. IInv /\ [Next]_vars => [Shrinks]_vars
  <2> SUFFICES ASSUME IInv, [Next]_vars PROVE Shrinks
    OBVIOUS
  <2>1. CASE \E j \in Runners : AllUpserted(j) /\ Publish(j)
                                /\ today' = today /\ runs' = runs
    <3>0. faults' \in 0..MaxFaults
      BY NextOK DEF IInv, Stored
    <3>1. PICK j \in Runners : AllUpserted(j) /\ Publish(j)
                               /\ today' = today /\ runs' = runs
      BY <2>1
    <3>2. \A d \in Days : (\E g \in Groups : daily'[d][g] < daily[d][g]) =>
             j \in DailyRunners /\ current[j] = d /\ overtaken[j]
      BY <3>0, <3>1, Published
    <3> QED BY <3>1, <3>2
  <2>2. CASE daily' = daily
    <3>1. \A d \in Days, g \in Groups : ~(daily'[d][g] < daily[d][g])
      BY <2>2 DEF IInv, Stored
    <3> QED BY <3>1
  <2>3. daily' = daily \/ \E j \in Runners : AllUpserted(j) /\ Publish(j)
                                             /\ today' = today /\ runs' = runs
    BY DEF Next, Arrive, Midnight, StartDaily, StartBackfill, StartMonthly, Start,
           DailyRun, MonthlyRun, SelectDay, SelectMonth, Select, Upsert, Commit,
           DeadlockAbort, Fails, tables, vars, Runners
  <2> QED BY <2>1, <2>2, <2>3
<1> QED BY <1>1, Inductive, PTL DEF Spec, ShrinksOnlyWhenOvertaken

-----------------------------------------------------------------------------
(* The refinement of Rollup.                                               *)

Listed(t, x) == \E i \in 1..Len(t) : t[i].row = x

\* The totals that the rows t leave in an empty table.
Filled(t, D) ==
    [x \in D |-> IF Listed(t, x) THEN (CHOOSE r \in ToSet(t) : r.row = x).total ELSE 0]

HeldOf(j, d, t) ==
    IF j \in DailyRunners
    THEN [c \in {d} \X {g \in Groups : Filled(t, Groups)[g] > 0} |-> Filled(t, Groups)[c[2]]]
    ELSE [a \in {b \in Accounts : Filled(t, Accounts)[b] > 0} |-> Filled(t, Accounts)[a]]

\* What a run holds depends on its day and its rows only.
LEMMA HeldIs ==
    ASSUME NEW j
    PROVE  /\ Held(j) = HeldOf(j, current[j], todo[j])
           /\ Held(j)' = HeldOf(j, current'[j], todo'[j])
<1>1. /\ Written(j, NoEvents) = Filled(todo[j], Groups)
      /\ Written(j, [a \in Accounts |-> 0]) = Filled(todo[j], Accounts)
  BY DEF Written, NoEvents, Filled, Listed
<1>2. /\ Written(j, NoEvents)' = Filled(todo'[j], Groups)
      /\ Written(j, [a \in Accounts |-> 0])' = Filled(todo'[j], Accounts)
  BY DEF Written, NoEvents, Filled, Listed
<1> QED BY <1>1, <1>2 DEF Held, HeldOf

LEMMA HoldsNothing ==
    ASSUME NEW j, NEW d
    PROVE  HeldOf(j, d, <<>>) = R!Nothing
<1>1. \A D : Filled(<<>>, D) = [x \in D |-> 0]
  BY DEF Filled, Listed
<1> QED BY <1>1 DEF HeldOf, R!Nothing

\* After its SELECT a run holds the positive totals.
LEMMA FilledResult ==
    ASSUME NEW D \in SUBSET (Groups \union Accounts), IsFiniteSet(D),
           NEW totals \in [D -> Nat], NEW rows \in Result(totals)
    PROVE  Filled(rows, D) = totals
<1>1. /\ rows \in Seq(Row)
      /\ \A i \in 1..Len(rows) : rows[i].row \in D
      /\ \A i \in 1..Len(rows) : rows[i].total = totals[rows[i].row]
      /\ \A x \in D : totals[x] > 0 => \E i \in 1..Len(rows) : rows[i].row = x
  BY ResultRows
<1>2. \A r : r \in ToSet(rows) <=> \E i \in 1..Len(rows) : r = rows[i]
  BY <1>1, ToSetMembers
<1>3. ASSUME NEW x \in D
      PROVE  Filled(rows, D)[x] = totals[x]
  <2>1. CASE Listed(rows, x)
    <3> DEFINE r == CHOOSE r \in ToSet(rows) : r.row = x
    <3>1. \E q \in ToSet(rows) : q.row = x
      BY <1>2, <2>1 DEF Listed
    <3>2. r \in ToSet(rows) /\ r.row = x
      BY <3>1
    <3>3. Filled(rows, D)[x] = r.total
      BY <2>1 DEF Filled
    <3> HIDE DEF r
    <3> QED BY <1>1, <1>2, <3>2, <3>3
  <2>2. CASE ~Listed(rows, x)
    <3>1. totals[x] = 0
      BY <1>1, <2>2 DEF Listed
    <3> QED BY <2>2, <3>1 DEF Filled
  <2> QED BY <2>1, <2>2
<1> QED BY <1>3 DEF Filled

AllHeld == [j \in Runners |-> Held(j)]

\* What the runs hold changes where their day or rows do.
LEMMA HeldMoves ==
    ASSUME NEW j \in Runners, NEW h, HeldOf(j, current'[j], todo'[j]) = h,
           \A k \in Runners \ {j} : current'[k] = current[k] /\ todo'[k] = todo[k]
    PROVE  AllHeld' = [AllHeld EXCEPT ![j] = h]
<1>1. \A k \in Runners : Held(k)' = IF k = j THEN h ELSE Held(k)
  BY HeldIs
<1>2. AllHeld' = [k \in Runners |-> Held(k)']
  BY DEF AllHeld, Runners
<1> QED BY <1>1, <1>2 DEF AllHeld

LEMMA HeldStays ==
    ASSUME \A k \in Runners : todo'[k] = todo[k],
           \A k \in Runners : todo[k] = <<>> \/ current'[k] = current[k]
    PROVE  AllHeld' = AllHeld
<1>1. \A k \in Runners : Held(k)' = Held(k)
  BY HeldIs, HoldsNothing
<1> QED BY <1>1 DEF AllHeld, Runners

\* A transaction that ends takes its rows along.
LEMMA HeldGone ==
    ASSUME Domains, NEW j \in Runners, NextDay(j) \/ Abandon(j)
    PROVE  /\ AllHeld' = [AllHeld EXCEPT ![j] = R!Nothing]
           /\ todo[j] = <<>> => AllHeld' = AllHeld
<1>1. /\ todo' = [todo EXCEPT ![j] = <<>>]
      /\ \A k \in Runners \ {j} : current'[k] = current[k]
  BY DEF NextDay, Abandon, Domains
<1>2. todo'[j] = <<>> /\ \A k \in Runners \ {j} : todo'[k] = todo[k]
  BY <1>1 DEF Domains
<1>3. AllHeld' = [AllHeld EXCEPT ![j] = R!Nothing]
  BY <1>1, <1>2, HoldsNothing, HeldMoves
<1>4. todo[j] = <<>> => AllHeld' = AllHeld
  BY <1>1, <1>2, HeldStays
<1> QED BY <1>3, <1>4

\* The variables of Rollup, and its steps, in those of Aggregation.
LEMMA MappedVars ==
    /\ R!vars = <<Table(raw), Table(daily), monthly, AllHeld>>
    /\ R!vars' = <<Table(raw)', Table(daily)', monthly', AllHeld'>>
    /\ R!Runs = Runners
  BY DEF R!vars, AllHeld, R!Runs, Runners

LEMMA ArriveMaps ==
    ASSUME IInv, NEW d \in Days, NEW g \in Groups, Arrive(d, g)
    PROVE  R!Arrive(<<d, g>>)
<1>1. raw \in [Days -> [Groups -> 0..MaxEvents]]
  BY DEF IInv, Stored
<1>2. raw' = [raw EXCEPT ![d][g] = @ + 1] /\ UNCHANGED <<daily, monthly, todo, current>>
  BY DEF Arrive, progress
<1>3. AllHeld' = AllHeld
  BY <1>2, HeldStays
<1>4. Table(raw)' = [Table(raw) EXCEPT ![<<d, g>>] = @ + 1]
  <2>1. ASSUME NEW c \in Days \X Groups
        PROVE  raw'[c[1]][c[2]] = IF c = <<d, g>> THEN raw[d][g] + 1 ELSE raw[c[1]][c[2]]
    BY <1>1, <1>2
  <2>2. Table(raw) = [c \in Days \X Groups |-> raw[c[1]][c[2]]]
        /\ Table(raw)' = [c \in Days \X Groups |-> raw'[c[1]][c[2]]]
    BY DEF Table
  <2>3. \A c \in Days \X Groups :
           Table(raw)'[c] = IF c = <<d, g>> THEN Table(raw)[<<d, g>>] + 1 ELSE Table(raw)[c]
    BY <2>1, <2>2
  <2>4. DOMAIN Table(raw) = Days \X Groups /\ DOMAIN Table(raw)' = Days \X Groups
        /\ Table(raw) = [c \in Days \X Groups |-> Table(raw)[c]]
        /\ Table(raw)' = [c \in Days \X Groups |-> Table(raw)'[c]]
    BY <2>2
  <2> QED BY <2>3, <2>4
<1>5. Table(daily)' = Table(daily)
  BY <1>2 DEF Table
<1> QED BY <1>2, <1>3, <1>4, <1>5 DEF R!Arrive, AllHeld

\* Starting a run, an upsert and the passing of a day are no steps of Rollup.
LEMMA SilentSteps ==
    ASSUME IInv,
           \/ UNCHANGED vars \/ Midnight
           \/ \E j \in Runners : Upsert(j) \/ \E from, to : Start(j, from, to)
    PROVE  UNCHANGED R!vars
<1>1. UNCHANGED <<raw, daily, monthly, todo>>
  BY DEF vars, Midnight, Upsert, Start, tables, progress
<1>2. \A k \in Runners : todo[k] = <<>> \/ current'[k] = current[k]
  <2>1. CASE UNCHANGED current
    BY <2>1
  <2>2. CASE \E j \in Runners : \E from, to : Start(j, from, to)
    BY <2>2 DEF Start, IInv, Domains, RunOK
  <2> QED BY <2>1, <2>2 DEF vars, Midnight, Upsert, progress
<1>3. AllHeld' = AllHeld
  BY <1>1, <1>2, HeldStays
<1> QED BY <1>1, <1>3, MappedVars DEF Table

LEMMA AbandonMaps ==
    ASSUME IInv, NEW j \in Runners, Abandon(j), UNCHANGED tables
    PROVE  R!Drop({j})
<1>1. AllHeld' = [AllHeld EXCEPT ![j] = R!Nothing]
  BY HeldGone DEF IInv
<1>2. AllHeld' = [k \in Runners |-> IF k \in {j} THEN R!Nothing ELSE AllHeld[k]]
  BY <1>1 DEF AllHeld
<1> QED BY <1>2, MappedVars DEF R!Drop, tables, Table, AllHeld

\* The SELECT of a run that goes on with the rows of all positive totals.
LEMMA SelectHolds ==
    ASSUME IInv, NEW j \in Runners, NEW totals \in [RowsFor(j) -> Nat], Select(j, totals)
    PROVE  /\ UNCHANGED <<raw, daily, monthly>>
           /\ \/ AllHeld' = AllHeld
              \/ AllHeld' = [AllHeld EXCEPT ![j] =
                    IF j \in DailyRunners
                    THEN [c \in {current[j]} \X {g \in Groups : totals[g] > 0} |-> totals[c[2]]]
                    ELSE [a \in {b \in Accounts : totals[b] > 0} |-> totals[a]]]
<1>1. UNCHANGED <<raw, daily, monthly>> /\ stage[j] = "select"
  BY DEF Select, tables
<1>2. Domains /\ todo[j] = <<>>
  BY <1>1 DEF IInv, RunOK
<1>3. CASE NextDay(j)
  BY <1>1, <1>2, <1>3, HeldGone
<1>4. CASE /\ \E rows \in Result(totals) : todo' = [todo EXCEPT ![j] = rows]
           /\ current' = current
  <2>1. PICK rows \in Result(totals) : todo' = [todo EXCEPT ![j] = rows]
    BY <1>4
  <2>2. /\ RowsFor(j) \in SUBSET (Groups \union Accounts)
        /\ IsFiniteSet(RowsFor(j))
    BY GroupAssumption, AccountsFinite DEF RowsFor
  <2>3. Filled(rows, RowsFor(j)) = totals
    BY <2>1, <2>2, FilledResult
  <2>4. todo'[j] = rows /\ \A k \in Runners \ {j} : todo'[k] = todo[k]
    BY <1>2, <2>1 DEF Domains
  <2>5. HeldOf(j, current'[j], todo'[j]) =
            IF j \in DailyRunners
            THEN [c \in {current[j]} \X {g \in Groups : totals[g] > 0} |-> totals[c[2]]]
            ELSE [a \in {b \in Accounts : totals[b] > 0} |-> totals[a]]
    BY <1>4, <2>3, <2>4 DEF HeldOf, RowsFor
  <2> QED BY <1>1, <1>4, <2>4, <2>5, HeldMoves
<1> QED BY <1>3, <1>4 DEF Select

LEMMA SelectDayMaps ==
    ASSUME IInv, NEW j \in DailyRunners, SelectDay(j)
    PROVE  R!Read(j) \/ UNCHANGED R!vars
<1> DEFINE d == current[j]
           scope == {d} \X Groups
<1>1. d \in Days /\ j \in Runners /\ RowsFor(j) = Groups
  BY DEF IInv, Domains, Runners, RowsFor
<1>2. raw[d] \in [Groups -> Nat]
  BY <1>1, BoundAssumption DEF IInv, Stored
<1>3. /\ UNCHANGED <<raw, daily, monthly>>
      /\ \/ AllHeld' = AllHeld
         \/ AllHeld' = [AllHeld EXCEPT ![j] =
               [c \in {d} \X {g \in Groups : raw[d][g] > 0} |-> raw[d][c[2]]]]
  BY <1>1, <1>2, SelectHolds DEF SelectDay
<1>4. R!Rows(Table(raw), scope) =
          [c \in {d} \X {g \in Groups : raw[d][g] > 0} |-> raw[d][c[2]]]
  <2>1. \A c \in scope : Table(raw)[c] = raw[d][c[2]]
    BY <1>1 DEF Table
  <2>2. {c \in scope : Table(raw)[c] > 0} = {d} \X {g \in Groups : raw[d][g] > 0}
    BY <2>1
  <2> QED BY <2>1, <2>2 DEF R!Rows
<1>5. CASE AllHeld' = AllHeld
  BY <1>3, <1>5, MappedVars DEF Table
<1>6. CASE AllHeld' = [AllHeld EXCEPT ![j] = R!Rows(Table(raw), scope)]
  <2>1. scope \in {{e} \X Groups : e \in Days}
    BY <1>1
  <2>2. Table(raw)' = Table(raw) /\ Table(daily)' = Table(daily) /\ monthly' = monthly
    BY <1>3 DEF Table
  <2> HIDE DEF scope
  <2> QED BY <1>6, <2>1, <2>2 DEF R!Read, AllHeld
<1> QED BY <1>3, <1>4, <1>5, <1>6

LEMMA SameSum == \A f, S : R!SumFunctionOnSet(f, S) = SumFunctionOnSet(f, S)
  BY Zenon DEF R!SumFunctionOnSet, R!FoldFunctionOnSet, R!MapThenFoldSet,
               SumFunctionOnSet, FoldFunctionOnSet, MapThenFoldSet

LEMMA SelectMonthMaps ==
    ASSUME IInv, NEW j \in MonthlyRunners, SelectMonth(j)
    PROVE  R!Read(j) \/ UNCHANGED R!vars
<1>1. j \in Runners /\ j \notin DailyRunners /\ RowsFor(j) = Accounts
  BY RunnerAssumption DEF Runners, RowsFor
<1>2. daily \in [Days -> [Groups -> Nat]]
  BY DEF IInv, Stored
<1>3. MonthTotals \in [Accounts -> Nat]
  <2>1. \A a \in Accounts : MonthSum(daily, GroupsOf(a)) \in Nat
    <3> TAKE a \in Accounts
    <3>1. GroupsOf(a) \in SUBSET Groups
      BY DEF GroupsOf
    <3>2. \A d \in Days, g \in Groups : daily[d][g] <= daily[d][g]
      BY <1>2
    <3> QED BY <1>2, <3>1, <3>2, MonthSumGrows
  <2> QED BY <2>1 DEF MonthTotals, GroupsOf
<1>4. MonthTotals = R!Bill
  BY SameSum DEF MonthTotals, MonthSum, R!Bill, Table
<1> DEFINE totals == MonthTotals
<1>5. Select(j, totals)
  BY DEF SelectMonth
<1> HIDE DEF totals
<1>6. /\ UNCHANGED <<raw, daily, monthly>>
      /\ \/ AllHeld' = AllHeld
         \/ AllHeld' = [AllHeld EXCEPT ![j] =
               [a \in {b \in Accounts : totals[b] > 0} |-> totals[a]]]
  BY <1>1, <1>3, <1>5, SelectHolds DEF totals
<1>7. CASE AllHeld' = AllHeld
  BY <1>6, <1>7, MappedVars DEF Table
<1>8. CASE AllHeld' = [AllHeld EXCEPT ![j] = R!Rows(totals, Accounts)]
  <2>1. Table(raw)' = Table(raw) /\ Table(daily)' = Table(daily) /\ monthly' = monthly
    BY <1>6 DEF Table
  <2> QED BY <1>4, <1>8, <2>1 DEF R!Read, AllHeld, totals
<1> QED BY <1>6, <1>7, <1>8 DEF R!Rows

\* What is written of a row that a run holds, and of one that it does not.
LEMMA WrittenIsHeld ==
    ASSUME Domains, NEW j \in Runners, NEW D, NEW totals \in [D -> Nat],
           \A i \in 1..Len(todo[j]) : todo[j][i].total > 0
    PROVE  Written(j, totals) =
               [x \in D |-> IF Filled(todo[j], D)[x] > 0 THEN Filled(todo[j], D)[x]
                            ELSE totals[x]]
<1>1. \A r : r \in ToSet(todo[j]) <=> \E i \in 1..Len(todo[j]) : r = todo[j][i]
  BY ToSetMembers DEF Domains
<1>2. ASSUME NEW x \in D, Listed(todo[j], x)
      PROVE  (CHOOSE r \in ToSet(todo[j]) : r.row = x).total > 0
  <2>1. \E r \in ToSet(todo[j]) : r.row = x
    BY <1>1, <1>2 DEF Listed
  <2> DEFINE r == CHOOSE r \in ToSet(todo[j]) : r.row = x
  <2>2. r \in ToSet(todo[j])
    BY <2>1
  <2> HIDE DEF r
  <2>3. r.total > 0
    BY <1>1, <2>2
  <2> QED BY <2>3 DEF r
<1> QED BY <1>2 DEF Written, Filled, Listed

LEMMA CommitMaps ==
    ASSUME IInv, NEW j \in Runners, AllUpserted(j), Publish(j),
           NextDay(j) \/ Abandon(j)
    PROVE  R!Write(j)
<1>1. Domains /\ AllHeld' = [AllHeld EXCEPT ![j] = R!Nothing]
  BY HeldGone DEF IInv
<1>2. /\ daily \in [Days -> [Groups -> Nat]] /\ monthly \in [Accounts -> Nat]
      /\ current[j] \in Days
  BY <1>1 DEF IInv, Stored, Domains
<1>3. \A i \in 1..Len(todo[j]) : todo[j][i].total > 0
  <2>1. \A i \in 1..Len(todo[j]) : todo[j][i] \in Row
    BY <1>1, SequenceItems DEF Domains
  <2> QED BY <2>1 DEF Row
<1>4. Held(j) = HeldOf(j, current[j], todo[j])
  BY HeldIs
<1>5. CASE j \in DailyRunners
  <2> DEFINE d == current[j]
             fill == Filled(todo[j], Groups)
  <2>1. daily' = [daily EXCEPT ![d] = Written(j, daily[d])] /\ monthly' = monthly
    BY <1>5 DEF Publish
  <2>2. Written(j, daily[d]) =
            [g \in Groups |-> IF fill[g] > 0 THEN fill[g] ELSE daily[d][g]]
    <3>1. daily[d] \in [Groups -> Nat]
      BY <1>2
    <3> QED BY <1>1, <1>3, <3>1, WrittenIsHeld
  <2>3. Held(j) = [c \in {d} \X {g \in Groups : fill[g] > 0} |-> fill[c[2]]]
    BY <1>4, <1>5 DEF HeldOf
  <2> HIDE DEF fill
  <2>4. ASSUME NEW c \in Days \X Groups
        PROVE  daily'[c[1]][c[2]] =
                   IF c \in DOMAIN Held(j) THEN Held(j)[c] ELSE daily[c[1]][c[2]]
    <3>1. CASE c[1] = d
      <4>1. c = <<d, c[2]>> /\ c[2] \in Groups
        BY <3>1
      <4>2. daily'[d][c[2]] = IF fill[c[2]] > 0 THEN fill[c[2]] ELSE daily[d][c[2]]
        BY <1>2, <2>1, <2>2, <4>1
      <4>3. c \in DOMAIN Held(j) <=> fill[c[2]] > 0
        BY <2>3, <4>1
      <4>4. c \in DOMAIN Held(j) => Held(j)[c] = fill[c[2]]
        BY <2>3
      <4> QED BY <3>1, <4>2, <4>3, <4>4
    <3>2. CASE c[1] # d
      <4>1. c \notin DOMAIN Held(j)
        BY <2>3, <3>2
      <4>2. daily'[c[1]] = daily[c[1]]
        BY <1>2, <2>1, <3>2
      <4> QED BY <4>1, <4>2
    <3> QED BY <3>1, <3>2
  <2>5. Table(daily)' = R!Replaced(Table(daily), Held(j))
    <3>1. Table(daily) = [c \in Days \X Groups |-> daily[c[1]][c[2]]]
          /\ Table(daily)' = [c \in Days \X Groups |-> daily'[c[1]][c[2]]]
      BY DEF Table
    <3> QED BY <2>4, <3>1 DEF R!Replaced
  <2>6. j \notin MonthlyRunners /\ AllHeld[j] = Held(j)
    BY <1>5, RunnerAssumption DEF AllHeld
  <2>7. Table(raw)' = Table(raw)
    BY DEF Publish, Table
  <2> HIDE DEF d
  <2> QED BY <1>1, <1>5, <2>1, <2>5, <2>6, <2>7 DEF R!Write, AllHeld
<1>6. CASE j \notin DailyRunners
  <2> DEFINE fill == Filled(todo[j], Accounts)
  <2>1. monthly' = Written(j, monthly) /\ daily' = daily
    BY <1>6 DEF Publish
  <2>2. Written(j, monthly) =
            [a \in Accounts |-> IF fill[a] > 0 THEN fill[a] ELSE monthly[a]]
    BY <1>1, <1>2, <1>3, WrittenIsHeld
  <2>3. Held(j) = [a \in {b \in Accounts : fill[b] > 0} |-> fill[a]]
    BY <1>4, <1>6 DEF HeldOf
  <2> HIDE DEF fill
  <2>4. monthly' = R!Replaced(monthly, Held(j))
    BY <1>2, <2>1, <2>2, <2>3 DEF R!Replaced
  <2>5. j \in MonthlyRunners /\ AllHeld[j] = Held(j)
    BY <1>6 DEF AllHeld, Runners
  <2>6. Table(raw)' = Table(raw) /\ Table(daily)' = Table(daily)
    BY <2>1 DEF Publish, Table
  <2> QED BY <1>1, <1>6, <2>4, <2>5, <2>6 DEF R!Write, AllHeld
<1> QED BY <1>5, <1>6

LEMMA MapsToRollup ==
    ASSUME IInv, [Next]_vars
    PROVE  [R!Next]_(R!vars)
<1>1. DailyRunners \subseteq Runners /\ MonthlyRunners \subseteq Runners
      /\ R!Runs = Runners
  BY MappedVars DEF Runners
<1>2. ASSUME NEW d \in Days, NEW g \in Groups, Arrive(d, g)
      PROVE  R!Next
  BY <1>2, ArriveMaps DEF R!Next
<1>3. CASE \/ UNCHANGED vars \/ Midnight
           \/ \E j \in Runners : Upsert(j) \/ \E from, to : Start(j, from, to)
  BY <1>3, SilentSteps
<1>4. ASSUME NEW j \in DailyRunners, SelectDay(j)
      PROVE  R!Next \/ UNCHANGED R!vars
  BY <1>1, <1>4, SelectDayMaps DEF R!Next
<1>5. ASSUME NEW j \in MonthlyRunners, SelectMonth(j)
      PROVE  R!Next \/ UNCHANGED R!vars
  BY <1>1, <1>5, SelectMonthMaps DEF R!Next
<1>6. ASSUME NEW j \in Runners, AllUpserted(j), Publish(j), NextDay(j) \/ Abandon(j)
      PROVE  R!Next
  BY <1>1, <1>6, CommitMaps DEF R!Next
<1>7. ASSUME NEW j \in Runners, Abandon(j), UNCHANGED tables
      PROVE  R!Next
  <2>1. {j} \in SUBSET R!Runs
    BY <1>1
  <2> QED BY <1>7, <2>1, AbandonMaps DEF R!Next
<1>8. ASSUME NEW j \in Runners, Commit(j) \/ DeadlockAbort(j) \/ Fails(j)
      PROVE  R!Next
  BY <1>6, <1>7, <1>8 DEF Commit, DeadlockAbort, Fails
<1> QED
  BY <1>1, <1>2, <1>3, <1>4, <1>5, <1>8
     DEF Next, DailyRun, MonthlyRun, StartDaily, StartBackfill, StartMonthly

LEMMA InitMaps == Init => R!Init
<1> SUFFICES ASSUME Init PROVE R!Init
  OBVIOUS
<1>1. Table(raw) = [c \in Days \X Groups |-> 0] /\ Table(daily) = [c \in Days \X Groups |-> 0]
  BY DEF Init, Table, NoEvents
<1>2. AllHeld = [j \in Runners |-> R!Nothing]
  <2>1. ASSUME NEW j \in Runners PROVE Held(j) = R!Nothing
    BY HeldIs, HoldsNothing DEF Init
  <2> QED BY <2>1 DEF AllHeld
<1> QED BY <1>1, <1>2, MappedVars DEF Init, R!Init, AllHeld

\* In whatever order the rows are locked and upserted, and whichever run waits,
\* fails or is aborted: each run reads its day or month at one moment and
\* writes all of it at once, or nothing.
THEOREM RunsAreAtomic == Spec => RollsUp
<1>1. Init => R!Init
  BY InitMaps
<1>2. IInv /\ [Next]_vars => [R!Next]_(R!vars)
  BY MapsToRollup
<1> QED BY <1>1, <1>2, Inductive, PTL DEF Spec, RollsUp, R!Spec
=============================================================================
