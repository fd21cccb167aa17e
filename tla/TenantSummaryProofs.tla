------------------------ MODULE TenantSummaryProofs ------------------------
(***************************************************************************)
(* Proofs about Pricing and TenantSummary: for any price lists, processes, *)
(* events and readers, what is listed is what is charged, a reload holds   *)
(* for every later event of its process, and the parts of a summary differ *)
(* from its total in one direction only.                                   *)
(***************************************************************************)
EXTENDS TenantSummary, DataLemmas, TLAPS

-----------------------------------------------------------------------------
(* The inductive invariant.                                                *)

\* What _pricing_data of a process may be.
Loadable == PriceLists \union {BuiltIn, [kind |-> "empty"]}

PricingTypes ==
    /\ file \in Files
    /\ loaded \in [Processes -> Loadable \union {Unloaded}]
    /\ readings \in [Processes -> SUBSET Loadable]
    /\ \A p \in Processes : loaded[p] # Unloaded => loaded[p] \in readings[p]
    /\ stage \in [Requests -> {"new", "priced", "stored", "refused"}]
    /\ handling \in [Processes -> SUBSET Requests]
    /\ \A p \in Processes : \A r \in handling[p] : stage[r] = "priced"
    /\ \A p, o \in Processes : \A r \in handling[p] : r \in handling[o] => p = o
    /\ cost \in [Requests -> Nat]
    /\ edits \in 0..MaxEdits

Totals == [requests : Nat, cost : Nat]

SummaryTypes ==
    /\ selected \in [Readers -> 0..Len(Columns) + 1]
    /\ total \in [Readers -> Totals]
    /\ parts = [q \in Readers |-> [c \in ToSet(Columns) |-> parts[q][c]]]

\* What the tenant of a reader has stored by now.
Now(q) == Aggregate(RowsOf(TenantOf[q]))

\* What the i-th SELECT of a reader added up to: the total, or a breakdown;
\* one that it has not done would return at least what is stored now.
Seen(q, i) ==
    IF i > selected[q] THEN Now(q)
    ELSE IF i = 1 THEN total[q] ELSE Sum(parts[q][Columns[i - 1]])

\* Each SELECT of a reader saw at least what the one before it saw.
Ascending(q) ==
    /\ \A i \in 1..selected[q] : Seen(q, i) \in Totals
    /\ \A i \in 1..selected[q] : AtMost(Seen(q, i), Seen(q, i + 1))

IInv == PricingTypes /\ SummaryTypes /\ \A q \in Readers : Ascending(q)

-----------------------------------------------------------------------------
(* The price of an event.                                                  *)

LEMMA PriceListFacts ==
    ASSUME NEW c \in PriceLists, NEW v \in Providers
    PROVE  /\ c.kind = "list"
           /\ Len(c.prices[v]) \in Nat /\ DOMAIN c.prices[v] = 1..Len(c.prices[v])
           /\ \A i \in 1..Len(c.prices[v]) : c.prices[v][i].price \in Nat
           /\ c.default[v] \in Nat
           /\ \A i, j \in 1..Len(c.prices[v]) :
                 c.prices[v][i].key = c.prices[v][j].key => i = j
<1> DEFINE s == c.prices[v]
           S == ToSet(s)
<1>1. /\ c.kind = "list" /\ s \in Seq(S) /\ \A entry \in S : entry.price \in Nat
      /\ c.default[v] \in Nat /\ IsInjective([i \in DOMAIN s |-> s[i].key])
  BY PriceListAssumption
<1> HIDE DEF S, s
<1>2. Len(s) \in Nat /\ DOMAIN s = 1..Len(s) /\ \A i \in 1..Len(s) : s[i] \in S
  BY <1>1, SequenceItems
<1>3. \A i, j \in 1..Len(s) : s[i].key = s[j].key => i = j
  BY <1>1, <1>2 DEF IsInjective
<1> QED BY <1>1, <1>2, <1>3 DEF s

\* An entry is found by its own name, wherever it stands in the list.
LEMMA ListedPrice ==
    ASSUME NEW c \in PriceLists, NEW v \in Providers,
           NEW entry \in ProviderModels(c, v)
    PROVE  GetModelPricing(c, v, entry.key) = entry.price
<1> DEFINE s == c.prices[v]
           I == {i \in 1..Len(s) : s[i].key = entry.key}
<1>1. PICK n \in 1..Len(s) : s[n] = entry
  BY PriceListFacts DEF ProviderModels
<1>2. I = {n}
  BY <1>1, PriceListFacts
<1>3. I \in SUBSET Nat /\ I # {}
  BY <1>2, PriceListFacts
<1>4. Min(I) = n /\ n # 0
  <2> HIDE DEF I
  <2>1. Min(I) \in I
    BY <1>3, LeastNatural
  <2> QED BY <1>1, <1>2, <2>1, PriceListFacts
<1>5. SelectInSeq(s, LAMBDA e : e.key = entry.key) = n
  BY <1>3, <1>4 DEF SelectInSeq
<1> HIDE DEF I
<1> QED BY <1>1, <1>4, <1>5 DEF GetModelPricing

\* A list has a price for every name, which is a number.
LEMMA PriceIsNatural ==
    ASSUME NEW c \in PriceLists, NEW v \in Providers, NEW model
    PROVE  GetModelPricing(c, v, model) \in Nat
<1> DEFINE s == c.prices[v]
           X == {i \in 1..Len(s) : s[i].key = model}
           I == {i \in 1..Len(s) : IsPrefix(s[i].key, model) \/ IsPrefix(model, s[i].key)}
           exact == SelectInSeq(s, LAMBDA e : e.key = model)
           related == SelectInSeq(s, LAMBDA e : IsPrefix(e.key, model)
                                                \/ IsPrefix(model, e.key))
<1>1. exact = IF X # {} THEN Min(X) ELSE 0
  BY DEF SelectInSeq
<1>2. related = IF I # {} THEN Min(I) ELSE 0
  BY DEF SelectInSeq
<1>3. X \in SUBSET (1..Len(s)) /\ I \in SUBSET (1..Len(s)) /\ Len(s) \in Nat
  BY PriceListFacts
<1>4. GetModelPricing(c, v, model) =
         IF exact # 0 THEN s[exact].price
         ELSE IF related # 0 THEN s[related].price ELSE c.default[v]
  BY DEF GetModelPricing
<1> HIDE DEF X, I, exact, related
<1>5. exact \in 0..Len(s) /\ related \in 0..Len(s)
  <2>1. X # {} => Min(X) \in X
    BY <1>3, LeastNatural
  <2>2. I # {} => Min(I) \in I
    BY <1>3, LeastNatural
  <2> HIDE DEF s
  <2>3. exact \in 0..Len(s)
    <3>1. CASE X = {}
      BY <1>1, <1>3, <3>1
    <3>2. CASE X # {}
      <4>1. Min(X) \in 1..Len(s)
        BY <1>3, <2>1, <3>2
      <4> QED BY <1>1, <1>3, <3>2, <4>1
    <3> QED BY <3>1, <3>2
  <2>4. related \in 0..Len(s)
    <3>1. CASE I = {}
      BY <1>2, <1>3, <3>1
    <3>2. CASE I # {}
      <4>1. Min(I) \in 1..Len(s)
        BY <1>3, <2>2, <3>2
      <4> QED BY <1>2, <1>3, <3>2, <4>1
    <3> QED BY <3>1, <3>2
  <2> QED BY <2>3, <2>4
<1> QED BY <1>3, <1>4, <1>5, PriceListFacts

LEMMA CostIsNatural ==
    ASSUME NEW c \in Loadable, c.kind = "list", NEW r \in Requests
    PROVE  CalculateCost(c, Event[r]) \in Nat
<1> DEFINE v == Event[r].provider
           price == GetModelPricing(c, v, Event[r].model)
           rest == 100 - c.discount[Event[r].tenant]
<1>1. v \in Providers /\ Event[r].tokens \in Nat
  BY EventAssumption
<1>2. price \in Nat /\ rest \in Nat
  <2>1. CASE c \in PriceLists
    <3>1. c.discount[Event[r].tenant] \in 0..100
      BY <2>1, PriceListAssumption
    <3> QED BY <1>1, <2>1, <3>1, PriceIsNatural
  <2>2. CASE c = BuiltIn
    <3> DEFINE s == c.prices[v]
    <3>1. s = <<>> /\ c.default[v] = BuiltInPrice[v]
          /\ c.discount[Event[r].tenant] = 0
      BY <1>1, <2>2 DEF BuiltIn, Tenants
    <3>2. {i \in 1..Len(s) : s[i].key = Event[r].model} = {}
          /\ {i \in 1..Len(s) : IsPrefix(s[i].key, Event[r].model)
                                \/ IsPrefix(Event[r].model, s[i].key)} = {}
      BY <3>1
    <3>3. price = BuiltInPrice[v]
      BY <3>1, <3>2 DEF GetModelPricing, SelectInSeq
    <3> QED BY <1>1, <3>1, <3>3, BuiltInAssumption
  <2> QED BY <2>1, <2>2 DEF Loadable
<1>3. CalculateCost(c, Event[r]) = Event[r].tokens * price * rest
  BY DEF CalculateCost
<1> HIDE DEF price, rest
<1>4. Event[r].tokens * price \in Nat
  BY <1>1, <1>2
<1>5. \A a, b \in Nat : a * b \in Nat
  OBVIOUS
<1> QED BY <1>2, <1>3, <1>4, <1>5

-----------------------------------------------------------------------------
(* The steps of the cost engine.                                           *)

LEMMA LoadIsLoadable == \A f \in Files : Load(f) \in Loadable
  BY PriceListAssumption DEF Files, Load, Loadable

\* What is stored stays, at the cost it has.
StoredStays ==
    /\ Rows \subseteq Rows'
    /\ \A r \in Rows : cost'[r] = cost[r]

\* What a process charges is what one of its current readings says.
Charged ==
    \A p \in Processes : \A r \in handling'[p] \ handling[p] :
        \E c \in readings'[p] :
            c.kind = "list" /\ cost'[r] = CalculateCost(c, Event[r])

LEMMA EditOK ==
    ASSUME PricingTypes, NEW f \in Files, Edit(f)
    PROVE  PricingTypes' /\ StoredStays /\ Charged
<1>1. Load(f) \in Loadable
  BY LoadIsLoadable
<1>2. edits' \in 0..MaxEdits
  BY BoundAssumption DEF Edit, PricingTypes
<1>3. readings' \in [Processes -> SUBSET Loadable]
      /\ \A p \in Processes : readings[p] \subseteq readings'[p]
  BY <1>1 DEF Edit, PricingTypes
<1>4. /\ file' = f /\ loaded' = loaded /\ stage' = stage /\ handling' = handling
      /\ cost' = cost
  BY DEF Edit, events
<1>5. PricingTypes'
  BY <1>2, <1>3, <1>4 DEF PricingTypes, Loadable, BuiltIn, Tenants
<1> QED BY <1>4, <1>5 DEF StoredStays, Rows, Charged

\* Process p reads the file.
LEMMA LoadKeeps ==
    ASSUME PricingTypes, NEW p \in Processes, LoadPricing(p)
    PROVE  /\ loaded' \in [Processes -> Loadable \union {Unloaded}]
           /\ readings' \in [Processes -> SUBSET Loadable]
           /\ \A o \in Processes : loaded'[o] # Unloaded => loaded'[o] \in readings'[o]
<1>1. Load(file) \in Loadable
  BY LoadIsLoadable DEF PricingTypes
<1> QED BY <1>1 DEF LoadPricing, PricingTypes

LEMMA ReloadOK ==
    ASSUME PricingTypes, NEW p \in Processes, Reload(p)
    PROVE  PricingTypes' /\ StoredStays /\ Charged
<1>1. /\ file' = file /\ edits' = edits /\ stage' = stage /\ handling' = handling
      /\ cost' = cost
  BY DEF Reload, events
<1>2. /\ loaded' \in [Processes -> Loadable \union {Unloaded}]
      /\ readings' \in [Processes -> SUBSET Loadable]
      /\ \A o \in Processes : loaded'[o] # Unloaded => loaded'[o] \in readings'[o]
  BY LoadKeeps DEF Reload
<1>3. PricingTypes'
  BY <1>1, <1>2 DEF PricingTypes, Loadable, BuiltIn, Tenants
<1> QED BY <1>1, <1>3 DEF StoredStays, Rows, Charged

LEMMA RestartOK ==
    ASSUME PricingTypes, NEW p \in Processes, Restart(p)
    PROVE  PricingTypes' /\ StoredStays /\ Charged
<1>1. /\ loaded' = [loaded EXCEPT ![p] = Unloaded]
      /\ readings' = [readings EXCEPT ![p] = {}]
      /\ stage' = [r \in Requests |->
                      IF r \in handling[p] THEN "refused" ELSE stage[r]]
      /\ handling' = [handling EXCEPT ![p] = {}]
      /\ file' = file /\ edits' = edits /\ cost' = cost
  BY DEF Restart
<1>2. /\ loaded' \in [Processes -> Loadable \union {Unloaded}]
      /\ readings' \in [Processes -> SUBSET Loadable]
      /\ \A o \in Processes : loaded'[o] # Unloaded => loaded'[o] \in readings'[o]
  BY <1>1 DEF PricingTypes
<1>3. /\ stage' \in [Requests -> {"new", "priced", "stored", "refused"}]
      /\ handling' \in [Processes -> SUBSET Requests]
      /\ \A o \in Processes : handling'[o] \subseteq handling[o]
      /\ \A o \in Processes : \A r \in handling'[o] : stage'[r] = "priced"
      /\ \A q, o \in Processes : \A r \in handling'[q] : r \in handling'[o] => q = o
  <2>1. /\ stage' \in [Requests -> {"new", "priced", "stored", "refused"}]
        /\ handling' \in [Processes -> SUBSET Requests]
    BY <1>1 DEF PricingTypes
  <2>2. \A o \in Processes : handling'[o] \subseteq handling[o]
    BY <1>1 DEF PricingTypes
  <2>3. \A o \in Processes : \A r \in handling'[o] : o # p /\ r \notin handling[p]
    BY <1>1 DEF PricingTypes
  <2>4. \A o \in Processes : \A r \in handling'[o] : stage'[r] = "priced"
    BY <1>1, <2>2, <2>3 DEF PricingTypes
  <2>5. \A q, o \in Processes : \A r \in handling'[q] : r \in handling'[o] => q = o
    BY <2>2 DEF PricingTypes
  <2> QED BY <2>1, <2>2, <2>4, <2>5
<1>4. PricingTypes'
  BY <1>1, <1>2, <1>3 DEF PricingTypes, Loadable, BuiltIn, Tenants
<1>5. StoredStays
  BY <1>1 DEF StoredStays, Rows, PricingTypes
<1> QED BY <1>3, <1>4, <1>5 DEF Charged

LEMMA PriceOK ==
    ASSUME PricingTypes, NEW p \in Processes, NEW r \in Requests, Price(p, r)
    PROVE  PricingTypes' /\ StoredStays /\ Charged
<1> DEFINE data == loaded'[p]
<1>1. /\ loaded' \in [Processes -> Loadable \union {Unloaded}]
      /\ readings' \in [Processes -> SUBSET Loadable]
      /\ \A o \in Processes : loaded'[o] # Unloaded => loaded'[o] \in readings'[o]
  <2>1. CASE LoadPricing(p)
    BY <2>1, LoadKeeps
  <2>2. CASE UNCHANGED <<loaded, readings>>
    BY <2>2 DEF PricingTypes
  <2> QED BY <2>1, <2>2 DEF Price, GetPricingEngine
<1>2. file' = file /\ edits' = edits /\ stage[r] = "new"
  BY DEF Price
<1>3. \A o \in Processes : r \notin handling[o]
  BY <1>2 DEF PricingTypes
<1>4. CASE /\ data.kind = "list"
           /\ cost' = [cost EXCEPT ![r] = CalculateCost(data, Event[r])]
           /\ stage' = [stage EXCEPT ![r] = "priced"]
           /\ handling' = [handling EXCEPT ![p] = @ \union {r}]
  <2>1. data \in Loadable /\ data \in readings'[p]
    <3>1. data \in Loadable \union {Unloaded}
      BY <1>1
    <3>2. data # Unloaded
      BY <1>4 DEF Unloaded
    <3> QED BY <1>1, <3>1, <3>2
  <2>2. CalculateCost(data, Event[r]) \in Nat
    BY <1>4, <2>1, CostIsNatural
  <2>3. cost' \in [Requests -> Nat] /\ cost'[r] = CalculateCost(data, Event[r])
        /\ \A q \in Requests \ {r} : cost'[q] = cost[q]
    BY <1>4, <2>2 DEF PricingTypes
  <2>4. /\ stage' \in [Requests -> {"new", "priced", "stored", "refused"}]
        /\ stage'[r] = "priced"
        /\ \A q \in Requests \ {r} : stage'[q] = stage[q]
    BY <1>4 DEF PricingTypes
  <2>5. /\ handling' \in [Processes -> SUBSET Requests]
        /\ \A o \in Processes : handling'[o] = IF o = p THEN handling[p] \union {r}
                                               ELSE handling[o]
    BY <1>4 DEF PricingTypes
  <2>6. /\ \A o \in Processes : \A q \in handling'[o] : stage'[q] = "priced"
        /\ \A o, s \in Processes : \A q \in handling'[o] : q \in handling'[s] => o = s
    BY <1>3, <2>4, <2>5 DEF PricingTypes
  <2>7. PricingTypes'
    BY <1>1, <1>2, <2>3, <2>4, <2>5, <2>6
       DEF PricingTypes, Loadable, BuiltIn, Tenants
  <2>8. StoredStays
    BY <1>2, <2>3, <2>4 DEF StoredStays, Rows
  <2>9. \A o \in Processes : \A q \in handling'[o] \ handling[o] : o = p /\ q = r
    BY <2>5
  <2> QED BY <1>4, <2>1, <2>3, <2>7, <2>8, <2>9 DEF Charged
<1>5. CASE /\ data.kind = "empty"
           /\ stage' = [stage EXCEPT ![r] = "refused"]
           /\ UNCHANGED <<handling, cost>>
  <2>1. /\ stage' \in [Requests -> {"new", "priced", "stored", "refused"}]
        /\ \A o \in Processes : \A q \in handling[o] : stage'[q] = "priced"
    BY <1>3, <1>5 DEF PricingTypes
  <2>2. PricingTypes'
    BY <1>1, <1>2, <1>5, <2>1 DEF PricingTypes, Loadable, BuiltIn, Tenants
  <2>3. StoredStays
    BY <1>2, <1>5 DEF StoredStays, Rows, PricingTypes
  <2> QED BY <1>5, <2>2, <2>3 DEF Charged
<1> QED BY <1>4, <1>5 DEF Price

LEMMA StoreOK ==
    ASSUME PricingTypes, NEW p \in Processes, NEW r \in Requests, Store(p, r)
    PROVE  PricingTypes' /\ StoredStays /\ Charged
<1>1. /\ r \in handling[p]
      /\ stage' = [stage EXCEPT ![r] = "stored"]
      /\ handling' = [handling EXCEPT ![p] = @ \ {r}]
      /\ file' = file /\ loaded' = loaded /\ readings' = readings
      /\ edits' = edits /\ cost' = cost
  BY DEF Store, engine
<1>2. /\ stage' \in [Requests -> {"new", "priced", "stored", "refused"}]
      /\ handling' \in [Processes -> SUBSET Requests]
      /\ \A o \in Processes : handling'[o] \subseteq handling[o] /\ r \notin handling'[o]
  BY <1>1 DEF PricingTypes
<1>3. /\ \A o \in Processes : \A q \in handling'[o] : stage'[q] = "priced"
      /\ \A s, o \in Processes : \A q \in handling'[s] : q \in handling'[o] => s = o
  <2>1. \A o \in Processes : \A q \in handling'[o] : q \in handling[o] /\ q # r
    BY <1>2
  <2> QED BY <1>1, <2>1 DEF PricingTypes
<1>4. PricingTypes'
  BY <1>1, <1>2, <1>3 DEF PricingTypes, Loadable, BuiltIn, Tenants
<1>5. StoredStays
  BY <1>1 DEF StoredStays, Rows, PricingTypes
<1> QED BY <1>2, <1>4, <1>5 DEF Charged

LEMMA PricingStep ==
    ASSUME PricingTypes, PricingNext
    PROVE  PricingTypes' /\ StoredStays /\ Charged
<1>1. ASSUME NEW p \in Processes, NEW r \in Requests, Store(p, r)
      PROVE  PricingTypes' /\ StoredStays /\ Charged
  BY <1>1, StoreOK
<1> QED BY <1>1, EditOK, ReloadOK, RestartOK, PriceOK DEF PricingNext

LEMMA PricingStutter ==
    ASSUME PricingTypes, UNCHANGED pricingVars
    PROVE  PricingTypes' /\ StoredStays /\ Charged
<1>1. PricingTypes'
  BY DEF pricingVars, PricingTypes, Loadable, BuiltIn, Tenants
<1> QED BY <1>1 DEF pricingVars, StoredStays, Rows, Charged

-----------------------------------------------------------------------------
(* The totals of a summary.                                                *)

LEMMA RowsFinite ==
    ASSUME NEW R \in SUBSET Requests
    PROVE  IsFiniteSet(R)
  BY EventAssumption, FS_Subset

LEMMA AggregateType ==
    ASSUME cost \in [Requests -> Nat], NEW R \in SUBSET Requests
    PROVE  Aggregate(R) \in Totals
<1>1. IsFiniteSet(R)
  BY RowsFinite
<1>2. Cardinality(R) \in Nat
  BY <1>1, FS_CardinalityType
<1>3. \A r \in R : cost[r] \in Nat
  OBVIOUS
<1>4. SumFunctionOnSet(cost, R) \in Nat
  BY <1>1, <1>3, SumRemove
<1> QED BY <1>2, <1>4 DEF Aggregate, Totals

LEMMA AtMostTransitive ==
    ASSUME NEW a \in Totals, NEW b \in Totals, NEW c \in Totals,
           AtMost(a, b), AtMost(b, c)
    PROVE  AtMost(a, c)
  BY DEF AtMost, Totals

\* The rows of a tenant grow, and so does what they add up to.
LEMMA NowGrows ==
    ASSUME PricingTypes, PricingTypes', StoredStays, NEW q \in Readers
    PROVE  /\ Now(q) \in Totals /\ Now(q)' \in Totals
           /\ AtMost(Now(q), Now(q)')
<1> DEFINE R == RowsOf(TenantOf[q])
           S == R'
<1>1. R \subseteq S /\ S \subseteq Requests /\ \A r \in R : cost'[r] = cost[r]
  BY DEF RowsOf, StoredStays, Rows
<1>2. cost \in [Requests -> Nat] /\ cost' \in [Requests -> Nat]
  BY DEF PricingTypes
<1> HIDE DEF R
<1>3. IsFiniteSet(R) /\ IsFiniteSet(S)
  BY <1>1, RowsFinite
<1>4. Cardinality(R) <= Cardinality(S)
  BY <1>1, <1>3, FS_Subset
<1>5. SumFunctionOnSet(cost, R) <= SumFunctionOnSet(cost', S)
  <2>1. \A r \in R : cost[r] \in Nat /\ cost'[r] = cost[r]
    BY <1>1, <1>2
  <2>2. SumFunctionOnSet(cost, R) = SumFunctionOnSet(cost', R)
    BY <1>3, <2>1, SumSame
  <2>3. \A r \in S : cost'[r] \in Nat
    BY <1>1, <1>2
  <2>4. SumFunctionOnSet(cost', R) <= SumFunctionOnSet(cost', S)
    BY <1>1, <1>3, <2>3, SumSubset
  <2> QED BY <2>2, <2>4
<1>6. Aggregate(R) = [requests |-> Cardinality(R), cost |-> SumFunctionOnSet(cost, R)]
      /\ Aggregate(R)' = [requests |-> Cardinality(S), cost |-> SumFunctionOnSet(cost', S)]
  BY DEF Aggregate
<1>7. AtMost(Aggregate(R), Aggregate(R)')
  BY <1>4, <1>5, <1>6 DEF AtMost
<1>8. Aggregate(R) \in Totals /\ Aggregate(R)' \in Totals
  <2>1. Aggregate(R) \in Totals
    BY <1>1, <1>2, AggregateType
  <2>2. Cardinality(S) \in Nat
    BY <1>3, FS_CardinalityType
  <2>3. SumFunctionOnSet(cost', S) \in Nat
    <3>1. \A r \in S : cost'[r] \in Nat
      BY <1>1, <1>2
    <3> QED BY <1>3, <3>1, SumRemove
  <2> QED BY <1>6, <2>1, <2>2, <2>3 DEF Totals
<1> QED BY <1>7, <1>8 DEF Now, R

\* A breakdown adds up to the aggregate of all rows that it groups.
LEMMA BreakdownAddsUp ==
    ASSUME cost \in [Requests -> Nat], NEW tenant, NEW column
    PROVE  Sum(Breakdown(tenant, column)) = Aggregate(RowsOf(tenant))
<1> DEFINE R == RowsOf(tenant)
           V == {Event[r][column] : r \in R}
           B == Breakdown(tenant, column)
           key == [r \in R |-> Event[r][column]]
           one == [r \in R |-> 1]
           n == [x \in V |-> B[x].requests]
           m == [x \in V |-> B[x].cost]
           paid == cost
           of(x) == {r \in R : key[r] = x}
<1>1. R \subseteq Requests /\ IsFiniteSet(R)
  BY RowsFinite DEF RowsOf, Rows
<1>2. B = [x \in V |-> Aggregate({r \in R : Event[r][column] = x})]
  BY DEF Breakdown
<1>3. \A x \in V : of(x) = {r \in R : Event[r][column] = x} /\ IsFiniteSet(of(x))
  BY <1>1, RowsFinite
<1>4. \A x \in V : /\ n[x] = Cardinality(of(x))
                   /\ m[x] = SumFunctionOnSet(cost, of(x))
  <2> TAKE x \in V
  <2>1. B[x] = Aggregate(of(x))
    BY <1>2, <1>3
  <2>2. n[x] = B[x].requests /\ m[x] = B[x].cost
    OBVIOUS
  <2> HIDE DEF B, of, n, m, V
  <2> QED BY <2>1, <2>2 DEF Aggregate
<1>5. IsFiniteSet(V)
  <2>1. key \in Surjection(R, V)
    BY DEF Surjection
  <2> QED BY <1>1, <2>1, FS_Surjection
<1>6. /\ \A r \in R : key[r] \in V /\ one[r] = 1 /\ cost[r] \in Nat
      /\ \A r \in R : one[r] \in Nat
  BY <1>1
<1>7. \A x \in V : n[x] = SumFunctionOnSet(one, of(x))
  <2> TAKE x \in V
  <2>1. \A r \in of(x) : one[r] = 1
    OBVIOUS
  <2> HIDE DEF one, of, n, V
  <2>2. SumFunctionOnSet(one, of(x)) = Cardinality(of(x))
    BY <1>3, <2>1, SumOfOnes
  <2> QED BY <1>4, <2>2
<1>8. Sum(B) = [requests |-> SumFunctionOnSet(n, V), cost |-> SumFunctionOnSet(m, V)]
  BY <1>2, Zenon DEF Sum, SumFunction
<1> HIDE DEF R, V, B, key, one, n, m, paid
<1>9. \A r \in R : key[r] \in V
  BY <1>6
<1>10. ASSUME NEW f, NEW h, \A r \in R : f[r] \in Nat,
              \A x \in V : h[x] = SumFunctionOnSet(f, {r \in R : key[r] = x})
       PROVE  SumFunctionOnSet(h, V) = SumFunctionOnSet(f, R)
  BY ONLY <1>1, <1>5, <1>9, <1>10, SumOfGroups
<1>11. /\ SumFunctionOnSet(n, V) = SumFunctionOnSet(one, R)
       /\ SumFunctionOnSet(m, V) = SumFunctionOnSet(paid, R)
  <2>1. \A x \in V : /\ n[x] = SumFunctionOnSet(one, {r \in R : key[r] = x})
                     /\ m[x] = SumFunctionOnSet(paid, {r \in R : key[r] = x})
    BY <1>4, <1>7 DEF paid
  <2>2. \A r \in R : one[r] \in Nat /\ paid[r] \in Nat
    BY <1>6 DEF paid
  <2>3. SumFunctionOnSet(n, V) = SumFunctionOnSet(one, R)
    BY ONLY <1>10, <2>1, <2>2
  <2>4. SumFunctionOnSet(m, V) = SumFunctionOnSet(paid, R)
    BY ONLY <1>10, <2>1, <2>2
  <2> QED BY <2>3, <2>4
<1>12. SumFunctionOnSet(one, R) = Cardinality(R)
  BY <1>1, <1>6, SumOfOnes
<1> QED BY <1>8, <1>11, <1>12 DEF Aggregate, B, R, paid


-----------------------------------------------------------------------------
(* The steps of a reader, and the invariant.                               *)

LEMMA ColumnFacts ==
    /\ Len(Columns) = 3
    /\ Columns[1] = "provider" /\ Columns[2] = "model" /\ Columns[3] = "cloud_provider"
    /\ \A i \in 1..3 : Columns[i] \in ToSet(Columns)
  BY DEF Columns, ToSet

\* What others do leaves the SELECTs that a reader has done in order.
LEMMA WaitingKeeps ==
    ASSUME IInv, PricingTypes', StoredStays, NEW q \in Readers,
           selected'[q] = selected[q], total'[q] = total[q], parts'[q] = parts[q]
    PROVE  Ascending(q)'
<1> DEFINE n == selected[q]
<1>1. n \in 0..4
  BY ColumnFacts DEF IInv, SummaryTypes
<1>2. \A i \in 1..n : Seen(q, i)' = Seen(q, i)
  BY <1>1 DEF Seen
<1>3. Seen(q, n + 1) = Now(q) /\ Seen(q, n + 1)' = Now(q)'
  BY <1>1 DEF Seen
<1>4. Now(q) \in Totals /\ Now(q)' \in Totals /\ AtMost(Now(q), Now(q)')
  BY NowGrows DEF IInv
<1>5. /\ \A i \in 1..n : Seen(q, i) \in Totals
      /\ \A i \in 1..n : AtMost(Seen(q, i), Seen(q, i + 1))
  BY DEF IInv, Ascending
<1>6. \A i \in 1..n : Seen(q, i)' \in Totals
  BY <1>2, <1>5
<1>7. ASSUME NEW i \in 1..n
      PROVE  AtMost(Seen(q, i)', Seen(q, i + 1)')
  <2>1. CASE i + 1 \in 1..n
    BY <1>2, <1>5, <2>1 DEF AtMost
  <2>2. CASE i = n
    <3>1. AtMost(Seen(q, n), Now(q)) /\ Seen(q, n) \in Totals
      BY <1>3, <1>5, <2>2
    <3>2. AtMost(Seen(q, n), Now(q)')
      BY <1>4, <3>1, AtMostTransitive
    <3> QED BY <1>2, <1>3, <2>2, <3>2 DEF AtMost
  <2> QED BY <1>1, <2>1, <2>2
<1> QED BY <1>6, <1>7 DEF Ascending, AtMost

LEMMA SelectTotalOK ==
    ASSUME IInv, NEW q \in Readers, SelectTotal(q)
    PROVE  IInv'
<1>1. PricingTypes' /\ StoredStays
  BY PricingStutter DEF IInv, SelectTotal
<1>2. Now(q) \in Totals /\ Now(q)' = Now(q)
  <2>1. Now(q)' = Now(q)
    BY DEF SelectTotal, pricingVars, Now, RowsOf, Rows, Aggregate
  <2> QED BY <1>1, <2>1, NowGrows DEF IInv
<1>3. /\ selected[q] = 0 /\ selected' = [selected EXCEPT ![q] = 1]
      /\ total' = [total EXCEPT ![q] = Now(q)] /\ parts' = parts
  BY DEF SelectTotal, Now
<1>4. SummaryTypes'
  BY <1>2, <1>3, ColumnFacts DEF IInv, SummaryTypes
<1>5. \A o \in Readers \ {q} : Ascending(o)'
  BY <1>1, <1>3, WaitingKeeps DEF IInv, SummaryTypes
<1>6. selected'[q] = 1 /\ total'[q] = Now(q)
  BY <1>3 DEF IInv, SummaryTypes
<1>7. Seen(q, 1)' = Now(q) /\ Seen(q, 2)' = Now(q)
  BY <1>2, <1>6 DEF Seen
<1>8. AtMost(Now(q), Now(q))
  BY <1>2 DEF AtMost, Totals
<1>9. Ascending(q)'
  BY <1>2, <1>6, <1>7, <1>8 DEF Ascending, AtMost
<1> QED BY <1>1, <1>4, <1>5, <1>9 DEF IInv

LEMMA SelectBreakdownOK ==
    ASSUME IInv, NEW q \in Readers, SelectBreakdown(q)
    PROVE  IInv'
<1>0. PICK n \in 1..3 : selected[q] = n
  BY ColumnFacts DEF SelectBreakdown
<1> DEFINE column == Columns[n]
           part == Breakdown(TenantOf[q], column)
<1>1. PricingTypes' /\ StoredStays
  BY PricingStutter DEF IInv, SelectBreakdown
<1>2. Now(q) \in Totals /\ Now(q)' = Now(q)
  <2>1. Now(q)' = Now(q)
    BY DEF SelectBreakdown, pricingVars, Now, RowsOf, Rows, Aggregate
  <2> QED BY <1>1, <2>1, NowGrows DEF IInv
<1>3. /\ selected' = [selected EXCEPT ![q] = n + 1]
      /\ parts' = [parts EXCEPT ![q][column] = part] /\ total' = total
  BY <1>0 DEF SelectBreakdown
<1>4. Sum(part) = Now(q)
  BY BreakdownAddsUp DEF IInv, PricingTypes, Now
<1> HIDE DEF part
<1>5. /\ parts' = [o \in Readers |->
                      IF o = q THEN [c \in ToSet(Columns) |->
                                        IF c = column THEN part ELSE parts[q][c]]
                      ELSE parts[o]]
      /\ SummaryTypes'
  <2>1. /\ DOMAIN parts = Readers /\ DOMAIN parts[q] = ToSet(Columns)
        /\ column \in ToSet(Columns)
    BY ColumnFacts DEF IInv, SummaryTypes
  <2> HIDE DEF column
  <2>2. parts' = [o \in Readers |->
                     IF o = q THEN [c \in ToSet(Columns) |->
                                       IF c = column THEN part ELSE parts[q][c]]
                     ELSE parts[o]]
    BY <1>3, <2>1
  <2>3. parts' = [o \in Readers |-> [c \in ToSet(Columns) |-> parts'[o][c]]]
    <3>1. parts = [o \in Readers |-> [c \in ToSet(Columns) |-> parts[o][c]]]
      BY DEF IInv, SummaryTypes
    <3>2. \A o \in Readers : parts'[o] = [c \in ToSet(Columns) |-> parts'[o][c]]
      BY <2>2, <3>1
    <3> QED BY <2>2, <3>2
  <2>4. selected' \in [Readers -> 0..4] /\ total' \in [Readers -> Totals]
    BY <1>3, ColumnFacts DEF IInv, SummaryTypes
  <2> QED BY <2>2, <2>3, <2>4, ColumnFacts DEF SummaryTypes
<1>6. \A o \in Readers \ {q} : Ascending(o)'
  <2>1. \A o \in Readers \ {q} : /\ selected'[o] = selected[o]
                                 /\ total'[o] = total[o] /\ parts'[o] = parts[o]
    BY <1>3, <1>5 DEF IInv, SummaryTypes
  <2> QED BY <1>1, <2>1, WaitingKeeps
<1>7. /\ selected'[q] = n + 1 /\ total'[q] = total[q]
      /\ parts'[q][Columns[n]] = part
      /\ \A i \in 1..n - 1 : parts'[q][Columns[i]] = parts[q][Columns[i]]
  <2>1. selected'[q] = n + 1 /\ total'[q] = total[q]
    BY <1>3 DEF IInv, SummaryTypes
  <2>2. \A i \in 1..n : /\ Columns[i] \in ToSet(Columns)
                        /\ Columns[i] = column => i = n
    BY ColumnFacts
  <2> HIDE DEF column
  <2>3. parts'[q][column] = part
    BY <1>5, <2>2 DEF column
  <2>4. ASSUME NEW i \in 1..n - 1
        PROVE  parts'[q][Columns[i]] = parts[q][Columns[i]]
    <3>1. i \in 1..n /\ i # n
      OBVIOUS
    <3> QED BY <1>5, <2>2, <3>1
  <2> QED BY <2>1, <2>3, <2>4 DEF column
<1>8. \A i \in 1..n : Seen(q, i)' = Seen(q, i)
  <2> TAKE i \in 1..n
  <2>1. CASE i = 1
    BY <1>0, <1>7, <2>1 DEF Seen
  <2>2. CASE i - 1 \in 1..n - 1
    BY <1>0, <1>7, <2>2 DEF Seen
  <2> QED BY <2>1, <2>2
<1>9. Seen(q, n + 1) = Now(q) /\ Seen(q, n + 1)' = Now(q) /\ Seen(q, n + 2)' = Now(q)
  BY <1>0, <1>2, <1>4, <1>7 DEF Seen
<1>10. AtMost(Now(q), Now(q))
  BY <1>2 DEF AtMost, Totals
<1>11. /\ \A i \in 1..n : Seen(q, i) \in Totals
       /\ \A i \in 1..n : AtMost(Seen(q, i), Seen(q, i + 1))
  BY <1>0 DEF IInv, Ascending
<1>12. ASSUME NEW i \in 1..n + 1
       PROVE  Seen(q, i)' \in Totals /\ AtMost(Seen(q, i)', Seen(q, i + 1)')
  <2>1. CASE i \in 1..n - 1
    <3>1. i \in 1..n /\ i + 1 \in 1..n
      BY <2>1
    <3> QED BY <1>8, <1>11, <3>1 DEF AtMost
  <2>2. CASE i = n
    <3>1. i \in 1..n
      BY <2>2
    <3> QED BY <1>8, <1>9, <1>11, <2>2, <3>1 DEF AtMost
  <2>3. CASE i = n + 1
    <3>1. i + 1 = n + 2
      BY <2>3
    <3> QED BY <1>2, <1>9, <1>10, <2>3, <3>1 DEF AtMost
  <2> QED BY <2>1, <2>2, <2>3
<1>13. Ascending(q)'
  BY <1>7, <1>12 DEF Ascending, AtMost
<1> QED BY <1>1, <1>5, <1>6, <1>13 DEF IInv

LEMMA OthersOK ==
    ASSUME IInv, PricingNext \/ UNCHANGED pricingVars, UNCHANGED summaries
    PROVE  IInv' /\ Charged
<1>1. PricingTypes' /\ StoredStays /\ Charged
  BY PricingStep, PricingStutter DEF IInv
<1>2. selected' = selected /\ total' = total /\ parts' = parts
  BY DEF summaries
<1>3. SummaryTypes'
  BY <1>2, ColumnFacts DEF IInv, SummaryTypes
<1>4. \A q \in Readers : Ascending(q)'
  BY <1>1, <1>2, WaitingKeeps
<1> QED BY <1>1, <1>3, <1>4 DEF IInv

LEMMA InitOK ==
    ASSUME Init
    PROVE  IInv
<1>1. PricingTypes
  BY BoundAssumption DEF Init, PricingInit, PricingTypes
<1>2. SummaryTypes
  BY ColumnFacts DEF Init, SummaryTypes, Nothing, Totals
<1>3. \A q \in Readers : Ascending(q)
  BY DEF Init, Ascending
<1> QED BY <1>1, <1>2, <1>3 DEF IInv

LEMMA StepOK ==
    ASSUME IInv, [Next]_vars
    PROVE  IInv' /\ Charged
<1>1. CASE PricingNext /\ UNCHANGED summaries
  BY <1>1, OthersOK
<1>2. CASE \E q \in Readers : SelectTotal(q) \/ SelectBreakdown(q)
  <2>1. IInv'
    BY <1>2, SelectTotalOK, SelectBreakdownOK
  <2>2. UNCHANGED pricingVars
    BY <1>2 DEF SelectTotal, SelectBreakdown
  <2> QED BY <2>1, <2>2, PricingStutter DEF IInv
<1>3. CASE UNCHANGED vars
  <2>1. UNCHANGED pricingVars /\ UNCHANGED summaries
    BY <1>3 DEF vars, pricingVars, summaries
  <2> QED BY <2>1, OthersOK
<1> QED BY <1>1, <1>2, <1>3 DEF Next

\* IInv is an invariant.
LEMMA Inductive == Spec => []IInv
<1>1. IInv /\ [Next]_vars => IInv'
  BY StepOK
<1> QED BY <1>1, InitOK, PTL DEF Spec

-----------------------------------------------------------------------------
(* The theorems.                                                           *)

\* What a process charges by was read since its last load, an event is in
\* the hands of a process only while it is priced and not stored, and costs
\* are natural numbers, for any price lists, events and readers.
THEOREM TypesHold == Spec => []TypeOK
<1>1. IInv => TypeOK
  <2> SUFFICES ASSUME IInv PROVE TypeOK
    OBVIOUS
  <2>1. /\ file \in Files
        /\ stage \in [Requests -> {"new", "priced", "stored", "refused"}]
        /\ handling \in [Processes -> SUBSET {r \in Requests : stage[r] = "priced"}]
        /\ cost \in [Requests -> Nat]
        /\ edits \in 0..MaxEdits
    BY DEF IInv, PricingTypes
  <2>2. \A p \in Processes :
           /\ loaded[p] \in PriceLists \union {Unloaded, BuiltIn, [kind |-> "empty"]}
           /\ loaded[p] # Unloaded => loaded[p] \in readings[p]
    BY DEF IInv, PricingTypes, Loadable
  <2>3. /\ selected \in [Readers -> 0..Len(Columns) + 1]
        /\ \A q \in Readers : total[q].requests \in Nat /\ total[q].cost \in Nat
    BY DEF IInv, SummaryTypes, Totals
  <2> QED BY <2>1, <2>2, <2>3 DEF TypeOK
<1> QED BY <1>1, Inductive, PTL

\* What is listed for a name is what an event with that name is charged, in
\* every process, whatever the price lists that the file ever holds.
THEOREM ListedPricesAreCharged == Spec => []ListedIsCharged
<1>1. IInv => ListedIsCharged
  <2> SUFFICES ASSUME IInv, NEW p \in Processes, NEW v \in Providers,
                      loaded[p].kind = "list",
                      NEW entry \in ProviderModels(loaded[p], v)
               PROVE  GetModelPricing(loaded[p], v, entry.key) = entry.price
    BY DEF ListedIsCharged
  <2>1. loaded[p] \in PriceLists \union {BuiltIn}
    BY DEF IInv, PricingTypes, Loadable, Unloaded
  <2>2. ProviderModels(BuiltIn, v) = {}
    BY DEF ProviderModels, BuiltIn
  <2> QED BY <2>1, <2>2, ListedPrice
<1> QED BY <1>1, Inductive, PTL

\* The total and the breakdowns of a summary ascend, in the order of their
\* SELECTs, to what is stored, whatever is stored between them.
THEOREM SummariesAscend == Spec => []PartsOnlyGrow
<1>1. IInv => PartsOnlyGrow
  <2> SUFFICES ASSUME IInv, NEW q \in Readers, Answered(q)
               PROVE  LET sum == [c \in ToSet(Columns) |-> Sum(parts[q][c])]
                      IN  /\ AtMost(total[q], sum["provider"])
                          /\ AtMost(sum["provider"], sum["model"])
                          /\ AtMost(sum["model"], sum["cloud_provider"])
                          /\ AtMost(sum["cloud_provider"],
                                    Aggregate(RowsOf(TenantOf[q])))
    BY DEF PartsOnlyGrow
  <2>1. selected[q] = 4
    BY ColumnFacts DEF Answered
  <2>2. \A i \in 1..4 : AtMost(Seen(q, i), Seen(q, i + 1))
    BY <2>1 DEF IInv, Ascending
  <2>3. /\ AtMost(Seen(q, 1), Seen(q, 2)) /\ AtMost(Seen(q, 2), Seen(q, 3))
        /\ AtMost(Seen(q, 3), Seen(q, 4)) /\ AtMost(Seen(q, 4), Seen(q, 5))
    BY <2>2
  <2>4. /\ Seen(q, 1) = total[q]
        /\ Seen(q, 2) = Sum(parts[q]["provider"])
        /\ Seen(q, 3) = Sum(parts[q]["model"])
        /\ Seen(q, 4) = Sum(parts[q]["cloud_provider"])
        /\ Seen(q, 5) = Aggregate(RowsOf(TenantOf[q]))
    BY <2>1, ColumnFacts DEF Seen, Now
  <2>5. \A c \in {"provider", "model", "cloud_provider"} : c \in ToSet(Columns)
    BY ColumnFacts
  <2> QED BY <2>3, <2>4, <2>5
<1> QED BY <1>1, Inductive, PTL

\* An event is charged by a reading of the file that is no older than the
\* last load of the process that charges it, in every behaviour.
THEOREM ReloadsHold == Spec => ChargedSinceReload
<1> DEFINE Charges == \A p \in Processes : \A r \in handling'[p] \ handling[p] :
                          \E c \in readings'[p] :
                              c.kind = "list" /\ cost'[r] = CalculateCost(c, Event[r])
<1>1. IInv /\ [Next]_vars => [Charges]_pricingVars
  BY StepOK DEF Charged
<1>2. Spec => [][Charges]_pricingVars
  BY <1>1, Inductive, PTL DEF Spec
<1> QED BY <1>2 DEF ChargedSinceReload
=============================================================================
