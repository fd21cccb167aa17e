------------------------------ MODULE Pricing ------------------------------
(***************************************************************************)
(* The cost engine (backend/core/pricing.py) in the processes that serve   *)
(* the API: each keeps its own copy of config/pricing.yaml, read when its  *)
(* first event arrives and again when a reload request happens to reach    *)
(* it (backend/api/endpoints/providers.py), while an operator edits the    *)
(* file and processes are restarted.  A usage event is priced in one step  *)
(* and stored, with that cost, in a later one.                             *)
(*                                                                         *)
(* A name is a sequence of parts, so that one can be a prefix of another.  *)
(* Input and output tokens are priced alike: the model keeps one price per *)
(* name, in whole units, and costs in hundredths of them, which makes the  *)
(* discount exact and the rounding to 10 decimals unnecessary.             *)
(***************************************************************************)
EXTENDS Integers, Sequences, FiniteSets, SequencesExt

CONSTANTS
    Processes,    \* API processes: uvicorn workers, or replicas
    Requests,     \* the usage events posted
    Event,        \* Event[r]: its tenant, provider, model, cloud_provider, tokens
    Providers,
    PriceLists,   \* what the operator may write into the file: for each
                  \* provider the entries in file order and the default
                  \* price, for each tenant the discount
    BuiltInPrice, \* default price of _get_default_pricing, per provider
    MaxEdits      \* bound: how often the file changes

ASSUME EventAssumption ==
    /\ IsFiniteSet(Requests)
    /\ \A r \in Requests : Event[r].tokens \in Nat /\ Event[r].provider \in Providers
ASSUME PriceListAssumption ==
    \A c \in PriceLists :
        /\ c.kind = "list"
        /\ \A v \in Providers :
              /\ c.prices[v] \in Seq(ToSet(c.prices[v]))
              /\ \A entry \in ToSet(c.prices[v]) : entry.price \in Nat
              /\ c.default[v] \in Nat
              \* keys of a YAML mapping are unique
              /\ IsInjective([i \in DOMAIN c.prices[v] |-> c.prices[v][i].key])
        /\ \A r \in Requests : c.discount[Event[r].tenant] \in 0..100
ASSUME BoundAssumption == MaxEdits \in Nat
ASSUME BuiltInAssumption == \A v \in Providers : BuiltInPrice[v] \in Nat

VARIABLES
    file,     \* the pricing file: a list, empty, missing, or not YAML
    loaded,   \* _pricing_data of each process
    stage,    \* where each event is: new, priced, stored or refused
    handling, \* the events each process has priced and not yet stored
    cost,     \* its calculated_cost
    readings, \* history: what a load would have given since the process's last
    edits     \* edits so far

engine == <<file, loaded, readings, edits>>
events == <<stage, handling, cost>>
pricingVars == <<file, loaded, stage, handling, cost, readings, edits>>

Tenants == {Event[r].tenant : r \in Requests}

Unloaded == [kind |-> "unloaded"]
Files == PriceLists \union [kind : {"empty", "missing", "invalid"}]

-----------------------------------------------------------------------------
(* PricingEngine, without its state.                                       *)

\* _get_default_pricing()
BuiltIn ==
    [kind     |-> "list",
     prices   |-> [v \in Providers |-> <<>>],
     default  |-> BuiltInPrice,
     discount |-> [t \in Tenants |-> 0]]

\* Wrong: the exception of the YAML parser leaves no fallback.
Load_NoFallback(f) == IF f.kind = "missing" THEN BuiltIn ELSE f

\* _load_pricing(): a file that is missing or no YAML is replaced by the
\* built-in prices; an empty one is YAML, and leaves None.
Load(f) == IF f.kind \in {"missing", "invalid"} THEN BuiltIn ELSE f

\* Wrong: the first entry that is related, be it exact or not.
GetModelPricing_FirstRelated(data, provider, model) ==
    LET list == data.prices[provider]
        i == SelectInSeq(list, LAMBDA e : IsPrefix(e.key, model)
                                          \/ IsPrefix(model, e.key))
    IN  IF i # 0 THEN list[i].price ELSE data.default[provider]

\* get_model_pricing(): the entry of that name, or else the first in file
\* order whose key and the name are prefixes one of the other, or else the
\* provider's default.
GetModelPricing(data, provider, model) ==
    LET list == data.prices[provider]
        exact == SelectInSeq(list, LAMBDA e : e.key = model)
        related == SelectInSeq(list, LAMBDA e : IsPrefix(e.key, model)
                                                \/ IsPrefix(model, e.key))
    IN  IF exact # 0 THEN list[exact].price
        ELSE IF related # 0 THEN list[related].price
        ELSE data.default[provider]

\* calculate_cost(), with the discount of _get_tenant_discount.
CalculateCost(data, e) ==
    e.tokens * GetModelPricing(data, e.provider, e.model)
             * (100 - data.discount[e.tenant])

\* get_provider_models(), what GET /providers/{provider}/models lists.
ProviderModels(data, provider) ==
    {data.prices[provider][i] : i \in DOMAIN data.prices[provider]}

-----------------------------------------------------------------------------
PricingInit ==
    /\ file \in Files
    /\ loaded = [p \in Processes |-> Unloaded]
    /\ stage = [r \in Requests |-> "new"]
    /\ handling = [p \in Processes |-> {}]
    /\ cost = [r \in Requests |-> 0]
    /\ readings = [p \in Processes |-> {}]
    /\ edits = 0

\* The operator replaces the file, or a reader finds it half written.
Edit(f) ==
    /\ edits < MaxEdits
    /\ edits' = edits + 1
    /\ file' = f
    /\ readings' = [p \in Processes |-> readings[p] \union {Load(f)}]
    /\ UNCHANGED <<loaded, events>>

\* Process p reads the file.
LoadPricing(p) ==
    /\ loaded' = [loaded EXCEPT ![p] = Load(file)]
    /\ readings' = [readings EXCEPT ![p] = {Load(file)}]

\* Wrong: a file that cannot be read leaves the old prices in place.
Reload_KeepsOld(p) ==
    /\ IF file.kind = "list" \/ loaded[p] = Unloaded THEN LoadPricing(p)
       ELSE loaded' = loaded
            /\ readings' = [readings EXCEPT ![p] = {Load(file)}]
    /\ UNCHANGED <<file, edits, events>>

\* POST /providers/pricing/reload, in the process it is routed to.
Reload(p) ==
    /\ LoadPricing(p)
    /\ UNCHANGED <<file, edits, events>>

\* The process is started again: its events that are not stored are lost to
\* it, and its engine is made anew when it is needed.
Restart(p) ==
    /\ loaded[p] # Unloaded
    /\ loaded' = [loaded EXCEPT ![p] = Unloaded]
    /\ readings' = [readings EXCEPT ![p] = {}]
    /\ stage' = [r \in Requests |->
                    IF r \in handling[p] THEN "refused" ELSE stage[r]]
    /\ handling' = [handling EXCEPT ![p] = {}]
    /\ UNCHANGED <<file, edits, cost>>

\* get_pricing_engine(): the cached engine, made by its first user.
GetPricingEngine(p) ==
    IF loaded[p] = Unloaded THEN LoadPricing(p) ELSE UNCHANGED <<loaded, readings>>

\* record_usage() in process p computes the cost of an event; without
\* pricing data this raises.
Price(p, r) ==
    /\ stage[r] = "new"
    /\ GetPricingEngine(p)
    /\ LET data == loaded'[p]
       IN  \/ /\ data.kind = "list"
              /\ cost' = [cost EXCEPT ![r] = CalculateCost(data, Event[r])]
              /\ stage' = [stage EXCEPT ![r] = "priced"]
              /\ handling' = [handling EXCEPT ![p] = @ \union {r}]
           \/ /\ data.kind = "empty"
              /\ stage' = [stage EXCEPT ![r] = "refused"]
              /\ UNCHANGED <<handling, cost>>
    /\ UNCHANGED <<file, edits>>

\* Its transaction commits.
Store(p, r) ==
    /\ r \in handling[p]
    /\ stage' = [stage EXCEPT ![r] = "stored"]
    /\ handling' = [handling EXCEPT ![p] = @ \ {r}]
    /\ UNCHANGED <<engine, cost>>

PricingNext ==
    \/ \E f \in Files : Edit(f)
    \/ \E p \in Processes :
          \/ Reload(p) \/ Restart(p)
          \/ \E r \in Requests : Price(p, r) \/ Store(p, r)

PricingSpec == PricingInit /\ [][PricingNext]_pricingVars

-----------------------------------------------------------------------------
(* Properties.                                                             *)

\* token_usage_raw
Rows == {r \in Requests : stage[r] = "stored"}

\* What GET /providers/{provider}/models lists for a name is what an event
\* with that name is charged, wherever the entry stands in the file: an entry
\* with a related name never comes first.
ListedIsCharged ==
    \A p \in Processes, v \in Providers :
        loaded[p].kind = "list" =>
            \A entry \in ProviderModels(loaded[p], v) :
                GetModelPricing(loaded[p], v, entry.key) = entry.price

\* An event is charged by one reading of the file, and by none older than the
\* last load of the process that charges it: a reload that was answered holds
\* for every later event of that process, also when the file was unreadable.
ChargedSinceReload ==
    [][\A p \in Processes : \A r \in handling'[p] \ handling[p] :
          \E c \in readings'[p] :
              c.kind = "list" /\ cost'[r] = CalculateCost(c, Event[r])]_pricingVars
=============================================================================
