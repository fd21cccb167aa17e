CONSTANTS
    r1 = r1
    r2 = r2
    r3 = r3
    q1 = q1
    p1 = p1
    p2 = p2
    Processes = {p1, p2}
    Requests = {r1, r2, r3}
    Event <- ThreeEvents
    Providers = {"azure_openai", "bedrock"}
    PriceLists <- TwoLists
    BuiltInPrice <- Defaults
    MaxEdits = 2
    Readers = {q1}
    TenantOf <- Asked
SYMMETRY Symmetry
SPECIFICATION Spec
INVARIANTS TypeOK ListedIsCharged PartsOnlyGrow
PROPERTY ChargedSinceReload
CHECK_DEADLOCK FALSE
