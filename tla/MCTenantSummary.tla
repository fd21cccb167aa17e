-------------------------- MODULE MCTenantSummary --------------------------
(* A small instance of TenantSummary for TLC. *)
EXTENDS TenantSummary, TLC

CONSTANTS r1, r2, r3, q1, p1, p2

\* "gpt-4", "gpt-4o-mini" and a dated "gpt-4o-mini".
Gpt4 == <<"gpt-4">>
Mini == <<"gpt-4", "o", "-mini">>
DatedMini == <<"gpt-4", "o", "-mini", "-2024-07-18">>

Posted(tenant, provider, model, cloud, tokens) ==
    [tenant |-> tenant, provider |-> provider, model |-> model,
     cloud_provider |-> cloud, tokens |-> tokens]

\* Two events of one tenant, and one of another.
ThreeEvents ==
    (r1 :> Posted("acme", "azure_openai", Mini, "azure", 2))
    @@ (r2 :> Posted("acme", "bedrock", DatedMini, "aws", 3))
    @@ (r3 :> Posted("globex", "azure_openai", DatedMini, "azure", 1))

List(entries, discounted) ==
    [kind     |-> "list",
     prices   |-> [azure_openai |-> entries, bedrock |-> <<>>],
     default  |-> [azure_openai |-> 7, bedrock |-> 5],
     discount |-> [acme |-> discounted, globex |-> 0]]

Entry(key, price) == [key |-> key, price |-> price]

\* A price list with related names, and a later one without "gpt-4".
TwoLists ==
    {List(<<Entry(Gpt4, 9), Entry(Mini, 2)>>, 0), List(<<Entry(Mini, 3)>>, 10)}

Defaults == [azure_openai |-> 6, bedrock |-> 6]

Asked == (q1 :> "acme")

Symmetry == Permutations({p1, p2})
=============================================================================
