----------------------------- MODULE MCPipeline -----------------------------
(* A small instance of Pipeline for TLC. *)
EXTENDS Pipeline

CONSTANTS r1, r2, r3, r4, r5, a, b, c, d, m

\* One client sends a batch, twice if need be.  The other sends a batch over
\* the limit, one with a malformed event, and a single event.
Bodies ==
    (r1 :> <<a, b>>) @@ (r2 :> <<a, b>>)
        @@ (r3 :> <<d, d, d>>) @@ (r4 :> <<d, m>>) @@ (r5 :> <<c>>)

Attempts ==
    (r1 :> {}) @@ (r2 :> {r1}) @@ (r3 :> {}) @@ (r4 :> {r3}) @@ (r5 :> {r3, r4})
=============================================================================
