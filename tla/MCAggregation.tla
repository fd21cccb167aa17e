--------------------------- MODULE MCAggregation ---------------------------
(* Small instances of Aggregation for TLC. *)
EXTENDS Aggregation

CONSTANTS aws, gcp, acme, globex

\* Two clouds of one account.
OneAccount == (aws :> acme) @@ (gcp :> acme)

\* The groups of two accounts.
TwoAccounts == (aws :> acme) @@ (gcp :> globex)
=============================================================================
