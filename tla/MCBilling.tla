----------------------------- MODULE MCBilling -----------------------------
(* A small instance of Billing for TLC: the turn of a year. *)
EXTENDS Billing

\* Short months, of two and three days.
ShortMonths == [m \in 1..12 |-> IF m = 1 THEN 3 ELSE 2]

December == <<2024, 12>>
January == <<2025, 1>>
=============================================================================
