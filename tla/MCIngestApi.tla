---------------------------- MODULE MCIngestApi ----------------------------
(* Small instances of IngestApi for TLC. *)
EXTENDS IngestApi

CONSTANTS r1, r2, a, b

\* A batch, and its retry by the SDK.
RetriedBatch == (r1 :> <<a, b>>) @@ (r2 :> <<a, b>>)

-----------------------------------------------------------------------------
(* What docs and tests say of the endpoints and the code does not ensure.  *)

\* "Stores the event in the database" (backend/api/endpoints/usage.py:39):
\* the events of a request that ended with a 201 are stored.
AckedStored ==
    \A r \in Requests :
        phase[r] = "end" /\ answered[r] = 201 => Rows(r) = results[r]
=============================================================================
