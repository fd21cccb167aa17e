---------------------------- MODULE MCPyClient ----------------------------
(* Small instances of PyClient for TLC. *)
EXTENDS PyClient

Symmetry == Permutations(Events)

-----------------------------------------------------------------------------
(* What comments and docs say of the client and the code does not do.      *)

\* "Close the client and flush remaining events" (client.py:225): without a
\* single fault, what was recorded before the process exits reaches the
\* backend or at least a file.
CloseFlushesAll ==
    exited /\ faults = 0 =>
        \A e \in Events :
            Recorded(e) => Stored(e) \/ OnFile(e) \/ e \in givenUp
=============================================================================
