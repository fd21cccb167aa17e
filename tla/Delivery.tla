------------------------------ MODULE Delivery ------------------------------
(***************************************************************************)
(* What token-trackr promises of the events an application records, however *)
(* they are queued, batched, retried, put back and stored: delivery at      *)
(* least once of everything that is not given up, with every copy beyond    *)
(* the first paid for by a failure, and nothing given up without a reason.  *)
(*                                                                         *)
(* PyClient and NodeClient implement it, where the backend is a choice of   *)
(* what may become of a request, and so does Pipeline, where the backend is *)
(* IngestApi.                                                               *)
(***************************************************************************)
EXTENDS Integers, FiniteSets

CONSTANTS Events,    \* the usage events the application may record
          MaxFaults  \* bound: how many failures there are

VARIABLES
    status,  \* of an event: new, pending (the client may still send it),
             \* done (stored, as the client knows), or out (neither)
    copies,  \* how often the backend has stored an event
    closed,  \* the client's connection is closed
    faults   \* failures so far

vars == <<status, copies, closed, faults>>

With(s) == {e \in Events : status[e] = s}

\* Some events may have been recorded already.
Init ==
    /\ status \in [Events -> {"new", "pending"}]
    /\ copies = [e \in Events |-> 0]
    /\ closed = FALSE
    /\ faults = 0

\* The events of B get the status s.
Becomes(B, s) == [e \in Events |-> IF e \in B THEN s ELSE status[e]]

\* record(): a full queue drops the new event or another one for it.
Accept(e) ==
    /\ status[e] = "new"
    /\ \/ status' = Becomes({e}, "pending")
       \/ status' = Becomes({e}, "out")
       \/ \E old \in With("pending") :
             status' = [Becomes({e}, "pending") EXCEPT ![old] = "out"]
    /\ UNCHANGED <<copies, closed, faults>>

\* The backend stores the events of B.  One copy needs no excuse; each
\* further one needs a failure after which the event was sent again.
Stores(B) ==
    /\ \A e \in B : status[e] # "new" /\ copies[e] <= faults
    /\ copies' = [e \in Events |-> copies[e] + IF e \in B THEN 1 ELSE 0]

Store(B) == Stores(B) /\ UNCHANGED <<status, closed, faults>>

\* The client is done with the events of B, which the backend has, and will
\* not send those of C again, after a failure or on a closed connection only.
Settle(B, C) ==
    /\ B \union C \subseteq With("pending")
    /\ C = {} \/ faults > 0 \/ closed
    /\ Stores(B) \/ Stores({})
    /\ \A e \in B : copies'[e] >= 1
    /\ status' = [e \in Events |-> IF e \in C THEN "out" ELSE Becomes(B, "done")[e]]
    /\ UNCHANGED <<closed, faults>>

\* A failure: the backend may have stored the events of B all the same, and
\* the client may give up those of C.
Fail(B, C) ==
    /\ faults < MaxFaults /\ faults' = faults + 1
    /\ Stores(B)
    /\ C \subseteq With("pending")
    /\ status' = Becomes(C, "out")
    /\ UNCHANGED closed

Close ==
    /\ closed' = TRUE
    /\ UNCHANGED <<status, copies, faults>>

Next ==
    \/ \E e \in Events : Accept(e)
    \/ \E B \in SUBSET Events : Store(B)
    \/ \E B, C \in SUBSET Events : Settle(B, C) \/ Fail(B, C)
    \/ Close

Spec == Init /\ [][Next]_vars

-----------------------------------------------------------------------------
(* What follows from it, for every implementation.                         *)

\* No event is stored more often than there were failures, plus one, and
\* none that the application has not recorded.
CopiesPaidFor ==
    \A e \in Events :
        /\ copies[e] <= faults + 1
        /\ status[e] = "new" => copies[e] = 0

\* What the client has forgotten as delivered is stored.
DoneIsStored == \A e \in Events : status[e] = "done" => copies[e] >= 1
=============================================================================
