------------------------------ MODULE Pipeline ------------------------------
(***************************************************************************)
(* The clients of IngestApi.  A client sends one request after the other;  *)
(* it waits for the answer up to its timeout, and posts the same batch     *)
(* again when the answer is an error or does not come.  The backend knows  *)
(* nothing of this and goes on with the first request, which may be stored *)
(* before, between or after the later attempts.                            *)
(***************************************************************************)
EXTENDS IngestApi

CONSTANT Earlier  \* Earlier[r]: the requests its client sends before r

ASSUME EarlierAssumption ==
    /\ Earlier \in [Requests -> SUBSET Requests]
    /\ \A r \in Requests : \A p \in Earlier[r] :
          Earlier[p] \subseteq Earlier[r] \ {p}
\* An event is one client's, which sends one request after the other.
ASSUME ClientAssumption ==
    /\ IsFiniteSet(Requests)
    /\ \A p, r \in Requests :
          p # r /\ Carried(p) \cap Carried(r) # {} => p \in Earlier[r] \/ r \in Earlier[p]

VARIABLE timedOut  \* requests whose client waits no longer

allVars == <<vars, timedOut>>

PipelineInit == Init /\ timedOut = {}

\* The client heard a 201 for the request.
Heard(r) == answered[r] = 201 /\ r \notin timedOut

\* The client has an error for an answer, or none.
Failed(r) == r \in timedOut \/ answered[r] \in {400, 422, 500}

\* client.py's retry decorator, sendBatch() of client.ts, and the flush after
\* a requeue: an event is posted again once the attempt before has failed.
Posted(r) ==
    \A p \in Earlier[r] :
        Failed(p) \/ (Heard(p) /\ Carried(p) \cap Carried(r) = {})

\* httpx's and fetch's timeout, or a connection lost before the answer; the
\* backend may not even have received the request yet.
TimesOut(r) ==
    /\ r \notin timedOut /\ answered[r] = 0
    /\ Fault
    /\ timedOut' = timedOut \union {r}
    /\ UNCHANGED <<phase, done, flushed, session, results, status, answered,
                   connected, table>>

PipelineNext ==
    \E r \in Requests :
        /\ Posted(r)
        /\ TimesOut(r) \/ (Handle(r) /\ UNCHANGED timedOut)

PipelineSpec ==
    /\ PipelineInit /\ [][PipelineNext]_allVars
    /\ \A r \in Requests : SF_allVars(Progress(r) /\ UNCHANGED timedOut)

-----------------------------------------------------------------------------
(* Properties.                                                             *)

Copies == [e \in EventIds |-> Cardinality({r \in Requests : e \in Rows(r)})]

\* The refinement mapping to Delivery: an event that the client was told is
\* stored is done with, whether it was or left out.
Delivered ==
    [e \in EventIds |->
        LET answers == {r \in Requests : Heard(r) /\ e \in Carried(r)}
        IN  IF answers = {} THEN "pending"
            ELSE IF \E r \in answers : e \in Rows(r) THEN "done" ELSE "out"]

D == INSTANCE Delivery WITH
        Events <- EventIds, status <- Delivered, copies <- Copies, closed <- FALSE

\* Client, network and backend together deliver at least once: a batch whose
\* answer was late or lost may be stored by several of its attempts, but by
\* no more than failed and one more, and what the client forgets is stored
\* unless something failed in the backend.
Delivers == D!Spec
=============================================================================
