----------------------------- MODULE IngestApi -----------------------------
(***************************************************************************)
(* The ingest endpoints POST /usage and POST /usage/batch of the backend   *)
(* (backend/api/endpoints/usage.py), with the database session that the    *)
(* dependency get_session (backend/database.py) opens, commits or rolls    *)
(* back around them, and UsageService.record_usage.                        *)
(*                                                                         *)
(* A request carries a sequence of events.  Each event becomes a row of    *)
(* token_usage_raw in three steps, between which other requests run: the   *)
(* price is computed, the row is flushed on the request's connection, and  *)
(* it is read back and its result appended.  A flush that fails rolls the  *)
(* whole transaction back and leaves the SQLAlchemy session deactivated:   *)
(* every later flush, and the commit, then raise as well.  A read-back     *)
(* that PostgreSQL refuses only leaves the transaction aborted: later      *)
(* flushes raise, but COMMIT does not, it rolls back.                      *)
(*                                                                         *)
(* FastAPI runs the code of a dependency after its `yield` before it sends *)
(* the response (0.106 to 0.117) or after (other versions).  The           *)
(* repository asks for fastapi>=0.104, hence the constant CommitFirst.     *)
(***************************************************************************)
EXTENDS Integers, Sequences, FiniteSets, SequencesExt

CONSTANTS
    Requests,     \* the requests that clients send
    EventIds,     \* the usage events they carry
    Body,         \* Body[r]: the events of request r, in order
    Malformed,    \* events that the schema UsageEvent refuses
    BatchLimit,   \* the batch endpoint takes 1000 events at most
    PoolSize,     \* connections of the engine: pool_size + max_overflow
    CommitFirst,  \* the dependency's exit code runs before the response is sent
    MaxFaults     \* bound: how many pricing and database errors happen

ASSUME RequestAssumption ==
    Body \in [Requests -> Seq(EventIds)] /\ Malformed \subseteq EventIds
ASSUME LimitAssumption == BatchLimit \in Nat /\ PoolSize \in Nat \ {0}
ASSUME BuildAssumption == CommitFirst \in BOOLEAN /\ MaxFaults \in Nat

VARIABLES
    phase,       \* where the handling of each request is
    done,        \* how many events of its body the loop has gone through
    flushed,     \* rows in the request's open transaction
    session,     \* its session: active, aborted by the server, or deactivated
    results,     \* events it has built an UsageEventResponse for
    status,      \* the status the endpoint decided on, 0 before
    answered,    \* the status the client received, 0 before
    connected,   \* requests that hold a connection of the pool
    table,       \* the committed rows, as <<request, event>>
    faults       \* errors so far

vars == <<phase, done, flushed, session, results, status, answered,
          connected, table, faults>>

\* The SDK posts a single event to /usage, several to /usage/batch.
Single(r) == Len(Body[r]) = 1

Carried(r) == ToSet(Body[r])

Init ==
    /\ phase = [r \in Requests |-> "idle"]
    /\ done = [r \in Requests |-> 0]
    /\ flushed = [r \in Requests |-> {}]
    /\ session = [r \in Requests |-> "active"]
    /\ results = [r \in Requests |-> {}]
    /\ status = [r \in Requests |-> 0]
    /\ answered = [r \in Requests |-> 0]
    /\ connected = {}
    /\ table = {}
    /\ faults = 0

Goto(r, label) == phase' = [phase EXCEPT ![r] = label]
Decide(r, code) == status' = [status EXCEPT ![r] = code]
Fault == faults < MaxFaults /\ faults' = faults + 1

\* After the endpoint returned: the commit, or first the response.
Returned == IF CommitFirst THEN "commit" ELSE "respond"

-----------------------------------------------------------------------------
\* Wrong: the batch endpoint returns an empty response to a batch over the
\* limit instead of raising.
Receive_EmptyResponse(r) ==
    /\ phase[r] = "idle"
    /\ \/ /\ Carried(r) \cap Malformed # {}
          /\ Decide(r, 422) /\ Goto(r, "rollback")
       \/ /\ Carried(r) \cap Malformed = {}
          /\ ~Single(r) /\ Len(Body[r]) > BatchLimit
          /\ Decide(r, 201) /\ Goto(r, Returned)
       \/ /\ Carried(r) \cap Malformed = {}
          /\ Single(r) \/ Len(Body[r]) <= BatchLimit
          /\ Goto(r, "pricing") /\ UNCHANGED status
    /\ UNCHANGED <<done, flushed, session, results, answered, connected, table,
                   faults>>

\* The request is validated as a whole, before the endpoint runs; a batch
\* over the limit is refused by the endpoint itself.
Receive(r) ==
    /\ phase[r] = "idle"
    /\ \/ /\ Carried(r) \cap Malformed # {}
          /\ Decide(r, 422) /\ Goto(r, "rollback")
       \/ /\ Carried(r) \cap Malformed = {}
          /\ ~Single(r) /\ Len(Body[r]) > BatchLimit
          /\ Decide(r, 400) /\ Goto(r, "rollback")
       \/ /\ Carried(r) \cap Malformed = {}
          /\ Single(r) \/ Len(Body[r]) <= BatchLimit
          /\ Goto(r, "pricing") /\ UNCHANGED status
    /\ UNCHANGED <<done, flushed, session, results, answered, connected, table,
                   faults>>

\* The event the loop is at.
Current(r) == Body[r][done[r] + 1]

\* An exception out of record_usage: the batch endpoint logs it and goes on
\* with the next event, the single one answers with an error.
Skip(r, codes) ==
    IF Single(r)
    THEN /\ \E code \in codes : Decide(r, code)
         /\ Goto(r, "rollback") /\ UNCHANGED done
    ELSE /\ done' = [done EXCEPT ![r] = @ + 1]
         /\ Goto(r, "pricing") /\ UNCHANGED status

\* calculate_cost is a pure computation.
Price(r) ==
    /\ phase[r] = "pricing" /\ done[r] < Len(Body[r])
    /\ Goto(r, "flushing")
    /\ UNCHANGED <<done, flushed, session, results, status, answered,
                   connected, table, faults>>

\* calculate_cost raises (a price that is no number, for one), before
\* anything was added to the session: ValueError is answered 400.
PriceFails(r) ==
    /\ phase[r] = "pricing" /\ done[r] < Len(Body[r])
    /\ Fault
    /\ Skip(r, {400, 500})
    /\ UNCHANGED <<flushed, session, results, answered, connected, table>>

\* session.flush() checks a connection out if the request has none yet.
Connect(r) ==
    /\ r \in connected \/ Cardinality(connected) < PoolSize
    /\ connected' = connected \union {r}

\* Wrong: every event is committed as soon as it is flushed.
FlushRow_Autocommit(r) ==
    /\ phase[r] = "flushing" /\ session[r] = "active"
    /\ Connect(r)
    /\ table' = table \union {<<r, Current(r)>>}
    /\ Goto(r, "refreshing")
    /\ UNCHANGED <<done, flushed, session, results, status, answered, faults>>

\* The INSERT succeeds; the row is visible to its own transaction only.
FlushRow(r) ==
    /\ phase[r] = "flushing" /\ session[r] = "active"
    /\ Connect(r)
    /\ flushed' = [flushed EXCEPT ![r] = @ \union {Current(r)}]
    /\ Goto(r, "refreshing")
    /\ UNCHANGED <<done, session, results, status, answered, table, faults>>

\* Wrong: the handler rolls the session back and goes on with a new
\* transaction, forgetting the rows flushed before.
FlushFails_Recovers(r) ==
    /\ phase[r] = "flushing" /\ session[r] = "active"
    /\ Fault
    /\ connected' \in {connected, connected \union {r}}
    /\ Cardinality(connected') <= PoolSize
    /\ flushed' = [flushed EXCEPT ![r] = {}]
    /\ Skip(r, {500})
    /\ UNCHANGED <<session, results, answered, table>>

\* The INSERT fails, or no connection is free in time: the transaction is
\* rolled back and the session deactivated.
FlushFails(r) ==
    /\ phase[r] = "flushing" /\ session[r] = "active"
    /\ Fault
    /\ connected' \in {connected, connected \union {r}}
    /\ Cardinality(connected') <= PoolSize
    /\ flushed' = [flushed EXCEPT ![r] = {}]
    /\ session' = [session EXCEPT ![r] = "deactivated"]
    /\ Skip(r, {500})
    /\ UNCHANGED <<results, answered, table>>

\* Neither an aborted transaction nor a deactivated session takes an INSERT;
\* after the first failed flush the session is deactivated in any case.
FlushBroken(r) ==
    /\ phase[r] = "flushing" /\ session[r] # "active"
    /\ session' = [session EXCEPT ![r] = "deactivated"]
    /\ Skip(r, {500})
    /\ UNCHANGED <<flushed, results, answered, connected, table, faults>>

\* refresh() raises outside a flush.  If the connection is lost, nothing goes
\* through the session any more; if the server cancelled the SELECT, its
\* transaction is aborted and SQLAlchemy does not know.
RefreshFails(r) ==
    /\ phase[r] = "refreshing"
    /\ Fault
    /\ flushed' = [flushed EXCEPT ![r] = {}]
    /\ \E state \in {"aborted", "deactivated"} :
          session' = [session EXCEPT ![r] = state]
    /\ Skip(r, {500})
    /\ UNCHANGED <<results, answered, connected, table>>

\* Wrong: the loop does not move on past the last event.
Refresh_Stuck(r) ==
    /\ phase[r] = "refreshing"
    /\ results' = [results EXCEPT ![r] = @ \union {Current(r)}]
    /\ done' = [done EXCEPT ![r] = @ + 1]
    /\ Goto(r, "flushing")
    /\ UNCHANGED <<flushed, session, status, answered, connected, table, faults>>

\* The row is read back and the result appended.
Refresh(r) ==
    /\ phase[r] = "refreshing"
    /\ results' = [results EXCEPT ![r] = @ \union {Current(r)}]
    /\ done' = [done EXCEPT ![r] = @ + 1]
    /\ Goto(r, "pricing")
    /\ UNCHANGED <<flushed, session, status, answered, connected, table, faults>>

\* The endpoint returns its results.
Return(r) ==
    /\ phase[r] = "pricing" /\ done[r] = Len(Body[r])
    /\ Decide(r, 201)
    /\ Goto(r, Returned)
    /\ UNCHANGED <<done, flushed, session, results, answered, connected, table,
                   faults>>

-----------------------------------------------------------------------------
(* get_session after its yield, and the response.                          *)

\* Wrong: the session is closed on the success path only.
Close_SuccessOnly(r) ==
    /\ phase[r] = "close"
    /\ connected' = IF status[r] = 201 THEN connected \ {r} ELSE connected
    /\ Goto(r, IF answered[r] = 0 THEN "respond" ELSE "end")
    /\ UNCHANGED <<done, flushed, session, results, status, answered, table,
                   faults>>

Commit(r) ==
    /\ phase[r] = "commit" /\ session[r] # "deactivated"
    /\ table' = table \union ({r} \X flushed[r])
    /\ flushed' = [flushed EXCEPT ![r] = {}]
    /\ Goto(r, "close")
    /\ UNCHANGED <<done, session, results, status, answered, connected, faults>>

\* The commit raises: the session is deactivated, or the database fails, in
\* which case it may have committed all the same.  The exception becomes a
\* 500, if no response was sent yet.
CommitFails(r) ==
    /\ phase[r] = "commit"
    /\ \/ session[r] = "deactivated" /\ UNCHANGED <<table, faults>>
       \/ /\ session[r] # "deactivated" /\ Fault
          /\ table' \in {table, table \union ({r} \X flushed[r])}
    /\ Decide(r, 500)
    /\ Goto(r, "rollback")
    /\ UNCHANGED <<done, flushed, session, results, answered, connected>>

Rollback(r) ==
    /\ phase[r] = "rollback"
    /\ flushed' = [flushed EXCEPT ![r] = {}]
    /\ Goto(r, "close")
    /\ UNCHANGED <<done, session, results, status, answered, connected, table,
                   faults>>

\* finally: session.close() gives the connection back.
Close(r) ==
    /\ phase[r] = "close"
    /\ connected' = connected \ {r}
    /\ Goto(r, IF answered[r] = 0 THEN "respond" ELSE "end")
    /\ UNCHANGED <<done, flushed, session, results, status, answered, table,
                   faults>>

Respond(r) ==
    /\ phase[r] = "respond"
    /\ answered' = [answered EXCEPT ![r] = status[r]]
    /\ Goto(r, IF ~CommitFirst /\ status[r] = 201 THEN "commit" ELSE "end")
    /\ UNCHANGED <<done, flushed, session, results, status, connected, table,
                   faults>>

Handle(r) ==
    \/ Receive(r)
    \/ Price(r) \/ PriceFails(r)
    \/ FlushRow(r) \/ FlushFails(r) \/ FlushBroken(r)
    \/ Refresh(r) \/ RefreshFails(r)
    \/ Return(r)
    \/ Commit(r) \/ CommitFails(r) \/ Rollback(r) \/ Close(r) \/ Respond(r)

Next == \E r \in Requests : Handle(r)

Spec == Init /\ [][Next]_vars

\* The event loop runs every request on; a free connection goes to one of
\* the requests that wait for it, the oldest first.
Progress(r) == phase[r] # "idle" /\ Handle(r)

FairSpec == Spec /\ \A r \in Requests : SF_vars(Progress(r))

-----------------------------------------------------------------------------
(* Properties.                                                             *)

Rows(r) == {e \in EventIds : <<r, e>> \in table}

TypeOK ==
    /\ phase \in [Requests -> {"idle", "pricing", "flushing", "refreshing",
                               "commit", "rollback", "close", "respond", "end"}]
    /\ done \in [Requests -> Nat]
    /\ flushed \in [Requests -> SUBSET EventIds]
    /\ results \in [Requests -> SUBSET EventIds]
    /\ \A r \in Requests :
          /\ done[r] <= Len(Body[r])
          /\ phase[r] \in {"flushing", "refreshing"} => done[r] < Len(Body[r])
          /\ flushed[r] \subseteq Carried(r)
          /\ results[r] \subseteq Carried(r)
    /\ session \in [Requests -> {"active", "aborted", "deactivated"}]
    /\ status \in [Requests -> {0, 201, 400, 422, 500}]
    /\ answered \in [Requests -> {0, 201, 400, 422, 500}]
    /\ connected \subseteq Requests
    /\ table \subseteq Requests \X EventIds
    /\ faults \in 0..MaxFaults

\* A 201 is a promise: at the moment the client gets it, the committed rows
\* of its request are the events the response lists, unless the server
\* aborted the transaction in the read-back of the last row.  It is what
\* lets the SDK forget a batch it was answered.
AckedDurable ==
    \A r \in Requests : answered[r] = 201 =>
        Rows(r) = IF session[r] = "active" THEN results[r] ELSE {}

\* The rows of a request appear together or not at all, whatever its events
\* and the other requests do: what is visible is all that was inserted for
\* it, and none of it when a flush or a read-back failed.
AllOrNothing ==
    \A r \in Requests : Rows(r) # {} => session[r] = "active" /\ Rows(r) = results[r]

\* A client that was answered with an error is told the truth, except when
\* the commit itself failed: only then may its rows be there, and a retry
\* store them twice.
ErrorsStoreNothing ==
    \A r \in Requests :
        answered[r] \in {400, 422, 500} /\ Rows(r) # {} =>
            answered[r] = 500 /\ done[r] = Len(Body[r])

\* Every request is answered, also when it has to wait for a connection.
EveryRequestAnswered ==
    \A r \in Requests : (phase[r] # "idle") ~> (answered[r] # 0)
=============================================================================
