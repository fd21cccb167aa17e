----------------------------- MODULE NodeClient -----------------------------
(***************************************************************************)
(* The Node SDK's client (sdk/nodejs/src/client.ts).                       *)
(*                                                                         *)
(* One event loop runs everything: a step below is a piece of code between *)
(* two awaits.  Calls of flush() that are awaiting their request, or the   *)
(* pause before the next attempt, are the Flights; record(), the timer,    *)
(* the application and close() all start new ones, and nothing limits how  *)
(* many are under way.  The backend is external: a POST is stored or not,  *)
(* and answered, with an error status or not at all.                       *)
(*                                                                         *)
(* The fallback file is named after the current millisecond; Tick ends it. *)
(***************************************************************************)
EXTENDS Integers, Sequences, FiniteSets, SequencesExt

CONSTANTS
    Events,         \* the usage events the application may record
    Flights,        \* bound: calls of flush() under way at a time
    MaxQueueSize,   \* config.maxQueueSize
    BatchSize,      \* config.batchSize
    RetryAttempts,  \* config.retryAttempts
    AsyncMode,      \* config.asyncMode
    MaxFaults       \* bound: how many requests and file writes go wrong

ASSUME ConfigAssumption ==
    /\ MaxQueueSize \in Nat \ {0} /\ BatchSize \in Nat \ {0}
    /\ RetryAttempts \in Nat \ {0}
    /\ AsyncMode \in BOOLEAN
ASSUME FaultAssumption == MaxFaults \in Nat

VARIABLES
    recorded,  \* events the application has passed to record()
    queue,     \* this.queue, oldest first
    stage,     \* what each flight awaits
    batch,     \* its local `events`
    attempt,   \* its argument `attempt`
    closed,    \* this.closed
    exited,    \* the process is gone
    acked,     \* copies of an event that the backend stored and acknowledged
    misses,    \* copies it stored without the client learning of it
    thisMilli, \* events in the fallback file named after this millisecond
    older,     \* events in the earlier fallback files
    givenUp,   \* history: events refused by a full queue, or lost with a
               \* file that was overwritten or not written
    faults     \* faults so far

flights == <<stage, batch, attempt>>
backend == <<acked, misses>>
files == <<thisMilli, older>>
vars == <<recorded, queue, stage, batch, attempt, closed, exited, acked,
          misses, thisMilli, older, givenUp, faults>>

Init ==
    /\ recorded = {} /\ queue = <<>>
    /\ stage = [f \in Flights |-> "idle"]
    /\ batch = [f \in Flights |-> <<>>]
    /\ attempt = [f \in Flights |-> 1]
    /\ closed = FALSE /\ exited = FALSE
    /\ acked = [e \in Events |-> 0] /\ misses = [e \in Events |-> 0]
    /\ thisMilli = {} /\ older = {}
    /\ givenUp = {}
    /\ faults = 0

Fault == faults < MaxFaults /\ faults' = faults + 1

-----------------------------------------------------------------------------
\* Wrong: the queue is emptied only when the batch was answered.
Flush_Uncleared(q) ==
    \/ q = <<>> /\ queue' = q /\ UNCHANGED flights
    \/ \E f \in Flights :
            /\ q # <<>> /\ stage[f] = "idle"
            /\ stage' = [stage EXCEPT ![f] = "sending"]
            /\ batch' = [batch EXCEPT ![f] = q]
            /\ attempt' = [attempt EXCEPT ![f] = 1]
            /\ queue' = q

\* flush() up to its first await, when the queue is q: it takes all of q.
Flush(q) ==
    IF q = <<>> THEN queue' = q /\ UNCHANGED flights
    ELSE \E f \in Flights :
            /\ stage[f] = "idle"
            /\ stage' = [stage EXCEPT ![f] = "sending"]
            /\ batch' = [batch EXCEPT ![f] = q]
            /\ attempt' = [attempt EXCEPT ![f] = 1]
            /\ queue' = <<>>

\* A full queue refuses the new event.  The flush of a full batch starts
\* within the call, in both modes.
Record(e) ==
    /\ e \notin recorded
    /\ recorded' = recorded \union {e}
    /\ LET fits == Len(queue) < MaxQueueSize
           q == IF fits THEN Append(queue, e) ELSE queue
       IN  /\ givenUp' = IF fits THEN givenUp ELSE givenUp \union {e}
           /\ IF Len(q) >= BatchSize THEN Flush(q)
              ELSE queue' = q /\ UNCHANGED flights
    /\ UNCHANGED <<closed, exited, backend, files, faults>>

\* Wrong: the timer leaves a batch that is not full alone.
TimerFlush_FullOnly ==
    /\ AsyncMode /\ ~closed
    /\ Len(queue) >= BatchSize /\ Flush(queue)
    /\ UNCHANGED <<recorded, closed, exited, backend, files, givenUp, faults>>

\* The timer of async mode, until close() clears it.
TimerFlush ==
    /\ AsyncMode /\ ~closed
    /\ queue # <<>> /\ Flush(queue)
    /\ UNCHANGED <<recorded, closed, exited, backend, files, givenUp, faults>>

\* flush() called by the application.
FlushCall ==
    /\ queue # <<>> /\ Flush(queue)
    /\ UNCHANGED <<recorded, closed, exited, backend, files, givenUp, faults>>

\* close(), also as the handler of SIGINT and SIGTERM; a second call returns.
Close ==
    /\ ~closed
    /\ closed' = TRUE
    /\ Flush(queue)
    /\ UNCHANGED <<recorded, exited, backend, files, givenUp, faults>>

-----------------------------------------------------------------------------
(* The rest of flush() and sendBatch().                                    *)

Counted(copies, f) ==
    [e \in Events |-> copies[e] + IF e \in ToSet(batch[f]) THEN 1 ELSE 0]

Finish(f) ==
    /\ stage' = [stage EXCEPT ![f] = "idle"]
    /\ batch' = [batch EXCEPT ![f] = <<>>]
    /\ attempt' = [attempt EXCEPT ![f] = 1]

Answered(f) ==
    /\ stage[f] = "sending"
    /\ acked' = Counted(acked, f)
    /\ Finish(f)
    /\ UNCHANGED <<recorded, queue, closed, exited, misses, files, givenUp, faults>>

\* An error status: a pause before the next attempt, or the error is thrown,
\* after the body of the answer was awaited.
ErrorStatus(f) ==
    /\ stage[f] = "sending"
    /\ Fault
    /\ misses' \in {misses, Counted(misses, f)}
    /\ stage' = [stage EXCEPT ![f] =
                    IF attempt[f] < RetryAttempts THEN "backoff" ELSE "thrown"]
    /\ UNCHANGED <<recorded, queue, batch, attempt, closed, exited, acked,
                   files, givenUp>>

\* fetch() rejects: no connection, or the timeout.  Or the answer is no JSON.
\* Neither is tried again.
Rejected(f) ==
    /\ stage[f] = "sending"
    /\ Fault
    /\ misses' \in {misses, Counted(misses, f)}
    /\ stage' = [stage EXCEPT ![f] = "thrown"]
    /\ UNCHANGED <<recorded, queue, batch, attempt, closed, exited, acked,
                   files, givenUp>>

\* The pause is over: sendBatch(events, attempt + 1).
Again(f) ==
    /\ stage[f] = "backoff"
    /\ stage' = [stage EXCEPT ![f] = "sending"]
    /\ attempt' = [attempt EXCEPT ![f] = @ + 1]
    /\ UNCHANGED <<recorded, queue, batch, closed, exited, backend, files,
                   givenUp, faults>>

\* Wrong: the loop of unshift does not look at the length.
PutBack_Unbounded(f) == queue' = Reverse(batch[f]) \o queue

\* Wrong: the failed batch takes the place of what was recorded meanwhile.
PutBack_Replacing(f) == queue' = batch[f]

\* The loop of unshift: the first events that fit, hence in reverse order,
\* in front of what was recorded meanwhile.
PutBack(f) ==
    LET free == MaxQueueSize - Len(queue)
        room == IF Len(batch[f]) < free THEN Len(batch[f]) ELSE free
    IN  queue' = Reverse(SubSeq(batch[f], 1, room)) \o queue

\* The catch block: it puts events back and writes all of them to the file
\* of this millisecond; an error of the file system is logged.
GiveUp(f) ==
    /\ stage[f] = "thrown"
    /\ PutBack(f)
    /\ \/ /\ thisMilli' = ToSet(batch[f]) /\ UNCHANGED faults
          /\ givenUp' = givenUp \union (thisMilli \ ToSet(batch[f]))
       \/ /\ Fault
          /\ thisMilli' \in {thisMilli, {}}
          /\ givenUp' = givenUp \union (thisMilli \ thisMilli')
                                \union ToSet(batch[f])
    /\ Finish(f)
    /\ UNCHANGED <<recorded, closed, exited, backend, older>>

Tick ==
    /\ thisMilli # {}
    /\ older' = older \union thisMilli /\ thisMilli' = {}
    /\ UNCHANGED <<recorded, queue, flights, closed, exited, backend, givenUp,
                   faults>>

\* process.exit(), or nothing is left to do.  The handler of "exit" calls
\* close(), but the process does not wait for the request that starts there,
\* nor for those under way.
Exit ==
    /\ exited' = TRUE /\ closed' = TRUE
    /\ UNCHANGED <<recorded, queue, flights, backend, files, givenUp, faults>>

-----------------------------------------------------------------------------
Settle(f) ==
    Answered(f) \/ ErrorStatus(f) \/ Rejected(f) \/ Again(f) \/ GiveUp(f)

Next ==
    /\ ~exited
    /\ \/ \E e \in Events : Record(e)
       \/ TimerFlush \/ FlushCall \/ Close
       \/ \E f \in Flights : Settle(f)
       \/ Tick \/ Exit

Spec == Init /\ [][Next]_vars

\* Requests end within the timeout, pauses end, and the timer fires.
Fairness ==
    /\ WF_vars(~exited /\ TimerFlush)
    /\ \A f \in Flights : WF_vars(~exited /\ Settle(f))

FairSpec == Spec /\ Fairness

-----------------------------------------------------------------------------
(* Properties.                                                             *)

TypeOK ==
    /\ recorded \subseteq Events
    /\ queue \in Seq(Events) /\ Len(queue) <= MaxQueueSize
    /\ stage \in [Flights -> {"idle", "sending", "backoff", "thrown"}]
    /\ batch \in [Flights -> Seq(Events)]
    /\ attempt \in [Flights -> 1..RetryAttempts]
    /\ closed \in BOOLEAN /\ exited \in BOOLEAN
    /\ acked \in [Events -> Nat] /\ misses \in [Events -> Nat]
    /\ thisMilli \subseteq Events /\ older \subseteq Events
    /\ givenUp \subseteq Events
    /\ faults \in 0..MaxFaults

Held(e) == e \in ToSet(queue) \/ \E f \in Flights : e \in ToSet(batch[f])

\* Between two awaits an event is in one place only, the queue or one
\* flight, so that no two requests carry it at the same time.
OneOwner ==
    /\ IsInjective(queue)
    /\ \A f \in Flights :
          /\ IsInjective(batch[f])
          /\ ToSet(batch[f]) \cap ToSet(queue) = {}
          /\ \A g \in Flights \ {f} : ToSet(batch[f]) \cap ToSet(batch[g]) = {}

\* Events that were recorded while a request was failing keep their places
\* when its batch is put back.
PutBackKeepsNewer ==
    [][\A f \in Flights : stage[f] = "thrown" /\ stage'[f] = "idle" =>
          IsSuffix(queue, queue')]_vars

\* With the timer running, an event that was recorded leaves the memory at
\* last: what failing flushes put back is sent again until it is delivered
\* or there is no room for it.
EventuallyOut == \A e \in Events : Held(e) ~> ~Held(e) \/ closed

\* The refinement mapping to Delivery.  close() does not close a connection:
\* requests go out as before.
Status ==
    [e \in Events |-> IF Held(e) THEN "pending"
                      ELSE IF acked[e] > 0 THEN "done"
                      ELSE IF e \in recorded THEN "out" ELSE "new"]

Copies == [e \in Events |-> acked[e] + misses[e]]

D == INSTANCE Delivery WITH
        status <- Status, copies <- Copies,
        closed <- FALSE

\* Whatever overlaps in the event loop, the client delivers each event at
\* least once or gives it up for a reason: a full queue or a failure.
Delivers == D!Spec
=============================================================================
