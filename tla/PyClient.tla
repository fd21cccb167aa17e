------------------------------ MODULE PyClient ------------------------------
(***************************************************************************)
(* The Python SDK's client (sdk/python/src/token_trackr/client.py).        *)
(*                                                                         *)
(* Threads of one application process share one TokenTrackrClient:         *)
(*   - one thread per record() call, named by the event it records.  In    *)
(*     async mode the daemon thread that the call may spawn to flush goes  *)
(*     on under the same name, since the call itself returns there;        *)
(*   - Worker, the background thread of async mode;                        *)
(*   - Main, the application thread that owns the client: it calls         *)
(*     flush() and close(), and runs the atexit callback, close() again.   *)
(* The backend is external: a POST is stored or not, and its answer        *)
(* reaches the client or not.                                              *)
(*                                                                         *)
(* Time is only what the code can observe of it: the fallback file is      *)
(* named after the current second, and the waits between two attempts      *)
(* last a second at least.  Tick ends the current second.                  *)
(***************************************************************************)
EXTENDS Integers, Sequences, FiniteSets, SequencesExt

CONSTANTS
    Events,        \* the usage events the application may record
    Worker, Main,  \* the two threads that are not record() calls
    MaxQueueSize,  \* config.max_queue_size
    BatchSize,     \* config.batch_size
    AsyncMode,     \* config.async_mode
    MaxFaults      \* bound: how many requests and file writes go wrong

ASSUME ThreadAssumption ==
    Worker \notin Events /\ Main \notin Events /\ Worker # Main
ASSUME ConfigAssumption ==
    /\ MaxQueueSize \in Nat \ {0}
    /\ BatchSize \in Nat \ {0}
    /\ AsyncMode \in BOOLEAN
ASSUME FaultAssumption == MaxFaults \in Nat

VARIABLES
    queue,         \* self._queue, oldest first
    pc,            \* where each thread is
    batch,         \* the local list `events` of flush(), per thread
    attempt,       \* requests tried for this batch by the retry decorator
    stop,          \* self._stop_event
    httpClosed,    \* self._client was closed
    exiting,       \* the interpreter is running the atexit callbacks
    exited,        \* the process is gone, and its daemon threads with it
    acked,         \* copies of an event the backend stored and acknowledged
    misses,        \* copies it stored without the client learning of it
    thisSecond,    \* events in the fallback file named after this second
    older,         \* events in the fallback files of earlier seconds
    turnedDown,    \* history: events for which the queue had no room when
                   \* their batch was put back
    givenUp,       \* history: events dropped by a full deque, and those turned
                   \* down whose fallback file was not written or overwritten
    faults         \* faults so far

memory == <<queue, batch>>
life == <<stop, httpClosed, exiting, exited>>
backend == <<acked, misses>>
files == <<thisSecond, older>>
history == <<turnedDown, givenUp>>
vars == <<queue, pc, batch, attempt, stop, httpClosed, exiting, exited,
          acked, misses, thisSecond, older, turnedDown, givenUp, faults>>

Threads == Events \union {Worker, Main}

\* @retry(stop=stop_after_attempt(3)): the number is in the decorator.
StopAfterAttempt == 3

-----------------------------------------------------------------------------
Init ==
    /\ queue = <<>>
    /\ pc = [t \in Threads |->
                IF t = Worker THEN IF AsyncMode THEN "loop" ELSE "done"
                ELSE IF t = Main THEN "open" ELSE "idle"]
    /\ batch = [t \in Threads |-> <<>>]
    /\ attempt = [t \in Threads |-> 0]
    /\ stop = FALSE /\ httpClosed = FALSE
    /\ exiting = FALSE /\ exited = FALSE
    /\ acked = [e \in Events |-> 0] /\ misses = [e \in Events |-> 0]
    /\ thisSecond = {} /\ older = {}
    /\ turnedDown = {} /\ givenUp = {}
    /\ faults = 0

Goto(t, label) == pc' = [pc EXCEPT ![t] = label]

Fault == faults < MaxFaults /\ faults' = faults + 1

-----------------------------------------------------------------------------
(* record(): append under the lock, look at the length after releasing it. *)

\* deque(maxlen=n).append: a full deque drops its oldest item.
Pushed(q, e) ==
    IF Len(q) < MaxQueueSize THEN Append(q, e) ELSE Append(Tail(q), e)

RecordAppend(e) ==
    /\ ~exiting
    /\ pc[e] = "idle"
    /\ queue' = Pushed(queue, e)
    /\ givenUp' = givenUp \union (ToSet(queue) \ ToSet(queue'))
    /\ Goto(e, "appended")
    /\ UNCHANGED <<batch, attempt, life, backend, files, turnedDown, faults>>

\* Wrong: a length test that two appends in a row step over.
RecordCheck_Equal(e) ==
    /\ pc[e] = "appended"
    /\ Goto(e, IF Len(queue) = BatchSize THEN "flush" ELSE "done")
    /\ UNCHANGED <<memory, attempt, life, backend, files, history, faults>>

\* Wrong: off by one.
RecordCheck_Above(e) ==
    /\ pc[e] = "appended"
    /\ Goto(e, IF Len(queue) > BatchSize THEN "flush" ELSE "done")
    /\ UNCHANGED <<memory, attempt, life, backend, files, history, faults>>

\* A full batch is flushed: by a new daemon thread, or by the call itself.
RecordCheck(e) ==
    /\ pc[e] = "appended"
    /\ Goto(e, IF Len(queue) >= BatchSize THEN "flush" ELSE "done")
    /\ UNCHANGED <<memory, attempt, life, backend, files, history, faults>>

-----------------------------------------------------------------------------
(* flush(), in whichever thread runs it.                                   *)

\* Where a thread goes on when flush() returns or raises.  Main's close()
\* proceeds to _client.close(); any other flush() of Main just returns.
AfterFlush(t) ==
    IF t \in Events THEN "done"
    ELSE IF t = Worker THEN "loop"
    ELSE IF stop THEN "closing" ELSE "open"

Return(t) ==
    /\ Goto(t, AfterFlush(t))
    /\ batch' = [batch EXCEPT ![t] = <<>>]
    /\ attempt' = [attempt EXCEPT ![t] = 0]

\* Wrong: no lock, so that an append may fall between snapshot and clear.
TakeBatch_Torn(t) ==
    /\ pc[t] = "flush"
    /\ Goto(t, IF queue = <<>> THEN AfterFlush(t) ELSE "sending")
    /\ \E n \in {Len(queue), Len(queue) - 1} :
          batch' = [batch EXCEPT ![t] = SubSeq(queue, 1, n)]
    /\ queue' = <<>>
    /\ UNCHANGED <<attempt, life, backend, files, history, faults>>

\* Wrong: the queue is not cleared with the snapshot.
TakeBatch_Uncleared(t) ==
    /\ pc[t] = "flush"
    /\ Goto(t, IF queue = <<>> THEN AfterFlush(t) ELSE "sending")
    /\ batch' = [batch EXCEPT ![t] = queue]
    /\ UNCHANGED <<queue, attempt, life, backend, files, history, faults>>

\* Snapshot and clear, in one critical section.
TakeBatch(t) ==
    /\ pc[t] = "flush"
    /\ Goto(t, IF queue = <<>> THEN AfterFlush(t) ELSE "sending")
    /\ batch' = [batch EXCEPT ![t] = queue]
    /\ queue' = <<>>
    /\ UNCHANGED <<attempt, life, backend, files, history, faults>>

\* One more stored copy of each event of t's batch.
Counted(copies, t) ==
    [e \in Events |-> copies[e] + IF e \in ToSet(batch[t]) THEN 1 ELSE 0]

\* Wrong: the batch goes back to the queue whatever became of the request.
SendOk_PutBack(t) ==
    /\ pc[t] = "sending" /\ ~httpClosed
    /\ acked' = Counted(acked, t)
    /\ Goto(t, "requeue")
    /\ UNCHANGED <<memory, attempt, life, misses, files, history, faults>>

SendOk(t) ==
    /\ pc[t] = "sending" /\ ~httpClosed
    /\ acked' = Counted(acked, t)
    /\ Return(t)
    /\ UNCHANGED <<queue, life, misses, files, history, faults>>

\* An httpx error or an error status: tried again after a pause, unless it
\* was the last attempt.  The backend may have stored the batch all the same.
SendFails(t) ==
    /\ pc[t] = "sending" /\ ~httpClosed
    /\ Fault
    /\ misses' \in {misses, Counted(misses, t)}
    /\ attempt' = [attempt EXCEPT ![t] = @ + 1]
    /\ Goto(t, IF attempt'[t] = StopAfterAttempt THEN "requeue" ELSE "backoff")
    /\ UNCHANGED <<memory, life, acked, files, history>>

\* A stored batch whose answer cannot be parsed: not an httpx error, so the
\* retry decorator lets it through at once.
AnswerUnusable(t) ==
    /\ pc[t] = "sending" /\ ~httpClosed
    /\ Fault
    /\ misses' = Counted(misses, t)
    /\ Goto(t, "requeue")
    /\ UNCHANGED <<memory, attempt, life, acked, files, history>>

\* Wrong: the error of a closed client is retried like a network error.
SendOnClosedClient_Retried(t) ==
    /\ pc[t] = "sending" /\ httpClosed
    /\ Goto(t, "backoff")
    /\ UNCHANGED <<memory, attempt, life, backend, files, history, faults>>

\* post() on a closed httpx client raises RuntimeError: not retried either.
\* That is a request that had not begun when the client was closed, or the
\* retry of one that was cut off.
SendOnClosedClient(t) ==
    /\ pc[t] = "sending" /\ httpClosed
    /\ Goto(t, "requeue")
    /\ UNCHANGED <<memory, attempt, life, backend, files, history, faults>>

\* How many events of the failed batch still fit in the queue.
Room(t) ==
    LET free == MaxQueueSize - Len(queue)
    IN  IF Len(batch[t]) < free THEN Len(batch[t]) ELSE free

\* Wrong: no length test, but the deque stays bounded (its newest items go).
Requeue_Evicting(t) ==
    /\ pc[t] = "requeue"
    /\ LET all == Reverse(batch[t]) \o queue
       IN  queue' = SubSeq(all, 1, IF Len(all) < MaxQueueSize THEN Len(all)
                                   ELSE MaxQueueSize)
    /\ Goto(t, "saving")
    /\ UNCHANGED <<batch, attempt, life, backend, files, history, faults>>

\* Wrong: neither a length test nor a bounded deque.
Requeue_Unbounded(t) ==
    /\ pc[t] = "requeue"
    /\ queue' = Reverse(batch[t]) \o queue
    /\ Goto(t, "saving")
    /\ UNCHANGED <<batch, attempt, life, backend, files, history, faults>>

\* The loop of appendleft: the first events that fit, hence in reverse
\* order, in front of what was recorded meanwhile.
Requeue(t) ==
    /\ pc[t] = "requeue"
    /\ queue' = Reverse(SubSeq(batch[t], 1, Room(t))) \o queue
    /\ turnedDown' = turnedDown \union (ToSet(batch[t]) \ ToSet(queue'))
    /\ Goto(t, "saving")
    /\ UNCHANGED <<batch, attempt, life, backend, files, givenUp, faults>>

\* _save_to_fallback: open(..., "w") on the file of this second, which takes
\* from an earlier batch what was not put back.
Save(t) ==
    /\ pc[t] = "saving"
    /\ thisSecond' = ToSet(batch[t])
    /\ givenUp' = givenUp \union ((thisSecond \ thisSecond') \cap turnedDown)
    /\ Return(t)
    /\ UNCHANGED <<queue, life, backend, older, turnedDown, faults>>

\* The write fails, with the file already truncated or not even opened
\* (logged), or mkdir fails (raised to whoever called flush()).
SaveFails(t) ==
    /\ pc[t] = "saving"
    /\ Fault
    /\ thisSecond' \in {thisSecond, {}}
    /\ givenUp' = givenUp \union
          (((thisSecond \ thisSecond') \union ToSet(batch[t])) \cap turnedDown)
    /\ Return(t)
    /\ UNCHANGED <<queue, life, backend, older, turnedDown>>

-----------------------------------------------------------------------------
(* The worker, and the life of the client.                                 *)

\* Wrong: an exception that left the loop would end the worker.
WorkerLoop_DiesOnError ==
    /\ pc[Worker] = "loop"
    /\ Goto(Worker, IF stop \/ faults > 0 THEN "done" ELSE "sleep")
    /\ UNCHANGED <<memory, attempt, life, backend, files, history, faults>>

WorkerLoop ==
    /\ pc[Worker] = "loop"
    /\ Goto(Worker, IF stop THEN "done" ELSE "sleep")
    /\ UNCHANGED <<memory, attempt, life, backend, files, history, faults>>

WorkerWake ==
    /\ pc[Worker] = "sleep"
    /\ Goto(Worker, "flush")
    /\ UNCHANGED <<memory, attempt, life, backend, files, history, faults>>

\* flush() called by the application, on an open client (once closed, the
\* final flush of AtExit is the same).
FlushCall ==
    /\ ~exiting
    /\ pc[Main] = "open"
    /\ Goto(Main, "flush")
    /\ UNCHANGED <<memory, attempt, life, backend, files, history, faults>>

\* close(), up to its final flush.  join(timeout=5) returns when the worker
\* has ended or five seconds have passed, whatever the worker is doing.
Close ==
    /\ ~exiting
    /\ pc[Main] = "open"
    /\ stop' = TRUE
    /\ Goto(Main, "flush")
    /\ UNCHANGED <<memory, attempt, httpClosed, exiting, exited, backend,
                   files, history, faults>>

\* A record() call that has not returned yet.
InCall(e) ==
    pc[e] \notin {"idle", "done"} /\ (AsyncMode => pc[e] = "appended")

\* The interpreter ends once the application's calls have returned, and
\* first runs the callback atexit.register(self.close).
AtExit ==
    /\ ~exiting
    /\ pc[Main] \in {"open", "closed"}
    /\ \A e \in Events : ~InCall(e)
    /\ exiting' = TRUE
    /\ stop' = TRUE
    /\ Goto(Main, "flush")
    /\ UNCHANGED <<memory, attempt, httpClosed, exited, backend, files,
                   history, faults>>

\* _client.close().  A request under way is cut off with an httpx error: it
\* fails just before this step, SendFails, stored or not.
CloseHttp ==
    /\ pc[Main] = "closing"
    /\ httpClosed' = TRUE
    /\ Goto(Main, "closed")
    /\ UNCHANGED <<memory, attempt, stop, exiting, exited, backend, files,
                   history, faults>>

Exit ==
    /\ exiting /\ pc[Main] = "closed"
    /\ exited' = TRUE
    /\ UNCHANGED <<memory, pc, attempt, stop, httpClosed, exiting, backend,
                   files, history, faults>>

\* The second ends: the next fallback file has another name, and pauses of a
\* second or more, all begun before, may be over.
Tick ==
    /\ older' = older \union thisSecond
    /\ thisSecond' = {}
    /\ pc' = [t \in Threads |-> IF pc[t] = "backoff" THEN "sending" ELSE pc[t]]
    /\ UNCHANGED <<memory, attempt, life, backend, history, faults>>

-----------------------------------------------------------------------------
Record(e) == RecordAppend(e) \/ RecordCheck(e)

FlushStep(t) ==
    \/ TakeBatch(t)
    \/ SendOk(t) \/ SendFails(t) \/ AnswerUnusable(t) \/ SendOnClosedClient(t)
    \/ Requeue(t)
    \/ Save(t) \/ SaveFails(t)

Next ==
    /\ ~exited
    /\ \/ \E e \in Events : Record(e)
       \/ \E t \in Threads : FlushStep(t)
       \/ WorkerLoop \/ WorkerWake
       \/ FlushCall \/ Close \/ AtExit \/ CloseHttp \/ Exit
       \/ Tick

Spec == Init /\ [][Next]_vars

-----------------------------------------------------------------------------
(* Fairness.  The OS schedules every runnable thread, requests end within  *)
(* the httpx timeout, and seconds pass.  Nothing makes the application     *)
(* record, flush, close or exit, nor a request fail.                       *)

Alive(step) == ~exited /\ step

Fairness ==
    /\ WF_vars(Alive(Tick))
    /\ WF_vars(Alive(WorkerLoop \/ WorkerWake))
    /\ WF_vars(Alive(CloseHttp)) /\ WF_vars(Alive(Exit))
    /\ \A e \in Events : WF_vars(Alive(RecordCheck(e)))
    /\ \A t \in Threads : WF_vars(Alive(FlushStep(t)))

FairSpec == Spec /\ Fairness

-----------------------------------------------------------------------------
(* Properties.                                                             *)

Labels == {"idle", "appended", "flush", "sending", "backoff", "requeue",
           "saving", "done", "loop", "sleep", "open", "closing", "closed"}

\* The deque never exceeds its bound, a batch is tried at most three times,
\* and every variable keeps its type.
TypeOK ==
    /\ queue \in Seq(Events) /\ Len(queue) <= MaxQueueSize
    /\ pc \in [Threads -> Labels]
    /\ batch \in [Threads -> Seq(Events)]
    /\ attempt \in [Threads -> 0..StopAfterAttempt]
    /\ stop \in BOOLEAN /\ httpClosed \in BOOLEAN
    /\ exiting \in BOOLEAN /\ exited \in BOOLEAN
    /\ acked \in [Events -> Nat] /\ misses \in [Events -> Nat]
    /\ thisSecond \subseteq Events /\ older \subseteq Events
    /\ turnedDown \subseteq Events /\ givenUp \subseteq Events
    /\ faults \in 0..MaxFaults

Recorded(e) == pc[e] # "idle"

\* The thread is responsible for its batch: the queue does not hold it.
Holds(t) == pc[t] \in {"sending", "backoff", "requeue"}

Stored(e) == acked[e] > 0 \/ misses[e] > 0

OnFile(e) == e \in thisSecond \union older

InMemory(e) ==
    \/ e \in ToSet(queue)
    \/ \E t \in Threads :
          (Holds(t) \/ pc[t] = "saving") /\ e \in ToSet(batch[t])

\* No interleaving of appends, snapshots, failures and requeues loses an
\* event silently: whatever record() accepted is still in memory, stored by
\* the backend, in a fallback file, or was given up in one of the two ways
\* the code has: a full deque dropped it, or the queue had no room for it
\* after a failed flush and then its file was not written or overwritten.  A
\* save that fails is no excuse for an event that was put back.
Accounted ==
    \A e \in Events :
        Recorded(e) => InMemory(e) \/ Stored(e) \/ OnFile(e) \/ e \in givenUp

\* Between concurrent flushes an event has one owner: it is in the queue
\* once, or in the batch of one thread once, never in two places from which
\* it would be sent twice.
OneOwner ==
    /\ IsInjective(queue)
    /\ \A t \in Threads : Holds(t) =>
          /\ IsInjective(batch[t])
          /\ ToSet(batch[t]) \cap ToSet(queue) = {}
          /\ \A u \in Threads \ {t} :
                Holds(u) => ToSet(batch[t]) \cap ToSet(batch[u]) = {}

\* The backend acknowledges an event once at most, and once it has, the
\* client keeps no copy that it could send again: duplicates at the backend
\* come from lost acknowledgements only, one each.
AckedOnce ==
    \A e \in Events :
        /\ acked[e] <= 1
        /\ acked[e] = 1 =>
             /\ e \notin ToSet(queue)
             /\ \A t \in Threads : Holds(t) => e \notin ToSet(batch[t])

\* record() compares the length with batch_size after releasing the lock,
\* and yet a full batch never waits for the timer: as long as no flush
\* failed, some call is about to look at the length or some thread is about
\* to take the queue.
FullBatchNoticed ==
    Len(queue) >= BatchSize /\ faults = 0 /\ ~httpClosed =>
        \E t \in Threads : pc[t] \in {"appended", "flush"}

\* Putting a failed batch back never drops an event recorded meanwhile: the
\* length test before each appendleft keeps the bounded deque from evicting
\* at its other end.
RequeueKeepsNewer ==
    [][\A t \in Threads : pc[t] = "requeue" /\ pc'[t] = "saving" =>
          IsSuffix(queue, queue')]_vars

\* The client may still send the event.
Pending(e) ==
    e \in ToSet(queue) \/ \E t \in Threads : Holds(t) /\ e \in ToSet(batch[t])

\* In async mode, on a client nobody closes, a recorded event does not wait
\* for ever: the worker survives failed flushes and sends what they put back,
\* until the event is delivered or there is no room for it.
EventuallyOut == \A e \in Events : Pending(e) ~> ~Pending(e) \/ stop

\* The refinement mapping to Delivery: what each event is to the client, and
\* what became of its copies.
Status ==
    [e \in Events |-> IF Pending(e) THEN "pending"
                      ELSE IF acked[e] > 0 THEN "done"
                      ELSE IF Recorded(e) THEN "out" ELSE "new"]

Copies == [e \in Events |-> acked[e] + misses[e]]

D == INSTANCE Delivery WITH
        status <- Status, copies <- Copies,
        closed <- httpClosed

\* Whatever its threads do to queue, batches and files, the client delivers
\* each event at least once or gives it up for a reason: a full queue, a
\* failure, or its closed connection.
Delivers == D!Spec

\* The atexit callback ends even when close() has run before, so that the
\* final flush finds the HTTP client closed.
ExitTerminates == exiting ~> exited
=============================================================================
