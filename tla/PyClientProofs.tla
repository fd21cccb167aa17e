--------------------------- MODULE PyClientProofs ---------------------------
(***************************************************************************)
(* Proofs about PyClient, for every number of events, queue bound, batch   *)
(* size and number of faults, in async and in sync mode.                   *)
(***************************************************************************)
EXTENDS PyClient, DataLemmas, TLAPS

-----------------------------------------------------------------------------
(* Lemmas about the sequences the queue is made of.                        *)

\* Append to the bounded deque: its type, its bound, and what it holds.
LEMMA PushedMembers ==
    ASSUME NEW q \in Seq(Events), Len(q) <= MaxQueueSize, NEW e \in Events
    PROVE  /\ Pushed(q, e) \in Seq(Events)
           /\ Len(Pushed(q, e)) <= MaxQueueSize
           /\ e \in ToSet(Pushed(q, e))
           /\ ToSet(Pushed(q, e)) \subseteq ToSet(q) \union {e}
<1> USE ConfigAssumption
<1>1. CASE Len(q) < MaxQueueSize
  <2>1. Pushed(q, e) = Append(q, e)
    BY <1>1 DEF Pushed
  <2>2. Append(q, e)[Len(q) + 1] = e /\ \A i \in 1..Len(q) : Append(q, e)[i] = q[i]
    OBVIOUS
  <2> QED BY <1>1, <2>1, <2>2 DEF ToSet
<1>2. CASE Len(q) = MaxQueueSize
  <2>1. Pushed(q, e) = Append(Tail(q), e)
    BY <1>2 DEF Pushed
  <2> DEFINE r == Tail(q)
  <2>2. r \in Seq(Events) /\ Len(r) = Len(q) - 1 /\ \A i \in 1..Len(r) : r[i] = q[i + 1]
    BY <1>2
  <2>3. \A i \in 1..Len(r) : r[i] \in ToSet(q)
    BY <2>2 DEF ToSet
  <2> HIDE DEF r
  <2>4. Append(r, e)[Len(r) + 1] = e /\ \A i \in 1..Len(r) : Append(r, e)[i] = r[i]
    BY <2>2
  <2>5. ToSet(Append(r, e)) \subseteq ToSet(q) \union {e}
    BY <2>2, <2>3, <2>4 DEF ToSet
  <2>6. e \in ToSet(Append(r, e))
    BY <2>2, <2>4 DEF ToSet
  <2> QED BY <1>2, <2>1, <2>2, <2>5, <2>6 DEF r
<1> QED BY <1>1, <1>2

-----------------------------------------------------------------------------
(* Type correctness.  TypeOK is not inductive: that a batch is tried three *)
(* times at most needs AttemptInv.                                         *)

\* A thread that may still send has an attempt left, and a thread without a
\* batch has made none.
AttemptInv ==
    \A t \in Threads :
        /\ pc[t] \in {"sending", "backoff"} => attempt[t] < StopAfterAttempt
        /\ pc[t] \notin {"sending", "backoff", "requeue", "saving"} =>
              attempt[t] = 0

\* The labels flush() leaves a thread at.
LEMMA AfterFlushLabels ==
    ASSUME NEW t \in Threads
    PROVE  AfterFlush(t) \in {"loop", "closing", "open", "done"}
  BY DEF AfterFlush

LEMMA RoomBounds ==
    ASSUME TypeOK, NEW t \in Threads
    PROVE  /\ Room(t) \in 0..Len(batch[t])
           /\ Room(t) + Len(queue) <= MaxQueueSize
  BY ConfigAssumption DEF TypeOK, Room

\* What the requeue of a failed batch makes of the queue.
LEMMA RequeuedQueue ==
    ASSUME TypeOK, NEW t \in Threads, Requeue(t)
    PROVE  /\ queue' \in Seq(Events)
           /\ Len(queue') = Room(t) + Len(queue)
           /\ \A i \in 1..Room(t) : queue'[i] = batch[t][Room(t) - i + 1]
           /\ \A i \in 1..Len(queue) : queue'[Room(t) + i] = queue[i]
<1> DEFINE r == Reverse(SubSeq(batch[t], 1, Room(t)))
<1>0. batch[t] \in Seq(Events) /\ queue \in Seq(Events)
  BY DEF TypeOK
<1>1. queue' = r \o queue
  BY DEF Requeue
<1>2. r \in Seq(Events) /\ Len(r) = Room(t)
      /\ \A i \in 1..Room(t) : r[i] = batch[t][Room(t) - i + 1]
  BY <1>0, RoomBounds, ReversedPrefix
<1>3. Room(t) \in Nat
  BY RoomBounds, <1>0
<1> HIDE DEF r
<1>4. \A i \in 1..Len(r) : (r \o queue)[i] = r[i]
  BY <1>0, <1>2
<1>5. \A i \in 1..Len(queue) : (r \o queue)[Len(r) + i] = queue[i]
  BY <1>0, <1>2
<1>6. r \o queue \in Seq(Events) /\ Len(r \o queue) = Len(r) + Len(queue)
  BY <1>0, <1>2
<1> QED BY <1>1, <1>2, <1>3, <1>4, <1>5, <1>6

LEMMA TypeInit == Init => TypeOK /\ AttemptInv
<1> SUFFICES ASSUME Init
             PROVE  TypeOK /\ AttemptInv
  OBVIOUS
<1>1. pc \in [Threads -> Labels] /\ attempt \in [Threads -> 0..StopAfterAttempt]
  BY DEF Init, Labels, StopAfterAttempt
<1>2. queue \in Seq(Events) /\ Len(queue) <= MaxQueueSize
  BY ConfigAssumption DEF Init
<1>3. batch \in [Threads -> Seq(Events)]
  BY DEF Init
<1>4. AttemptInv
  BY DEF Init, AttemptInv
<1>5. /\ stop \in BOOLEAN /\ httpClosed \in BOOLEAN
      /\ exiting \in BOOLEAN /\ exited \in BOOLEAN
  BY DEF Init
<1>6. /\ acked \in [Events -> Nat] /\ misses \in [Events -> Nat]
      /\ thisSecond \subseteq Events /\ older \subseteq Events
      /\ turnedDown \subseteq Events /\ givenUp \subseteq Events
      /\ faults \in 0..MaxFaults
  BY FaultAssumption DEF Init
<1> QED BY <1>1, <1>2, <1>3, <1>4, <1>5, <1>6 DEF TypeOK

LEMMA TypeStep == TypeOK /\ AttemptInv /\ [Next]_vars => TypeOK' /\ AttemptInv'
<1> SUFFICES ASSUME TypeOK, AttemptInv, [Next]_vars
             PROVE  TypeOK' /\ AttemptInv'
  OBVIOUS
<1> USE FaultAssumption, ThreadAssumption
    DEF TypeOK, AttemptInv, Goto, memory, life, backend, files, history, Labels,
        StopAfterAttempt
<1>1. ASSUME NEW e \in Events, RecordAppend(e)
      PROVE  TypeOK' /\ AttemptInv'
  <2>1. e \in Threads
    BY DEF Threads
  <2>2. queue' \in Seq(Events) /\ Len(queue') <= MaxQueueSize
    BY <1>1, PushedMembers DEF RecordAppend
  <2>3. ToSet(queue) \subseteq Events
    BY ToSetMembers
  <2>4. turnedDown' \subseteq Events /\ givenUp' \subseteq Events
    BY <1>1, <2>3 DEF RecordAppend
  <2>5. pc' \in [Threads -> Labels] /\ AttemptInv'
    BY <1>1, <2>1 DEF RecordAppend
  <2>6. /\ UNCHANGED <<batch, attempt, stop, httpClosed, exiting, exited>>
        /\ UNCHANGED <<acked, misses, thisSecond, older, faults>>
    BY <1>1 DEF RecordAppend
  <2> QED BY <2>2, <2>4, <2>5, <2>6
<1>2. ASSUME NEW e \in Events, RecordCheck(e)
      PROVE  TypeOK' /\ AttemptInv'
  <2>1. e \in Threads
    BY DEF Threads
  <2> QED BY <1>2, <2>1 DEF RecordCheck
<1>3. ASSUME NEW t \in Threads, TakeBatch(t)
      PROVE  TypeOK' /\ AttemptInv'
  BY <1>3, AfterFlushLabels, ConfigAssumption DEF TakeBatch
<1>4. ASSUME NEW t \in Threads, SendOk(t)
      PROVE  TypeOK' /\ AttemptInv'
  <2>1. acked' \in [Events -> Nat]
    BY <1>4 DEF SendOk, Counted
  <2> QED BY <1>4, <2>1, AfterFlushLabels DEF SendOk, Return
<1>5. ASSUME NEW t \in Threads, SendFails(t)
      PROVE  TypeOK' /\ AttemptInv'
  <2>1. misses' \in [Events -> Nat]
    <3>1. misses' \in {misses, Counted(misses, t)}
      BY ONLY <1>5 DEF SendFails
    <3>2. misses \in [Events -> Nat]
      BY ONLY TypeOK DEF TypeOK
    <3>3. Counted(misses, t) \in [Events -> Nat]
      BY ONLY <3>2 DEF Counted
    <3> QED BY ONLY <3>1, <3>2, <3>3
  <2>0. attempt[t] \in 0..2
    BY <1>5 DEF SendFails
  <2>2. /\ attempt' \in [Threads -> 0..StopAfterAttempt]
        /\ attempt'[t] = attempt[t] + 1
        /\ \A u \in Threads \ {t} : attempt'[u] = attempt[u]
    BY <1>5, <2>0 DEF SendFails
  <2>3. /\ pc' \in [Threads -> Labels]
        /\ pc'[t] \in {"requeue", "backoff"}
        /\ pc'[t] = "backoff" => attempt'[t] # StopAfterAttempt
        /\ \A u \in Threads \ {t} : pc'[u] = pc[u]
    BY <1>5 DEF SendFails
  <2>4. AttemptInv'
    <3>1. attempt'[t] \in 0..3
      BY <2>2
    <3>2. pc'[t] = "backoff" => attempt'[t] < 3
      BY <2>3, <3>1
    <3> QED BY <2>2, <2>3, <3>2
  <2>5. faults' \in 0..MaxFaults
    BY <1>5 DEF SendFails, Fault
  <2> QED BY <1>5, <2>1, <2>2, <2>3, <2>4, <2>5 DEF SendFails
<1>6. ASSUME NEW t \in Threads, AnswerUnusable(t)
      PROVE  TypeOK' /\ AttemptInv'
  <2>1. misses' \in [Events -> Nat]
    BY <1>6 DEF AnswerUnusable, Counted
  <2> QED BY <1>6, <2>1 DEF AnswerUnusable, Fault
<1>7. ASSUME NEW t \in Threads, SendOnClosedClient(t)
      PROVE  TypeOK' /\ AttemptInv'
  BY <1>7 DEF SendOnClosedClient
<1>8. ASSUME NEW t \in Threads, Requeue(t)
      PROVE  TypeOK' /\ AttemptInv'
  <2>1. queue' \in Seq(Events) /\ Len(queue') = Room(t) + Len(queue)
    BY <1>8, RequeuedQueue
  <2>2. Room(t) + Len(queue) <= MaxQueueSize
    BY RoomBounds
  <2>3. turnedDown' \subseteq Events
    BY <1>8, ToSetMembers DEF Requeue
  <2> QED BY <1>8, <2>1, <2>2, <2>3 DEF Requeue
<1>9. ASSUME NEW t \in Threads, Save(t) \/ SaveFails(t)
      PROVE  TypeOK' /\ AttemptInv'
  <2>1. ToSet(batch[t]) \subseteq Events
    BY ToSetMembers
  <2>2. thisSecond' \subseteq Events /\ givenUp' \subseteq Events
        /\ faults' \in 0..MaxFaults
    BY <1>9, <2>1 DEF Save, SaveFails, Fault
  <2>3. Return(t) /\ UNCHANGED <<queue, life, backend, older, turnedDown>>
    BY <1>9 DEF Save, SaveFails
  <2> QED BY <2>2, <2>3, AfterFlushLabels DEF Return
<1>10. ASSUME WorkerLoop \/ WorkerWake
       PROVE  TypeOK' /\ AttemptInv'
  BY <1>10 DEF WorkerLoop, WorkerWake, Threads
<1>11. ASSUME FlushCall \/ Close \/ AtExit \/ CloseHttp \/ Exit
       PROVE  TypeOK' /\ AttemptInv'
  BY <1>11 DEF FlushCall, Close, AtExit, CloseHttp, Exit, Threads
<1>12. ASSUME Tick
       PROVE  TypeOK' /\ AttemptInv'
  BY <1>12 DEF Tick
<1>13. CASE UNCHANGED vars
  BY <1>13 DEF vars
<1> QED BY <1>1, <1>2, <1>3, <1>4, <1>5, <1>6, <1>7, <1>8, <1>9, <1>10, <1>11,
           <1>12, <1>13 DEF Next, Record, FlushStep

\* The queue bound, the attempt bound and the types hold in every reachable
\* state.
THEOREM TypeCorrect == Spec => []TypeOK
<1>1. TypeOK /\ AttemptInv /\ [Next]_vars => (TypeOK /\ AttemptInv)'
  BY TypeStep
<1> QED BY <1>1, TypeInit, PTL DEF Spec

-----------------------------------------------------------------------------
(* Ownership.  OneOwner and AckedOnce need each other, and both need that  *)
(* an event the application has not recorded yet is nowhere.               *)

Fresh ==
    \A e \in Events : pc[e] = "idle" =>
        /\ e \notin ToSet(queue)
        /\ \A t \in Threads : e \notin ToSet(batch[t])
        /\ acked[e] = 0

OwnInv == OneOwner /\ AckedOnce /\ Fresh

\* Steps that move no event: no thread starts to hold its batch.
LEMMA OwnFrame ==
    ASSUME OwnInv, UNCHANGED <<queue, batch, acked>>,
           \A t \in Threads : Holds(t)' => Holds(t),
           \A e \in Events : pc'[e] = "idle" => pc[e] = "idle"
    PROVE  OwnInv'
<1>1. OneOwner'
  BY DEF OwnInv, OneOwner
<1>2. AckedOnce'
  BY DEF OwnInv, AckedOnce
<1>3. Fresh'
  BY DEF OwnInv, Fresh
<1> QED BY <1>1, <1>2, <1>3 DEF OwnInv

\* A flush that ends, its batch stored and acknowledged or given up.
LEMMA OwnReturn ==
    ASSUME TypeOK, OwnInv, NEW t \in Threads, Return(t), queue' = queue,
           \/ acked' = acked
           \/ Holds(t) /\ acked' = Counted(acked, t)
    PROVE  OwnInv'
<1>1. /\ batch'[t] = <<>> /\ ~Holds(t)'
      /\ \A u \in Threads \ {t} : batch'[u] = batch[u] /\ pc'[u] = pc[u]
      /\ pc'[t] # "idle"
  BY AfterFlushLabels DEF Return, Goto, TypeOK, Holds
<1>2. ToSet(batch'[t]) = {}
  BY <1>1 DEF ToSet
<1>3. OneOwner'
  BY <1>1, <1>2 DEF OwnInv, OneOwner, Holds
<1>4. \A e \in Events : acked'[e] = acked[e] \/
         (Holds(t) /\ e \in ToSet(batch[t]) /\ acked'[e] = acked[e] + 1)
  BY DEF Counted, TypeOK
<1>5. AckedOnce'
  <2> SUFFICES ASSUME NEW e \in Events
               PROVE  /\ acked'[e] <= 1
                      /\ acked'[e] = 1 =>
                           /\ e \notin ToSet(queue')
                           /\ \A u \in Threads : Holds(u)' => e \notin ToSet(batch'[u])
    BY DEF AckedOnce
  <2>1. CASE acked'[e] = acked[e]
    BY <2>1, <1>1, <1>2 DEF OwnInv, AckedOnce, Holds
  <2>2. CASE Holds(t) /\ e \in ToSet(batch[t]) /\ acked'[e] = acked[e] + 1
    <3>1. acked[e] \in Nat /\ acked[e] <= 1 /\ acked[e] # 1
      BY <2>2 DEF OwnInv, AckedOnce, TypeOK
    <3>2. e \notin ToSet(queue) /\ \A u \in Threads \ {t} : Holds(u) => e \notin ToSet(batch[u])
      BY <2>2 DEF OwnInv, OneOwner
    <3> QED BY <2>2, <3>1, <3>2, <1>1, <1>2 DEF Holds
  <2> QED BY <2>1, <2>2, <1>4
<1>6. Fresh'
  <2> SUFFICES ASSUME NEW e \in Events, pc'[e] = "idle"
               PROVE  /\ e \notin ToSet(queue')
                      /\ \A u \in Threads : e \notin ToSet(batch'[u])
                      /\ acked'[e] = 0
    BY DEF Fresh
  <2>1. pc[e] = "idle"
    BY <1>1 DEF Threads
  <2>2. /\ e \notin ToSet(queue)
        /\ \A u \in Threads : e \notin ToSet(batch[u])
        /\ acked[e] = 0
    BY <2>1 DEF OwnInv, Fresh
  <2> QED BY <1>1, <1>2, <1>4, <2>2
<1> QED BY <1>3, <1>5, <1>6 DEF OwnInv

LEMMA OwnAppend ==
    ASSUME TypeOK, OwnInv, NEW e \in Events, RecordAppend(e)
    PROVE  OwnInv'
<1> USE DEF RecordAppend, Goto
<1>0. /\ e \in Threads /\ pc[e] = "idle" /\ pc'[e] = "appended"
      /\ \A u \in Threads \ {e} : pc'[u] = pc[u]
      /\ batch' = batch /\ acked' = acked
  BY DEF Threads, TypeOK, backend
<1>1. /\ e \notin ToSet(queue)
      /\ \A t \in Threads : e \notin ToSet(batch[t])
      /\ acked[e] = 0
  BY <1>0 DEF OwnInv, Fresh
<1>2. ToSet(queue') \subseteq ToSet(queue) \union {e}
  BY PushedMembers DEF TypeOK
<1>3. IsInjective(queue')
  <2>1. IsInjective(queue) /\ queue \in Seq(Events)
    BY DEF OwnInv, OneOwner, TypeOK
  <2>2. \A i \in 1..Len(queue) : queue[i] # e
    BY <1>1, <2>1 DEF ToSet
  <2>3. CASE Len(queue) < MaxQueueSize
    BY <2>1, <2>2, <2>3 DEF Pushed, IsInjective
  <2>4. CASE ~(Len(queue) < MaxQueueSize)
    <3>1. queue # <<>>
      BY <2>4, ConfigAssumption
    <3> DEFINE r == Tail(queue)
    <3>2. r \in Seq(Events) /\ Len(r) = Len(queue) - 1
          /\ \A i \in 1..Len(r) : r[i] = queue[i + 1]
      BY <2>1, <3>1
    <3>3. IsInjective(r) /\ \A i \in 1..Len(r) : r[i] # e
      BY <2>1, <2>2, <3>2 DEF IsInjective
    <3>4. queue' = Append(r, e)
      BY <2>4 DEF Pushed
    <3> HIDE DEF r
    <3> QED BY <3>2, <3>3, <3>4 DEF IsInjective
  <2> QED BY <2>3, <2>4
<1>4. OneOwner'
  BY <1>0, <1>1, <1>2, <1>3 DEF OwnInv, OneOwner, Holds
<1>5. AckedOnce'
  <2> SUFFICES ASSUME NEW x \in Events
               PROVE  /\ acked'[x] <= 1
                      /\ acked'[x] = 1 =>
                           /\ x \notin ToSet(queue')
                           /\ \A u \in Threads : Holds(u)' => x \notin ToSet(batch'[u])
    BY DEF AckedOnce
  <2>1. \A u \in Threads : Holds(u)' => Holds(u)
    BY <1>0 DEF Holds
  <2>2. /\ acked[x] <= 1
        /\ acked[x] = 1 =>
             /\ x \notin ToSet(queue)
             /\ \A u \in Threads : Holds(u) => x \notin ToSet(batch[u])
    BY DEF OwnInv, AckedOnce
  <2>3. x = e => acked[x] # 1
    BY <1>1
  <2>4. acked'[x] = acked[x] /\ \A u \in Threads : batch'[u] = batch[u]
    BY <1>0
  <2>5. x # e /\ x \notin ToSet(queue) => x \notin ToSet(queue')
    BY <1>2
  <2> QED BY <2>1, <2>2, <2>3, <2>4, <2>5
<1>6. Fresh'
  BY <1>0, <1>1, <1>2 DEF OwnInv, Fresh, Threads
<1> QED BY <1>4, <1>5, <1>6 DEF OwnInv

LEMMA OwnTake ==
    ASSUME TypeOK, OwnInv, NEW t \in Threads, TakeBatch(t)
    PROVE  OwnInv'
<1>1. queue' = <<>> /\ acked' = acked /\ batch' = [batch EXCEPT ![t] = queue]
  BY DEF TakeBatch, backend
<1>2. ToSet(queue') = {} /\ IsInjective(queue')
  BY <1>1 DEF ToSet, IsInjective
<1>3. batch'[t] = queue /\ \A u \in Threads \ {t} : batch'[u] = batch[u]
  BY <1>1 DEF TypeOK
<1>4. pc'[t] # "idle" /\ \A u \in Threads \ {t} : pc'[u] = pc[u]
  BY AfterFlushLabels DEF TakeBatch, Goto, TypeOK
<1>5. OneOwner'
  BY <1>2, <1>3, <1>4 DEF OwnInv, OneOwner, Holds
<1>6. AckedOnce'
  BY <1>1, <1>2, <1>3, <1>4 DEF OwnInv, AckedOnce, Holds
<1>7. Fresh'
  BY <1>1, <1>2, <1>3, <1>4 DEF OwnInv, Fresh, Threads
<1> QED BY <1>5, <1>6, <1>7 DEF OwnInv

LEMMA OwnRequeue ==
    ASSUME TypeOK, OwnInv, NEW t \in Threads, Requeue(t)
    PROVE  OwnInv'
<1> DEFINE n == Room(t)
           b == batch[t]
<1>1. n \in 0..Len(b) /\ b \in Seq(Events) /\ queue \in Seq(Events)
  BY RoomBounds DEF TypeOK
<1>2. /\ queue' \in Seq(Events) /\ Len(queue') = n + Len(queue)
      /\ \A i \in 1..n : queue'[i] = b[n - i + 1]
      /\ \A i \in 1..Len(queue) : queue'[n + i] = queue[i]
  BY RequeuedQueue
<1>3. /\ pc[t] = "requeue" /\ pc'[t] = "saving"
      /\ \A u \in Threads \ {t} : pc'[u] = pc[u]
      /\ batch' = batch /\ acked' = acked
  BY DEF Requeue, Goto, TypeOK, backend
<1>4. /\ IsInjective(b) /\ IsInjective(queue)
      /\ ToSet(b) \cap ToSet(queue) = {}
      /\ \A u \in Threads \ {t} : Holds(u) => ToSet(b) \cap ToSet(batch[u]) = {}
  BY <1>3 DEF OwnInv, OneOwner, Holds
<1> HIDE DEF n, b
<1>5. \A i \in 1..Len(queue') :
         \/ i \in 1..n /\ n - i + 1 \in 1..Len(b) /\ queue'[i] = b[n - i + 1]
         \/ i \notin 1..n /\ i - n \in 1..Len(queue) /\ queue'[i] = queue[i - n]
  <2> SUFFICES ASSUME NEW i \in 1..Len(queue'), i \notin 1..n
               PROVE  i - n \in 1..Len(queue) /\ queue'[i] = queue[i - n]
    BY <1>1, <1>2
  <2>1. i - n \in 1..Len(queue) /\ n + (i - n) = i
    BY <1>1, <1>2
  <2> QED BY <2>1, <1>2
<1>6. ToSet(queue') \subseteq ToSet(b) \union ToSet(queue)
  <2>1. \A i \in 1..Len(b) : b[i] \in ToSet(b)
    BY <1>1 DEF ToSet
  <2>2. \A i \in 1..Len(queue) : queue[i] \in ToSet(queue)
    BY <1>1 DEF ToSet
  <2>3. \A i \in 1..Len(queue') : queue'[i] \in ToSet(b) \union ToSet(queue)
    BY <2>1, <2>2, <1>5
  <2> QED BY <2>3, <1>2 DEF ToSet
<1>7. IsInjective(queue')
  <2> SUFFICES ASSUME NEW i \in 1..Len(queue'), NEW j \in 1..Len(queue'),
                      queue'[i] = queue'[j]
               PROVE  i = j
    BY <1>2 DEF IsInjective
  <2>1. \A k \in 1..Len(b), l \in 1..Len(queue) : b[k] # queue[l]
    <3>1. \A k \in 1..Len(b) : b[k] \in ToSet(b)
      BY <1>1 DEF ToSet
    <3>2. \A l \in 1..Len(queue) : queue[l] \in ToSet(queue)
      BY <1>1 DEF ToSet
    <3> QED BY <3>1, <3>2, <1>4
  <2>2. \A k, l \in 1..Len(b) : b[k] = b[l] => k = l
    BY <1>1, <1>4 DEF IsInjective
  <2>3. \A k, l \in 1..Len(queue) : queue[k] = queue[l] => k = l
    BY <1>1, <1>4 DEF IsInjective
  <2>4. CASE i \in 1..n /\ j \in 1..n
    <3>1. n - i + 1 = n - j + 1
      BY <2>2, <2>4, <1>5
    <3> QED BY <3>1, <1>1
  <2>5. CASE i \notin 1..n /\ j \notin 1..n
    <3>1. i - n = j - n
      BY <2>3, <2>5, <1>5
    <3> QED BY <3>1, <1>1
  <2>6. CASE i \in 1..n <=> j \notin 1..n
    BY <2>1, <2>6, <1>5
  <2> QED BY <2>4, <2>5, <2>6
<1>8. OneOwner'
  <2>1. ASSUME NEW u \in Threads, Holds(u)'
        PROVE  /\ u # t /\ Holds(u)
               /\ IsInjective(batch[u])
               /\ ToSet(batch[u]) \cap ToSet(queue') = {}
    BY <2>1, <1>3, <1>4, <1>6 DEF Holds, OwnInv, OneOwner
  <2> QED BY <2>1, <1>3, <1>7 DEF OwnInv, OneOwner
<1>9. AckedOnce'
  <2>1. \A e \in ToSet(b) : e \in Events => acked[e] # 1
    BY <1>3 DEF OwnInv, AckedOnce, Holds, b
  <2>2. \A u \in Threads : Holds(u)' => Holds(u)
    BY <1>3 DEF Holds
  <2> QED BY <2>1, <2>2, <1>3, <1>6 DEF OwnInv, AckedOnce
<1>10. Fresh'
  <2>1. \A e \in Events : pc'[e] = "idle" => pc[e] = "idle"
    BY <1>3 DEF Threads
  <2> QED BY <2>1, <1>3, <1>6 DEF OwnInv, Fresh, b
<1> QED BY <1>8, <1>9, <1>10 DEF OwnInv

LEMMA OwnInit == Init => OwnInv
<1> SUFFICES ASSUME Init
             PROVE  OwnInv
  OBVIOUS
<1>1. /\ ToSet(queue) = {} /\ IsInjective(queue)
      /\ \A t \in Threads : ToSet(batch[t]) = {}
  BY DEF Init, ToSet, IsInjective
<1>2. \A t \in Threads : ~Holds(t)
  BY DEF Init, Holds
<1>3. \A e \in Events : acked[e] = 0
  BY DEF Init
<1> QED BY <1>1, <1>2, <1>3 DEF OwnInv, OneOwner, AckedOnce, Fresh

LEMMA OwnStep == TypeOK /\ OwnInv /\ [Next]_vars => OwnInv'
<1> SUFFICES ASSUME TypeOK, OwnInv, [Next]_vars
             PROVE  OwnInv'
  OBVIOUS
<1>1. ASSUME NEW e \in Events, RecordAppend(e)
      PROVE  OwnInv'
  BY <1>1, OwnAppend
<1>2. ASSUME NEW e \in Events, RecordCheck(e)
      PROVE  OwnInv'
  BY <1>2, OwnFrame
     DEF RecordCheck, Goto, memory, backend, Holds, TypeOK, Threads
<1>3. ASSUME NEW t \in Threads, TakeBatch(t)
      PROVE  OwnInv'
  BY <1>3, OwnTake
<1>4. ASSUME NEW t \in Threads, SendOk(t)
      PROVE  OwnInv'
  BY <1>4, OwnReturn DEF SendOk, Holds
<1>5. ASSUME NEW t \in Threads,
             SendFails(t) \/ AnswerUnusable(t) \/ SendOnClosedClient(t)
      PROVE  OwnInv'
  BY <1>5, OwnFrame
     DEF SendFails, AnswerUnusable, SendOnClosedClient, Goto, memory, backend,
         Holds, TypeOK, Threads
<1>6. ASSUME NEW t \in Threads, Requeue(t)
      PROVE  OwnInv'
  BY <1>6, OwnRequeue
<1>7. ASSUME NEW t \in Threads, Save(t) \/ SaveFails(t)
      PROVE  OwnInv'
  BY <1>7, OwnReturn DEF Save, SaveFails, backend
<1>8. ASSUME WorkerLoop \/ WorkerWake
      PROVE  OwnInv'
  BY <1>8, OwnFrame
     DEF WorkerLoop, WorkerWake, Goto, memory, backend, Holds, TypeOK, Threads
<1>9. ASSUME FlushCall \/ Close \/ AtExit \/ CloseHttp \/ Exit
      PROVE  OwnInv'
  BY <1>9, OwnFrame
     DEF FlushCall, Close, AtExit, CloseHttp, Exit, Goto, memory, backend,
         Holds, TypeOK, Threads
<1>10. ASSUME Tick
       PROVE  OwnInv'
  BY <1>10, OwnFrame DEF Tick, memory, backend, Holds, TypeOK, Threads
<1>11. CASE UNCHANGED vars
  BY <1>11, OwnFrame DEF vars, Holds
<1> QED BY <1>1, <1>2, <1>3, <1>4, <1>5, <1>6, <1>7, <1>8, <1>9, <1>10, <1>11
        DEF Next, Record, FlushStep

\* Whatever the interleaving of record() calls, flushes and failures, an
\* event has one owner.
THEOREM Ownership == Spec => []OneOwner
<1>1. TypeOK /\ AttemptInv /\ OwnInv /\ [Next]_vars
        => (TypeOK /\ AttemptInv /\ OwnInv)'
  BY TypeStep, OwnStep
<1>2. OwnInv => OneOwner
  BY DEF OwnInv
<1> QED BY <1>1, <1>2, TypeInit, OwnInit, PTL DEF Spec

\* The backend acknowledges each event once at most.
THEOREM AcknowledgedOnce == Spec => []AckedOnce
<1>1. TypeOK /\ AttemptInv /\ OwnInv /\ [Next]_vars
        => (TypeOK /\ AttemptInv /\ OwnInv)'
  BY TypeStep, OwnStep
<1>2. OwnInv => AckedOnce
  BY DEF OwnInv
<1> QED BY <1>1, <1>2, TypeInit, OwnInit, PTL DEF Spec

-----------------------------------------------------------------------------
(* Every recorded event is accounted for.  Accounted is not inductive: what *)
(* is in a file is excused from being in memory only if the queue had no    *)
(* room for it.  So there are two invariants.  KeptInv follows an event     *)
(* through memory and does not look at the files; RescuedInv follows those  *)
(* that the queue has turned down.                                          *)

Kept(e) == Pending(e) \/ Stored(e) \/ e \in turnedDown \/ e \in givenUp

Carried(e) == \E t \in Threads : pc[t] = "saving" /\ e \in ToSet(batch[t])

Rescued(e) == Carried(e) \/ OnFile(e) \/ e \in givenUp

KeptInv == \A e \in Events : Recorded(e) => Kept(e)
RescuedInv == \A e \in turnedDown : Rescued(e)

\* Steps that leave the queue, the batches and the stored copies alone, and
\* stop no thread from holding its batch.
LEMMA KeptFrame ==
    ASSUME UNCHANGED <<queue, batch, acked, misses, turnedDown>>,
           givenUp \subseteq givenUp',
           \A t \in Threads : Holds(t) => Holds(t)',
           NEW x \in Events, Kept(x)
    PROVE  Kept(x)'
  BY DEF Kept, Pending, Stored

LEMMA KeptStep ==
    ASSUME TypeOK, [Next]_vars, NEW x \in Events, Kept(x)
    PROVE  Kept(x)'
<1> USE DEF Goto, memory, life, backend, files, history
<1>1. ASSUME NEW e \in Events, RecordAppend(e)
      PROVE  Kept(x)'
  <2>1. \A t \in Threads : Holds(t) => Holds(t)' /\ batch'[t] = batch[t]
    BY <1>1 DEF RecordAppend, TypeOK, Threads, Holds
  <2>2. x \in ToSet(queue) => x \in ToSet(queue') \/ x \in givenUp'
    BY <1>1 DEF RecordAppend
  <2>3. /\ acked' = acked /\ misses' = misses /\ turnedDown' = turnedDown
        /\ givenUp \subseteq givenUp'
    BY <1>1 DEF RecordAppend
  <2> QED BY <2>1, <2>2, <2>3 DEF Kept, Pending, Stored
<1>2. ASSUME NEW e \in Events, RecordCheck(e)
      PROVE  Kept(x)'
  BY <1>2, KeptFrame DEF RecordCheck, TypeOK, Threads, Holds
<1>3. ASSUME NEW t \in Threads, TakeBatch(t)
      PROVE  Kept(x)'
  <2>1. /\ acked' = acked /\ misses' = misses
        /\ turnedDown' = turnedDown /\ givenUp' = givenUp
    BY <1>3 DEF TakeBatch
  <2>2. \A u \in Threads : Holds(u) => u # t /\ Holds(u)' /\ batch'[u] = batch[u]
    BY <1>3 DEF TakeBatch, TypeOK, Holds
  <2>3. x \in ToSet(queue) => Holds(t)' /\ x \in ToSet(batch'[t])
    <3>1. x \in ToSet(queue) => queue # <<>>
      BY DEF ToSet
    <3> QED BY <3>1, <1>3 DEF TakeBatch, TypeOK, Holds
  <2> QED BY <2>1, <2>2, <2>3 DEF Kept, Pending, Stored
<1>4. ASSUME NEW t \in Threads, SendOk(t)
      PROVE  Kept(x)'
  <2>1. /\ queue' = queue /\ misses' = misses
        /\ turnedDown' = turnedDown /\ givenUp' = givenUp
    BY <1>4 DEF SendOk
  <2>2. \A u \in Threads \ {t} : batch'[u] = batch[u] /\ pc'[u] = pc[u]
    BY <1>4 DEF SendOk, Return, TypeOK
  <2>3. /\ acked[x] > 0 => acked'[x] > 0
        /\ x \in ToSet(batch[t]) => acked'[x] > 0
    BY <1>4 DEF SendOk, Counted, TypeOK
  <2> QED BY <2>1, <2>2, <2>3 DEF Kept, Pending, Stored, Holds
<1>5. ASSUME NEW t \in Threads, SendFails(t) \/ AnswerUnusable(t)
      PROVE  Kept(x)'
  <2>1. /\ queue' = queue /\ batch' = batch /\ acked' = acked
        /\ turnedDown' = turnedDown /\ givenUp' = givenUp
    BY <1>5 DEF SendFails, AnswerUnusable
  <2>2. misses[x] > 0 => misses'[x] > 0
    <3>1. misses' = misses \/ misses' = Counted(misses, t)
      BY <1>5 DEF SendFails, AnswerUnusable
    <3>2. misses[x] > 0 => Counted(misses, t)[x] > 0
      BY DEF Counted, TypeOK
    <3> QED BY <3>1, <3>2
  <2>3. \A u \in Threads : Holds(u) => Holds(u)'
    BY <1>5 DEF SendFails, AnswerUnusable, TypeOK, Holds
  <2> QED BY <2>1, <2>2, <2>3 DEF Kept, Pending, Stored
<1>6. ASSUME NEW t \in Threads, SendOnClosedClient(t)
      PROVE  Kept(x)'
  BY <1>6, KeptFrame DEF SendOnClosedClient, TypeOK, Holds
<1>7. ASSUME NEW t \in Threads, Requeue(t)
      PROVE  Kept(x)'
  <2>1. /\ batch' = batch /\ acked' = acked /\ misses' = misses
        /\ givenUp' = givenUp
        /\ turnedDown' = turnedDown \union (ToSet(batch[t]) \ ToSet(queue'))
    BY <1>7 DEF Requeue
  <2>2. \A u \in Threads \ {t} : Holds(u) => Holds(u)'
    BY <1>7 DEF Requeue, TypeOK, Holds
  <2>3. x \in ToSet(queue) => x \in ToSet(queue')
    <3>1. /\ queue' \in Seq(Events) /\ Len(queue') = Room(t) + Len(queue)
          /\ \A i \in 1..Len(queue) : queue'[Room(t) + i] = queue[i]
      BY <1>7, RequeuedQueue
    <3>2. Room(t) \in Nat /\ queue \in Seq(Events)
      BY RoomBounds DEF TypeOK
    <3>3. \A i \in 1..Len(queue) : queue[i] \in ToSet(queue')
      <4> TAKE i \in 1..Len(queue)
      <4>1. Room(t) + i \in 1..Len(queue')
        BY <3>1, <3>2
      <4> QED BY <4>1, <3>1 DEF ToSet
    <3> QED BY <3>2, <3>3 DEF ToSet
  <2> QED BY <2>1, <2>2, <2>3 DEF Kept, Pending, Stored
<1>8. ASSUME NEW t \in Threads, Save(t) \/ SaveFails(t)
      PROVE  Kept(x)'
  <2>1. queue' = queue /\ acked' = acked /\ misses' = misses
        /\ turnedDown' = turnedDown /\ givenUp \subseteq givenUp'
    BY <1>8 DEF Save, SaveFails
  <2>2. \A u \in Threads : Holds(u) => Holds(u)' /\ batch'[u] = batch[u]
    BY <1>8 DEF Save, SaveFails, Return, TypeOK, Holds
  <2> QED BY <2>1, <2>2 DEF Kept, Pending, Stored
<1>9. ASSUME WorkerLoop \/ WorkerWake
      PROVE  Kept(x)'
  BY <1>9, KeptFrame DEF WorkerLoop, WorkerWake, TypeOK, Holds
<1>10. ASSUME FlushCall \/ Close \/ AtExit \/ CloseHttp \/ Exit
       PROVE  Kept(x)'
  BY <1>10, KeptFrame DEF FlushCall, Close, AtExit, CloseHttp, Exit, TypeOK, Holds
<1>11. ASSUME Tick
       PROVE  Kept(x)'
  BY <1>11, KeptFrame DEF Tick, TypeOK, Holds
<1>12. CASE UNCHANGED vars
  BY <1>12, KeptFrame DEF vars, Holds
<1> QED BY <1>1, <1>2, <1>3, <1>4, <1>5, <1>6, <1>7, <1>8, <1>9, <1>10, <1>11,
           <1>12 DEF Next, Record, FlushStep

\* Only RecordAppend brings a new event in.
LEMMA KeptInvStep == TypeOK /\ KeptInv /\ [Next]_vars => KeptInv'
<1> SUFFICES ASSUME TypeOK, KeptInv, [Next]_vars, NEW x \in Events, Recorded(x)'
             PROVE  Kept(x)'
  BY DEF KeptInv
<1>1. CASE Recorded(x)
  BY <1>1, KeptStep DEF KeptInv
<1>2. CASE ~Recorded(x)
  <2>1. RecordAppend(x)
    <3> SUFFICES ASSUME ~RecordAppend(x)
                 PROVE  FALSE
      OBVIOUS
    <3>0. /\ x \in Threads /\ x # Worker /\ x # Main
          /\ pc[x] = "idle" /\ pc'[x] # "idle"
      BY <1>2, ThreadAssumption DEF Recorded, Threads
    <3> USE <3>0 DEF Goto, TypeOK
    <3>1. ASSUME NEW e \in Events, RecordAppend(e) \/ RecordCheck(e)
          PROVE  FALSE
      BY <3>1 DEF RecordAppend, RecordCheck
    <3>2. ASSUME NEW t \in Threads, FlushStep(t)
          PROVE  FALSE
      BY <3>2 DEF FlushStep, TakeBatch, SendOk, SendFails, AnswerUnusable,
                  SendOnClosedClient, Requeue, Save, SaveFails, Return
    <3>3. ASSUME WorkerLoop \/ WorkerWake \/ Tick
          PROVE  FALSE
      BY <3>3 DEF WorkerLoop, WorkerWake, Tick
    <3>4. ASSUME FlushCall \/ Close \/ AtExit \/ CloseHttp \/ Exit
          PROVE  FALSE
      BY <3>4 DEF FlushCall, Close, AtExit, CloseHttp, Exit
    <3>5. CASE UNCHANGED vars
      BY <3>5 DEF vars
    <3> QED BY <3>1, <3>2, <3>3, <3>4, <3>5 DEF Next, Record
  <2>2. x \in ToSet(queue')
    BY <2>1, PushedMembers DEF RecordAppend, TypeOK
  <2> QED BY <2>2 DEF Kept, Pending
<1> QED BY <1>1, <1>2

\* Steps that leave batches and files alone, and stop no thread from saving.
LEMMA RescuedFrame ==
    ASSUME RescuedInv, UNCHANGED <<batch, thisSecond, older, turnedDown>>,
           givenUp \subseteq givenUp',
           \A t \in Threads : pc[t] = "saving" => pc'[t] = "saving"
    PROVE  RescuedInv'
  BY DEF RescuedInv, Rescued, Carried, OnFile

LEMMA RescuedStep == TypeOK /\ RescuedInv /\ [Next]_vars => RescuedInv'
<1> SUFFICES ASSUME TypeOK, RescuedInv, [Next]_vars
             PROVE  RescuedInv'
  OBVIOUS
<1> USE DEF Goto, memory, life, backend, files, history
<1>1. ASSUME NEW e \in Events, RecordAppend(e) \/ RecordCheck(e)
      PROVE  RescuedInv'
  BY <1>1, RescuedFrame DEF RecordAppend, RecordCheck, TypeOK
<1>2. ASSUME NEW t \in Threads, TakeBatch(t) \/ SendOk(t)
      PROVE  RescuedInv'
  <2>1. UNCHANGED <<thisSecond, older, turnedDown, givenUp>>
    BY <1>2 DEF TakeBatch, SendOk
  <2>2. \A u \in Threads : pc[u] = "saving" =>
            pc'[u] = "saving" /\ batch'[u] = batch[u]
    BY <1>2 DEF TakeBatch, SendOk, Return, TypeOK
  <2> QED BY <2>1, <2>2 DEF RescuedInv, Rescued, Carried, OnFile
<1>3. ASSUME NEW t \in Threads,
             SendFails(t) \/ AnswerUnusable(t) \/ SendOnClosedClient(t)
      PROVE  RescuedInv'
  BY <1>3, RescuedFrame DEF SendFails, AnswerUnusable, SendOnClosedClient, TypeOK
<1>4. ASSUME NEW t \in Threads, Requeue(t)
      PROVE  RescuedInv'
  <2>1. /\ UNCHANGED <<batch, thisSecond, older, givenUp>>
        /\ turnedDown' = turnedDown \union (ToSet(batch[t]) \ ToSet(queue'))
    BY <1>4 DEF Requeue
  <2>2. pc'[t] = "saving" /\ \A u \in Threads : pc[u] = "saving" => pc'[u] = "saving"
    BY <1>4 DEF Requeue, TypeOK
  <2> QED BY <2>1, <2>2 DEF RescuedInv, Rescued, Carried, OnFile
<1>5. ASSUME NEW t \in Threads, Save(t) \/ SaveFails(t)
      PROVE  RescuedInv'
  <2>1. /\ older' = older /\ turnedDown' = turnedDown /\ givenUp \subseteq givenUp'
        /\ thisSecond \cap turnedDown \subseteq thisSecond' \union givenUp'
        /\ ToSet(batch[t]) \cap turnedDown \subseteq thisSecond' \union givenUp'
    BY <1>5 DEF Save, SaveFails
  <2>2. \A u \in Threads \ {t} : batch'[u] = batch[u] /\ pc'[u] = pc[u]
    BY <1>5 DEF Save, SaveFails, Return, TypeOK
  <2> QED BY <2>1, <2>2 DEF RescuedInv, Rescued, Carried, OnFile
<1>6. ASSUME WorkerLoop \/ WorkerWake
      PROVE  RescuedInv'
  BY <1>6, RescuedFrame DEF WorkerLoop, WorkerWake, TypeOK
<1>7. ASSUME FlushCall \/ Close \/ AtExit \/ CloseHttp \/ Exit
      PROVE  RescuedInv'
  BY <1>7, RescuedFrame DEF FlushCall, Close, AtExit, CloseHttp, Exit, TypeOK
<1>8. ASSUME Tick
      PROVE  RescuedInv'
  <2>1. /\ UNCHANGED <<batch, turnedDown, givenUp>>
        /\ older' = older \union thisSecond
        /\ \A u \in Threads : pc[u] = "saving" => pc'[u] = "saving"
    BY <1>8 DEF Tick, TypeOK
  <2> QED BY <2>1 DEF RescuedInv, Rescued, Carried, OnFile
<1>9. CASE UNCHANGED vars
  BY <1>9, RescuedFrame DEF vars
<1> QED BY <1>1, <1>2, <1>3, <1>4, <1>5, <1>6, <1>7, <1>8, <1>9
        DEF Next, Record, FlushStep

\* No event that record() accepted is ever lost without a trace, and a save
\* that fails loses none that was put back.
THEOREM AllAccounted == Spec => []Accounted
<1>1. Init => KeptInv /\ RescuedInv
  BY ThreadAssumption DEF Init, KeptInv, RescuedInv, Recorded, Threads
<1>2. TypeOK /\ AttemptInv /\ KeptInv /\ RescuedInv /\ [Next]_vars
        => (TypeOK /\ AttemptInv /\ KeptInv /\ RescuedInv)'
  BY TypeStep, KeptInvStep, RescuedStep
<1>3. TypeOK /\ KeptInv /\ RescuedInv => Accounted
  BY DEF KeptInv, RescuedInv, Kept, Rescued, Carried, Pending, InMemory, Accounted
<1> QED BY <1>1, <1>2, <1>3, TypeInit, PTL DEF Spec

-----------------------------------------------------------------------------
(* A full batch is noticed.  The requeue of a failed batch may fill the    *)
(* queue with nobody looking; it needs a fault or a closed client.         *)

NoticeInv ==
    /\ FullBatchNoticed
    /\ faults = 0 /\ ~httpClosed => \A t \in Threads : pc[t] # "requeue"

LEMMA NoticeStep == TypeOK /\ NoticeInv /\ [Next]_vars => NoticeInv'
<1> SUFFICES ASSUME TypeOK, NoticeInv, [Next]_vars, faults' = 0, ~httpClosed'
             PROVE  /\ Len(queue') >= BatchSize =>
                          \E t \in Threads : pc'[t] \in {"appended", "flush"}
                    /\ \A t \in Threads : pc'[t] # "requeue"
  BY DEF NoticeInv, FullBatchNoticed
<1> DEFINE Noticed == \E t \in Threads : pc[t] \in {"appended", "flush"}
           Quiet == \A t \in Threads : pc[t] # "requeue"
           Goal == /\ Len(queue') >= BatchSize => Noticed'
                   /\ Quiet'
<1> USE DEF Goto, memory, life, backend, files, history
<1>0. ASSUME faults = 0, ~httpClosed
      PROVE  (Len(queue) >= BatchSize => Noticed) /\ Quiet
  BY <1>0 DEF NoticeInv, FullBatchNoticed
<1>1. ASSUME NEW e \in Events, RecordAppend(e)
      PROVE  Goal
  <2>1. e \in Threads /\ pc'[e] = "appended"
    BY <1>1 DEF RecordAppend, TypeOK, Threads
  <2>2. Quiet'
    BY <1>0, <1>1 DEF RecordAppend, TypeOK
  <2> QED BY <2>1, <2>2
<1>2. ASSUME NEW e \in Events, RecordCheck(e)
      PROVE  Goal
  <2>1. e \in Threads /\ queue' = queue
    BY <1>2 DEF RecordCheck, Threads
  <2>2. Len(queue) >= BatchSize => pc'[e] = "flush"
    BY <1>2, <2>1 DEF RecordCheck, TypeOK
  <2>3. Quiet'
    BY <1>0, <1>2 DEF RecordCheck, TypeOK
  <2> QED BY <2>1, <2>2, <2>3
<1>3. ASSUME NEW t \in Threads, TakeBatch(t)
      PROVE  Goal
  <2>1. Len(queue') = 0
    BY <1>3 DEF TakeBatch
  <2>2. Quiet'
    BY <1>0, <1>3, AfterFlushLabels DEF TakeBatch, TypeOK
  <2> QED BY <2>1, <2>2, ConfigAssumption
<1>4. ASSUME NEW t \in Threads, SendOk(t) \/ Save(t)
      PROVE  Goal
  <2>1. /\ Return(t) /\ queue' = queue /\ faults' = faults
        /\ httpClosed' = httpClosed
        /\ pc[t] \notin {"appended", "flush"}
    BY <1>4 DEF SendOk, Save
  <2> QED BY <2>1, <1>0, AfterFlushLabels DEF Return, TypeOK
<1>5. ASSUME NEW t \in Threads, SendFails(t) \/ AnswerUnusable(t) \/ SaveFails(t)
      PROVE  FALSE
  BY <1>5 DEF SendFails, AnswerUnusable, SaveFails, Fault, TypeOK
<1>6. ASSUME NEW t \in Threads, SendOnClosedClient(t) \/ Requeue(t)
      PROVE  FALSE
  BY <1>6, <1>0 DEF SendOnClosedClient, Requeue
<1>7. ASSUME WorkerLoop \/ WorkerWake
      PROVE  Goal
  BY <1>7, <1>0 DEF WorkerLoop, WorkerWake, TypeOK, Threads
<1>8. ASSUME FlushCall \/ Close \/ AtExit \/ CloseHttp \/ Exit
      PROVE  Goal
  BY <1>8, <1>0 DEF FlushCall, Close, AtExit, CloseHttp, Exit, TypeOK, Threads
<1>9. ASSUME Tick
      PROVE  Goal
  BY <1>9, <1>0 DEF Tick, TypeOK
<1>10. CASE UNCHANGED vars
  BY <1>10, <1>0 DEF vars
<1> QED BY <1>1, <1>2, <1>3, <1>4, <1>5, <1>6, <1>7, <1>8, <1>9, <1>10
        DEF Next, Record, FlushStep

\* The length test outside of the lock misses no full batch.
THEOREM FullBatchesNoticed == Spec => []FullBatchNoticed
<1>1. Init => NoticeInv
  BY ConfigAssumption DEF Init, NoticeInv, FullBatchNoticed
<1>2. TypeOK /\ AttemptInv /\ NoticeInv /\ [Next]_vars
        => (TypeOK /\ AttemptInv /\ NoticeInv)'
  BY TypeStep, NoticeStep
<1>3. NoticeInv => FullBatchNoticed
  BY DEF NoticeInv
<1> QED BY <1>1, <1>2, <1>3, TypeInit, PTL DEF Spec

-----------------------------------------------------------------------------
(* The requeue of a failed batch keeps the newer events.                   *)

\* A failed flush puts its batch in front of the events recorded meanwhile
\* and drops none of these.
THEOREM RequeueKeepsNewerEvents == Spec => RequeueKeepsNewer
<1>1. TypeOK /\ [Next]_vars =>
        [\A t \in Threads : pc[t] = "requeue" /\ pc'[t] = "saving" =>
            IsSuffix(queue, queue')]_vars
  <2> SUFFICES ASSUME TypeOK, Next, NEW t \in Threads,
                      pc[t] = "requeue", pc'[t] = "saving"
               PROVE  IsSuffix(queue, queue')
    OBVIOUS
  <2>1. Requeue(t)
    <3> USE DEF Goto, TypeOK
    <3>1. ASSUME NEW e \in Events, Record(e)
          PROVE  Requeue(t)
      BY <3>1 DEF Record, RecordAppend, RecordCheck, Threads
    <3>2. ASSUME NEW u \in Threads, FlushStep(u)
          PROVE  Requeue(t)
      BY <3>2, AfterFlushLabels
         DEF FlushStep, TakeBatch, SendOk, SendFails, AnswerUnusable,
             SendOnClosedClient, Requeue, Save, SaveFails, Return
    <3>3. ASSUME WorkerLoop \/ WorkerWake \/ Tick
          PROVE  Requeue(t)
      BY <3>3 DEF WorkerLoop, WorkerWake, Tick
    <3>4. ASSUME FlushCall \/ Close \/ AtExit \/ CloseHttp \/ Exit
          PROVE  Requeue(t)
      BY <3>4 DEF FlushCall, Close, AtExit, CloseHttp, Exit
    <3> QED BY <3>1, <3>2, <3>3, <3>4 DEF Next
  <2>2. /\ queue' \in Seq(Events) /\ Len(queue') = Room(t) + Len(queue)
        /\ \A i \in 1..Len(queue) : queue'[Room(t) + i] = queue[i]
    BY <2>1, RequeuedQueue
  <2>3. queue \in Seq(Events) /\ Room(t) \in Nat
    BY RoomBounds DEF TypeOK
  <2> QED BY <2>2, <2>3, SuffixItems
<1> QED BY <1>1, TypeCorrect, PTL DEF Spec, RequeueKeepsNewer

-----------------------------------------------------------------------------
(* The refinement of Delivery: every step of the threads is a step of      *)
(* Delivery under the mapping of PyClient, or changes nothing of it.       *)

\* Every copy that the client does not know of comes from a fault.
MissesInv == \A e \in Events : misses[e] <= faults

RefinementInv == TypeOK /\ AttemptInv /\ OwnInv /\ NoticeInv /\ MissesInv

LEMMA MissesStep == TypeOK /\ MissesInv /\ [Next]_vars => MissesInv'
<1> SUFFICES ASSUME TypeOK, MissesInv, [Next]_vars
             PROVE  MissesInv'
  OBVIOUS
<1>1. misses' = misses /\ faults' = faults => MissesInv'
  BY DEF MissesInv
<1> USE DEF memory, life, backend, files
<1>2. ASSUME NEW e \in Events, Record(e)
      PROVE  MissesInv'
  BY <1>1, <1>2 DEF Record, RecordAppend, RecordCheck
<1>3. ASSUME NEW t \in Threads, SendFails(t) \/ AnswerUnusable(t)
      PROVE  MissesInv'
  <2>1. faults' = faults + 1 /\ (misses' = misses \/ misses' = Counted(misses, t))
    BY <1>3 DEF SendFails, AnswerUnusable, Fault
  <2>2. \A e \in Events : misses[e] \in Nat /\ Counted(misses, t)[e] <= misses[e] + 1
    BY DEF Counted, TypeOK
  <2>3. faults \in Nat
    BY FaultAssumption DEF TypeOK
  <2>4. \A e \in Events : Counted(misses, t)[e] \in Nat
    BY DEF Counted, TypeOK
  <2> QED BY <2>1, <2>2, <2>3, <2>4 DEF MissesInv
<1>4. ASSUME NEW t \in Threads,
             TakeBatch(t) \/ SendOk(t) \/ SendOnClosedClient(t) \/ Requeue(t) \/ Save(t)
      PROVE  MissesInv'
  BY <1>1, <1>4 DEF TakeBatch, SendOk, SendOnClosedClient, Requeue, Save
<1>5. ASSUME NEW t \in Threads, SaveFails(t)
      PROVE  MissesInv'
  <2>1. misses' = misses /\ faults' = faults + 1
    BY <1>5 DEF SaveFails, Fault
  <2>2. faults \in Nat /\ \A e \in Events : misses[e] \in Nat
    BY FaultAssumption DEF TypeOK
  <2> QED BY <2>1, <2>2 DEF MissesInv
<1>6. ASSUME WorkerLoop \/ WorkerWake \/ Tick
      PROVE  MissesInv'
  BY <1>1, <1>6 DEF WorkerLoop, WorkerWake, Tick
<1>7. ASSUME FlushCall \/ Close \/ AtExit \/ CloseHttp \/ Exit
      PROVE  MissesInv'
  BY <1>1, <1>7 DEF FlushCall, Close, AtExit, CloseHttp, Exit
<1>8. CASE UNCHANGED vars
  BY <1>1, <1>8 DEF vars
<1> QED BY <1>2, <1>3, <1>4, <1>5, <1>6, <1>7, <1>8 DEF Next, FlushStep

-----------------------------------------------------------------------------
(* What the status of an event depends on.                                 *)

\* A pending event was recorded and never acknowledged, and it has no more
\* copies than there were faults.
LEMMA PendingFacts ==
    ASSUME TypeOK, OwnInv, MissesInv, NEW e \in Events, Pending(e)
    PROVE  /\ Status[e] = "pending"
           /\ acked[e] = 0 /\ Recorded(e)
           /\ Copies[e] \in Nat /\ Copies[e] <= faults
<1>1. acked[e] = 0
  BY DEF OwnInv, AckedOnce, Pending, TypeOK
<1>2. Recorded(e)
  BY DEF OwnInv, Fresh, Pending, Recorded
<1> QED BY <1>1, <1>2 DEF Status, Copies, MissesInv, TypeOK

\* Steps that take no copy and record no event, after which some events are
\* pending no longer: these get the status "out", the others keep theirs.
LEMMA StatusLosing ==
    ASSUME TypeOK, OwnInv, MissesInv, UNCHANGED acked,
           \A e \in Events : Recorded(e)' <=> Recorded(e),
           \A e \in Events : Pending(e)' => Pending(e),
           NEW B, B = {e \in Events : Pending(e) /\ ~Pending(e)'}
    PROVE  /\ B \subseteq D!With("pending")
           /\ Status' = D!Becomes(B, "out")
<1>1. \A e \in B : Status[e] = "pending" /\ Status'[e] = "out"
  BY PendingFacts DEF Status
<1>2. \A e \in Events \ B : Status'[e] = Status[e]
  BY DEF Status
<1>3. Status' = [e \in Events |-> Status'[e]]
  BY DEF Status
<1> QED BY <1>1, <1>2, <1>3 DEF D!With, D!Becomes

\* Steps that move pending events only between places they are sent from.
LEMMA StatusFrame ==
    ASSUME UNCHANGED acked,
           \A e \in Events : Recorded(e)' <=> Recorded(e),
           \A e \in Events : Pending(e)' <=> Pending(e)
    PROVE  Status' = Status
  BY DEF Status

\* Among these are the steps that move no batch at all.
LEMMA StatusStill ==
    ASSUME UNCHANGED <<queue, batch, acked>>,
           \A t \in Threads : Holds(t)' <=> Holds(t),
           \A e \in Events : Recorded(e)' <=> Recorded(e)
    PROVE  Status' = Status
  BY StatusFrame DEF Pending

-----------------------------------------------------------------------------
(* The steps that are not stutters.                                        *)

\* record(): the event is pending, and a full deque gives another one up.
LEMMA AcceptStep ==
    ASSUME TypeOK, OwnInv, MissesInv, NEW e \in Events, RecordAppend(e)
    PROVE  D!Accept(e)
<1>1. /\ e \in Threads /\ pc[e] = "idle" /\ pc'[e] = "appended"
      /\ \A u \in Threads \ {e} : pc'[u] = pc[u]
      /\ batch' = batch /\ acked' = acked /\ misses' = misses
      /\ httpClosed' = httpClosed /\ faults' = faults
      /\ queue' = Pushed(queue, e)
  BY DEF RecordAppend, Goto, Threads, TypeOK, backend, life
<1>2. /\ e \notin ToSet(queue) /\ acked[e] = 0
      /\ \A t \in Threads : e \notin ToSet(batch[t])
  BY <1>1 DEF OwnInv, Fresh
<1>3. Status[e] = "new"
  BY <1>1, <1>2 DEF Status, Pending, Recorded
<1>4. Copies' = Copies
  BY <1>1 DEF Copies
<1>5. \A x \in Events : (\E t \in Threads : Holds(t)' /\ x \in ToSet(batch'[t]))
                        <=> (\E t \in Threads : Holds(t) /\ x \in ToSet(batch[t]))
  BY <1>1 DEF Holds
<1>6. \A x \in Events : x # e => (Recorded(x)' <=> Recorded(x))
  BY <1>1 DEF Recorded, Threads
<1>7. Recorded(e)' /\ e \in ToSet(queue')
  BY <1>1, PushedMembers DEF Recorded, TypeOK
<1>8. Status'[e] = "pending"
  BY <1>7 DEF Status, Pending
<1>9. Status' = [x \in Events |-> Status'[x]]
  BY DEF Status
<1>10. CASE Len(queue) < MaxQueueSize
  <2>1. queue' = Append(queue, e) /\ queue \in Seq(Events)
    BY <1>1, <1>10 DEF Pushed, TypeOK
  <2>2. \A i \in 1..Len(queue) : queue'[i] = queue[i]
    BY <2>1
  <2>3. Len(queue') = Len(queue) + 1 /\ queue' \in Seq(Events)
    BY <2>1
  <2>4. \A x \in ToSet(queue) : x \in ToSet(queue')
    BY <2>1, <2>2, <2>3 DEF ToSet
  <2>5. \A x \in ToSet(queue') : x \in ToSet(queue) \/ x = e
    BY <1>1, PushedMembers DEF TypeOK
  <2>6. \A x \in Events : x # e => (Pending(x)' <=> Pending(x))
    BY <1>5, <2>4, <2>5 DEF Pending
  <2>7. \A x \in Events : x # e => Status'[x] = Status[x]
    BY <1>1, <1>6, <2>6 DEF Status
  <2>8. Status' = D!Becomes({e}, "pending")
    BY <1>8, <1>9, <2>7 DEF D!Becomes
  <2> QED BY <1>1, <1>3, <1>4, <2>8 DEF D!Accept
<1>11. CASE ~(Len(queue) < MaxQueueSize)
  <2>0. queue \in Seq(Events) /\ queue # <<>> /\ IsInjective(queue)
    BY <1>11, ConfigAssumption DEF TypeOK, OwnInv, OneOwner
  <2> DEFINE r == Tail(queue)
  <2> PICK old \in Events : old = queue[1]
    BY <2>0
  <2>1. r \in Seq(Events) /\ Len(r) = Len(queue) - 1
        /\ \A i \in 1..Len(r) : r[i] = queue[i + 1]
    BY <2>0
  <2>2. queue' = Append(r, e)
    BY <1>1, <1>11 DEF Pushed
  <2>3. old \in Events /\ old \in ToSet(queue) /\ old # e
    BY <2>0, <1>2 DEF ToSet
  <2>4. \A i \in 1..Len(r) : r[i] # old
    BY <2>0, <2>1 DEF IsInjective
  <2> HIDE DEF r
  <2>5. /\ queue' \in Seq(Events) /\ Len(queue') = Len(r) + 1
        /\ queue'[Len(r) + 1] = e
        /\ \A i \in 1..Len(r) : queue'[i] = r[i]
    BY <2>1, <2>2
  <2>6. old \notin ToSet(queue')
    BY <2>3, <2>4, <2>5, <2>1 DEF ToSet
  <2>7. \A x \in ToSet(queue) : x # old => x \in ToSet(queue')
    <3> SUFFICES ASSUME NEW x \in ToSet(queue), x # old
                 PROVE  x \in ToSet(queue')
      OBVIOUS
    <3>1. PICK i \in 1..Len(queue) : x = queue[i]
      BY <2>0, ToSetMembers
    <3>2. i - 1 \in 1..Len(r) /\ r[i - 1] = x
      BY <3>1, <2>1, <2>0
    <3>3. i - 1 \in 1..Len(queue') /\ queue'[i - 1] = x
      BY <3>2, <2>1, <2>5
    <3> QED BY <3>3, <2>5, ToSetMembers
  <2>8. \A x \in ToSet(queue') : x \in ToSet(queue) \/ x = e
    BY <1>1, PushedMembers DEF TypeOK
  <2>9. \A x \in Events : x # e /\ x # old => (Pending(x)' <=> Pending(x))
    BY <1>5, <2>7, <2>8 DEF Pending
  <2>10. \A x \in Events : x # e /\ x # old => Status'[x] = Status[x]
    BY <1>1, <1>6, <2>9 DEF Status
  <2>11. Pending(old)
    BY <2>3 DEF Pending
  <2>12. ~Pending(old)'
    <3>1. \A t \in Threads : Holds(t) => old \notin ToSet(batch[t])
      BY <2>3 DEF OwnInv, OneOwner
    <3>2. ~(\E t \in Threads : Holds(t)' /\ old \in ToSet(batch'[t]))
      BY <3>1, <1>5, <2>3
    <3> QED BY <3>2, <2>6 DEF Pending
  <2>13. Status[old] = "pending" /\ acked[old] = 0 /\ Recorded(old)
    BY <2>3, <2>11, PendingFacts
  <2>14. Status'[old] = "out"
    <3>1. acked'[old] = 0 /\ Recorded(old)'
      BY <1>1, <1>6, <2>3, <2>13
    <3> QED BY <3>1, <2>3, <2>12 DEF Status
  <2>15. Status' = [D!Becomes({e}, "pending") EXCEPT ![old] = "out"]
    BY <1>8, <1>9, <2>3, <2>10, <2>14 DEF D!Becomes
  <2> QED BY <1>1, <1>3, <1>4, <2>3, <2>13, <2>15 DEF D!Accept, D!With
<1> QED BY <1>10, <1>11

\* An answered request: the events of the batch are done.
LEMMA SettleStep ==
    ASSUME TypeOK, OwnInv, MissesInv, NEW t \in Threads, SendOk(t)
    PROVE  D!Settle(ToSet(batch[t]), {})
<1> DEFINE B == ToSet(batch[t])
<1>1. /\ pc[t] = "sending" /\ Holds(t) /\ ~Holds(t)'
      /\ \A u \in Threads \ {t} : pc'[u] = pc[u] /\ batch'[u] = batch[u]
      /\ queue' = queue /\ acked' = Counted(acked, t) /\ misses' = misses
      /\ httpClosed' = httpClosed /\ faults' = faults
      /\ pc'[t] # "idle"
  BY AfterFlushLabels DEF SendOk, Return, Goto, Holds, TypeOK, life
<1>2. B \subseteq Events /\ \A e \in B : Pending(e)
  BY <1>1, ToSetMembers DEF Pending, TypeOK
<1>3. \A e \in B : /\ Status[e] = "pending" /\ acked[e] = 0
                  /\ Copies[e] \in Nat /\ Copies[e] <= faults
  BY <1>2, PendingFacts
<1>4. \A e \in Events : acked'[e] = acked[e] + IF e \in B THEN 1 ELSE 0
  BY <1>1 DEF Counted
<1>5. Copies' = [e \in Events |-> Copies[e] + IF e \in B THEN 1 ELSE 0]
  BY <1>1, <1>4 DEF Copies, TypeOK
<1>6. \A e \in B : ~Pending(e)'
  <2> SUFFICES ASSUME NEW e \in B
               PROVE  ~Pending(e)'
    OBVIOUS
  <2>1. e \notin ToSet(queue)
    BY <1>1 DEF OwnInv, OneOwner
  <2>2. \A u \in Threads \ {t} : Holds(u) => e \notin ToSet(batch[u])
    BY <1>1 DEF OwnInv, OneOwner
  <2> QED BY <2>1, <2>2, <1>1 DEF Pending, Holds
<1>7. \A e \in Events \ B : Pending(e)' <=> Pending(e)
  BY <1>1 DEF Pending, Holds
<1>8. \A e \in Events : Recorded(e)' <=> Recorded(e)
  BY <1>1 DEF Recorded, Threads
<1> HIDE DEF B
<1>9. \A e \in B : Status'[e] = "done"
  <2>1. \A e \in B : acked'[e] = 1
    BY <1>2, <1>3, <1>4
  <2> QED BY <1>2, <1>6, <2>1 DEF Status
<1>10. \A e \in Events \ B : Status'[e] = Status[e]
  BY <1>4, <1>7, <1>8 DEF Status, TypeOK
<1>11. Status' = D!Becomes(B, "done")
  <2>1. Status' = [e \in Events |-> Status'[e]]
    BY DEF Status
  <2> QED BY <2>1, <1>9, <1>10 DEF D!Becomes
<1>12. D!Stores(B)
  BY <1>2, <1>3, <1>5 DEF D!Stores
<1>13. \A e \in B : Copies'[e] >= 1
  BY <1>2, <1>3, <1>5
<1>14. Status' = [e \in Events |-> IF e \in {} THEN "out" ELSE D!Becomes(B, "done")[e]]
  BY <1>11 DEF D!Becomes
<1> QED BY <1>1, <1>2, <1>3, <1>12, <1>13, <1>14 DEF D!Settle, D!With, B

\* A failed request, or an answer without meaning: a failure after which the
\* batch stays pending.
LEMMA FailStep ==
    ASSUME TypeOK, OwnInv, MissesInv, NEW t \in Threads,
           SendFails(t) \/ AnswerUnusable(t)
    PROVE  \E B \in SUBSET Events : D!Fail(B, {})
<1>1. /\ Holds(t) /\ Holds(t)' /\ pc[t] # "idle" /\ pc'[t] # "idle"
      /\ \A u \in Threads \ {t} : pc'[u] = pc[u]
      /\ queue' = queue /\ batch' = batch /\ acked' = acked
      /\ misses' = misses \/ misses' = Counted(misses, t)
      /\ httpClosed' = httpClosed /\ Fault
  BY DEF SendFails, AnswerUnusable, Goto, Holds, TypeOK, life, memory
<1>2. \A u \in Threads : Holds(u)' <=> Holds(u)
  BY <1>1 DEF Holds
<1>3. \A e \in Events : Recorded(e)' <=> Recorded(e)
  BY <1>1 DEF Recorded, Threads
<1>4. Status' = Status
  BY <1>1, <1>2, <1>3, StatusStill
<1>5. D!Becomes({}, "out") = Status
  BY DEF D!Becomes, Status
<1>6. PICK B \in SUBSET Events :
         /\ \A e \in B : Pending(e)
         /\ \A e \in Events : misses'[e] = misses[e] + IF e \in B THEN 1 ELSE 0
  <2>1. CASE misses' = misses
    <3>1. \A e \in Events : misses'[e] = misses[e] + IF e \in {} THEN 1 ELSE 0
      BY <2>1 DEF TypeOK
    <3> WITNESS {} \in SUBSET Events
    <3> QED BY <3>1
  <2>2. CASE misses' = Counted(misses, t)
    <3>1. \A e \in ToSet(batch[t]) : e \in Events /\ Pending(e)
      BY <1>1, ToSetMembers DEF Pending, TypeOK
    <3>2. \A e \in Events :
             misses'[e] = misses[e] + IF e \in ToSet(batch[t]) THEN 1 ELSE 0
      BY <2>2 DEF Counted
    <3>3. ToSet(batch[t]) \in SUBSET Events
      BY <3>1
    <3> QED BY <3>1, <3>2, <3>3
  <2> QED BY <1>1, <2>1, <2>2
<1>7. Copies' = [e \in Events |-> Copies[e] + IF e \in B THEN 1 ELSE 0]
  BY <1>1, <1>6 DEF Copies, TypeOK
<1>8. D!Stores(B)
  BY <1>6, <1>7, PendingFacts DEF D!Stores
<1> QED BY <1>1, <1>4, <1>5, <1>8 DEF D!Fail, Fault

\* The requeue gives up what does not fit.
LEMMA GiveUpStep ==
    ASSUME TypeOK, OwnInv, NoticeInv, MissesInv, NEW t \in Threads, Requeue(t)
    PROVE  \E B \in SUBSET Events : D!Settle({}, B)
<1> DEFINE B == {e \in Events : Pending(e) /\ ~Pending(e)'}
<1>1. /\ pc[t] = "requeue" /\ Holds(t) /\ pc'[t] = "saving"
      /\ \A u \in Threads \ {t} : pc'[u] = pc[u]
      /\ batch' = batch /\ acked' = acked /\ misses' = misses
      /\ httpClosed' = httpClosed /\ faults' = faults
  BY DEF Requeue, Goto, Holds, TypeOK, backend, life
<1>2. ToSet(queue') \subseteq ToSet(batch[t]) \union ToSet(queue)
  <2>1. /\ queue' \in Seq(Events) /\ Len(queue') = Room(t) + Len(queue)
        /\ \A i \in 1..Room(t) : queue'[i] = batch[t][Room(t) - i + 1]
        /\ \A i \in 1..Len(queue) : queue'[Room(t) + i] = queue[i]
    BY RequeuedQueue
  <2>2. /\ Room(t) \in 0..Len(batch[t])
        /\ batch[t] \in Seq(Events) /\ queue \in Seq(Events)
    BY RoomBounds DEF TypeOK
  <2>3. \A i \in 1..Room(t) : Room(t) - i + 1 \in 1..Len(batch[t])
    BY <2>2
  <2>4. \A i \in 1..Room(t) : queue'[i] \in ToSet(batch[t])
    <3> TAKE i \in 1..Room(t)
    <3>1. queue'[i] = batch[t][Room(t) - i + 1] /\ Room(t) - i + 1 \in 1..Len(batch[t])
      BY <2>1, <2>3
    <3> QED BY <3>1, <2>2, ToSetMembers
  <2>5. \A i \in 1..Len(queue) : queue'[Room(t) + i] \in ToSet(queue)
    BY <2>1, <2>2 DEF ToSet
  <2>6. \A i \in 1..Len(queue') : queue'[i] \in ToSet(batch[t]) \union ToSet(queue)
    <3> TAKE i \in 1..Len(queue')
    <3>1. CASE i <= Room(t)
      BY <3>1, <2>2, <2>4
    <3>2. CASE ~(i <= Room(t))
      <4>1. i - Room(t) \in 1..Len(queue) /\ Room(t) + (i - Room(t)) = i
        BY <3>2, <2>1, <2>2
      <4> QED BY <4>1, <2>5
    <3> QED BY <3>1, <3>2
  <2> QED BY <2>1, <2>6, ToSetMembers
<1>3. \A e \in Events : Pending(e)' => Pending(e)
  BY <1>1, <1>2 DEF Pending, Holds
<1>4. \A e \in Events : Recorded(e)' <=> Recorded(e)
  BY <1>1 DEF Recorded, Threads
<1>5. B \subseteq D!With("pending") /\ Status' = D!Becomes(B, "out")
  BY <1>1, <1>3, <1>4, StatusLosing
<1>6. faults > 0 \/ httpClosed
  BY <1>1, FaultAssumption DEF NoticeInv, TypeOK
<1>7. D!Stores({})
  BY <1>1 DEF D!Stores, Copies, TypeOK
<1>8. Status' = [e \in Events |-> IF e \in B THEN "out" ELSE D!Becomes({}, "done")[e]]
  BY <1>5 DEF D!Becomes, Status
<1> QED BY <1>1, <1>5, <1>6, <1>7, <1>8 DEF D!Settle

-----------------------------------------------------------------------------
\* A step of the client is a step of Delivery, or none.
LEMMA DeliversStep == RefinementInv /\ [Next]_vars => [D!Next]_(D!vars)
<1> SUFFICES ASSUME RefinementInv, [Next]_vars
             PROVE  D!Next \/ UNCHANGED D!vars
  OBVIOUS
<1> USE DEF RefinementInv
<1>0. ASSUME UNCHANGED <<Status, acked, misses, httpClosed, faults>>
      PROVE  UNCHANGED D!vars
  BY <1>0 DEF D!vars, Copies
<1>1. ASSUME NEW e \in Events, RecordAppend(e)
      PROVE  D!Next
  BY <1>1, AcceptStep DEF D!Next
<1>2. ASSUME NEW e \in Events, RecordCheck(e)
      PROVE  UNCHANGED D!vars
  <2>1. Status' = Status
    BY <1>2, StatusStill DEF RecordCheck, Goto, memory, backend, TypeOK,
       Threads, Holds, Recorded
  <2> QED BY <1>0, <1>2, <2>1 DEF RecordCheck, backend, life
<1>3. ASSUME NEW t \in Threads, TakeBatch(t)
      PROVE  UNCHANGED D!vars
  <2>1. /\ pc[t] = "flush" /\ ~Holds(t) /\ queue' = <<>> /\ batch'[t] = queue
        /\ \A u \in Threads \ {t} : pc'[u] = pc[u] /\ batch'[u] = batch[u]
        /\ queue # <<>> => pc'[t] = "sending"
        /\ pc'[t] # "idle"
    BY <1>3, AfterFlushLabels DEF TakeBatch, Goto, Holds, TypeOK
  <2>2. ToSet(queue') = {}
    BY <2>1 DEF ToSet
  <2>3. \A e \in ToSet(queue) : Holds(t)' /\ e \in ToSet(batch'[t])
    <3>1. ToSet(queue) # {} => queue # <<>>
      BY DEF ToSet
    <3> QED BY <3>1, <2>1 DEF Holds
  <2>4. \A u \in Threads \ {t} : Holds(u)' <=> Holds(u)
    BY <2>1 DEF Holds
  <2>5. \A e \in Events : Pending(e)' <=> Pending(e)
    <3> TAKE e \in Events
    <3>1. Pending(e)' <=> \E u \in Threads : Holds(u)' /\ e \in ToSet(batch'[u])
      BY <2>2 DEF Pending
    <3>2. (\E u \in Threads : Holds(u) /\ e \in ToSet(batch[u]))
             <=> \E u \in Threads \ {t} : Holds(u)' /\ e \in ToSet(batch'[u])
      BY <2>1, <2>4
    <3>3. e \in ToSet(queue) <=> Holds(t)' /\ e \in ToSet(batch'[t])
      BY <2>1, <2>3
    <3> QED BY <3>1, <3>2, <3>3 DEF Pending
  <2>6. \A e \in Events : Recorded(e)' <=> Recorded(e)
    BY <2>1 DEF Recorded, Threads
  <2>7. acked' = acked
    BY <1>3 DEF TakeBatch, backend
  <2>8. Status' = Status
    BY <2>5, <2>6, <2>7, StatusFrame
  <2> QED BY <1>0, <1>3, <2>8 DEF TakeBatch, backend, life
<1>4. ASSUME NEW t \in Threads, SendOk(t)
      PROVE  D!Next
  <2>1. ToSet(batch[t]) \in SUBSET Events
    BY ToSetMembers DEF TypeOK
  <2> QED BY <1>4, <2>1, SettleStep DEF D!Next
<1>5. ASSUME NEW t \in Threads, SendFails(t) \/ AnswerUnusable(t)
      PROVE  D!Next
  BY <1>5, FailStep DEF D!Next
<1>6. ASSUME NEW t \in Threads, SendOnClosedClient(t)
      PROVE  UNCHANGED D!vars
  <2>1. Status' = Status
    BY <1>6, StatusStill DEF SendOnClosedClient, Goto, memory, backend, TypeOK,
       Threads, Holds, Recorded
  <2> QED BY <1>0, <1>6, <2>1 DEF SendOnClosedClient, backend, life
<1>7. ASSUME NEW t \in Threads, Requeue(t)
      PROVE  D!Next
  BY <1>7, GiveUpStep DEF D!Next
<1>8. ASSUME NEW t \in Threads, Save(t) \/ SaveFails(t)
      PROVE  D!Next \/ UNCHANGED D!vars
  <2>1. /\ ~Holds(t) /\ ~Holds(t)' /\ queue' = queue
        /\ \A u \in Threads \ {t} : pc'[u] = pc[u] /\ batch'[u] = batch[u]
        /\ pc[t] # "idle" /\ pc'[t] # "idle"
    BY <1>8, AfterFlushLabels DEF Save, SaveFails, Return, Goto, Holds, TypeOK
  <2>2. \A e \in Events : Pending(e)' <=> Pending(e)
    BY <2>1 DEF Pending, Holds
  <2>3. \A e \in Events : Recorded(e)' <=> Recorded(e)
    BY <2>1 DEF Recorded, Threads
  <2>4. acked' = acked /\ misses' = misses /\ httpClosed' = httpClosed
    BY <1>8 DEF Save, SaveFails, backend, life
  <2>5. Status' = Status
    BY <2>2, <2>3, <2>4, StatusFrame
  <2>6. CASE Save(t)
    BY <1>0, <2>4, <2>5, <2>6 DEF Save
  <2>7. CASE SaveFails(t)
    <3>1. D!Becomes({}, "out") = Status
      BY DEF D!Becomes, Status
    <3>2. Fault /\ D!Stores({})
      BY <2>4, <2>7 DEF SaveFails, Copies, D!Stores, TypeOK
    <3>3. D!Fail({}, {})
      BY <2>4, <2>5, <3>1, <3>2 DEF D!Fail, Fault
    <3> QED BY <3>3 DEF D!Next
  <2> QED BY <1>8, <2>6, <2>7
<1>9. ASSUME WorkerLoop \/ WorkerWake
      PROVE  UNCHANGED D!vars
  <2>1. Status' = Status
    BY <1>9, StatusStill, ThreadAssumption
       DEF WorkerLoop, WorkerWake, Goto, memory, backend, TypeOK, Threads,
           Holds, Recorded
  <2> QED BY <1>0, <1>9, <2>1 DEF WorkerLoop, WorkerWake, backend, life
<1>10. ASSUME FlushCall \/ Close \/ AtExit \/ CloseHttp \/ Exit
       PROVE  D!Next \/ UNCHANGED D!vars
  <2>1. Status' = Status
    BY <1>10, StatusStill, ThreadAssumption
       DEF FlushCall, Close, AtExit, CloseHttp, Exit, Goto, memory, backend,
           TypeOK, Threads, Holds, Recorded
  <2>2. acked' = acked /\ misses' = misses /\ faults' = faults
    BY <1>10 DEF FlushCall, Close, AtExit, CloseHttp, Exit, backend
  <2>3. httpClosed' = httpClosed \/ httpClosed' = TRUE
    BY <1>10 DEF FlushCall, Close, AtExit, CloseHttp, Exit, life
  <2>4. Copies' = Copies
    BY <2>2 DEF Copies
  <2> QED BY <1>0, <2>1, <2>2, <2>3, <2>4 DEF D!Next, D!Close
<1>11. ASSUME Tick
       PROVE  UNCHANGED D!vars
  <2>1. Status' = Status
    BY <1>11, StatusStill DEF Tick, memory, backend, TypeOK, Threads, Holds, Recorded
  <2> QED BY <1>0, <1>11, <2>1 DEF Tick, backend, life
<1>12. CASE UNCHANGED vars
  <2>1. Status' = Status
    BY <1>12, StatusStill DEF vars, Holds, Recorded
  <2> QED BY <1>0, <1>12, <2>1 DEF vars
<1> QED BY <1>1, <1>2, <1>3, <1>4, <1>5, <1>6, <1>7, <1>8, <1>9, <1>10, <1>11,
           <1>12 DEF Next, Record, FlushStep

LEMMA DeliversInit == Init => D!Init
<1> SUFFICES ASSUME Init
             PROVE  D!Init
  OBVIOUS
<1>1. ToSet(queue) = {} /\ \A t \in Threads : ~Holds(t)
  BY DEF Init, ToSet, Holds
<1>2. \A e \in Events : ~Pending(e) /\ acked[e] = 0 /\ ~Recorded(e)
  BY <1>1, ThreadAssumption DEF Init, Pending, Recorded, Threads
<1>3. Status = [e \in Events |-> "new"]
  BY <1>2 DEF Status
<1>4. Copies = [e \in Events |-> 0]
  BY DEF Init, Copies
<1> QED BY <1>3, <1>4 DEF Init, D!Init

LEMMA RefinementInvariant == Spec => []RefinementInv
<1>1. Init => RefinementInv
  <2>1. Init => NoticeInv /\ MissesInv
    BY ConfigAssumption DEF Init, NoticeInv, FullBatchNoticed, MissesInv
  <2> QED BY <2>1, TypeInit, OwnInit DEF RefinementInv
<1>2. RefinementInv /\ [Next]_vars => RefinementInv'
  BY TypeStep, OwnStep, NoticeStep, MissesStep DEF RefinementInv
<1> QED BY <1>1, <1>2, PTL DEF Spec

\* The Python client implements Delivery, for every number of events and
\* faults, queue bound and batch size, in either mode.
THEOREM ClientDelivers == Spec => Delivers
  BY RefinementInvariant, DeliversInit, DeliversStep, PTL DEF Spec, Delivers, D!Spec

\* What Delivery implies: the states that every step of it leads to again.
DeliveryInv ==
    /\ Status \in [Events -> {"new", "pending", "done", "out"}]
    /\ Copies \in [Events -> Nat] /\ faults \in Nat
    /\ D!CopiesPaidFor /\ D!DoneIsStored

LEMMA DeliveryInit == D!Init => DeliveryInv
  BY DEF D!Init, DeliveryInv, D!CopiesPaidFor, D!DoneIsStored

LEMMA DeliveryStep == DeliveryInv /\ [D!Next]_(D!vars) => DeliveryInv'
<1> SUFFICES ASSUME DeliveryInv, [D!Next]_(D!vars)
             PROVE  DeliveryInv'
  OBVIOUS
<1> USE DEF DeliveryInv, D!CopiesPaidFor, D!DoneIsStored, D!With, D!Becomes
<1>1. ASSUME NEW e \in Events, D!Accept(e)
      PROVE  DeliveryInv'
  BY <1>1 DEF D!Accept
<1>2. ASSUME NEW B \in SUBSET Events, D!Store(B)
      PROVE  DeliveryInv'
  BY <1>2 DEF D!Store, D!Stores
<1>3. ASSUME NEW B \in SUBSET Events, NEW C \in SUBSET Events, D!Settle(B, C)
      PROVE  DeliveryInv'
  BY <1>3 DEF D!Settle, D!Stores
<1>4. ASSUME NEW B \in SUBSET Events, NEW C \in SUBSET Events, D!Fail(B, C)
      PROVE  DeliveryInv'
  BY <1>4 DEF D!Fail, D!Stores
<1>5. CASE D!Close
  BY <1>5 DEF D!Close
<1>6. CASE UNCHANGED D!vars
  BY <1>6 DEF D!vars
<1> QED BY <1>1, <1>2, <1>3, <1>4, <1>5, <1>6 DEF D!Next

\* What follows from Delivery holds of the client: no event is stored more
\* than once per fault and once more, and what the client has forgotten as
\* delivered is stored.
THEOREM ClientCopies ==
    Spec => [](D!CopiesPaidFor /\ D!DoneIsStored)
<1>1. DeliveryInv => D!CopiesPaidFor /\ D!DoneIsStored
  BY DEF DeliveryInv
<1> QED BY <1>1, DeliveryInit, DeliveryStep, ClientDelivers, PTL DEF Delivers, D!Spec
=============================================================================
