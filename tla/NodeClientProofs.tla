-------------------------- MODULE NodeClientProofs --------------------------
(***************************************************************************)
(* Proofs about the Node client, for every set of events and of flights,   *)
(* every configuration and any number of faults: its types, that an event  *)
(* is in one place only, and that what was recorded while a request failed *)
(* keeps its place; and that the client implements Delivery.               *)
(***************************************************************************)
EXTENDS NodeClient, DataLemmas, TLAPS

\* OneOwner, of any queue and batches.
Own(q, b) ==
    /\ IsInjective(q)
    /\ \A f \in Flights :
          /\ IsInjective(b[f])
          /\ ToSet(b[f]) \cap ToSet(q) = {}
          /\ \A g \in Flights \ {f} : ToSet(b[f]) \cap ToSet(b[g]) = {}

\* Only recorded events are held: the next one to be recorded is new.
Within(q, b, events) ==
    /\ ToSet(q) \subseteq events
    /\ \A f \in Flights : ToSet(b[f]) \subseteq events

\* A flight pauses only when an attempt is left.
Retries ==
    \A f \in Flights : stage[f] = "backoff" => attempt[f] < RetryAttempts

Invariant ==
    TypeOK /\ Own(queue, batch) /\ Within(queue, batch, recorded) /\ Retries

-----------------------------------------------------------------------------
\* What Own and Within say of a step that moves events between the queue and
\* the batch of one flight, or drops some.
LEMMA Moves ==
    ASSUME batch \in [Flights -> Seq(Events)], NEW f \in Flights,
           NEW q \in Seq(Events), NEW r \in Seq(Events), NEW b \in Seq(Events),
           NEW events, Own(q, batch), Within(q, batch, events),
           IsInjective(r), IsInjective(b), ToSet(r) \cap ToSet(b) = {},
           ToSet(r) \subseteq ToSet(q) \union ToSet(batch[f]),
           ToSet(b) \subseteq ToSet(q) \union ToSet(batch[f]),
           NEW c, c = [batch EXCEPT ![f] = b]
    PROVE  c \in [Flights -> Seq(Events)] /\ Own(r, c) /\ Within(r, c, events)
<1>1. /\ c \in [Flights -> Seq(Events)] /\ c[f] = b
      /\ \A g \in Flights \ {f} : c[g] = batch[g]
  OBVIOUS
<1>2. \A g \in Flights \ {f} : /\ ToSet(batch[g]) \cap ToSet(q) = {}
                               /\ ToSet(batch[g]) \cap ToSet(batch[f]) = {}
                               /\ IsInjective(batch[g])
  BY DEF Own
<1>3. \A g \in Flights \ {f} : /\ ToSet(c[g]) \cap ToSet(r) = {}
                               /\ ToSet(c[g]) \cap ToSet(c[f]) = {}
                               /\ IsInjective(c[g])
  BY <1>1, <1>2
<1>4. \A g \in Flights \ {f}, h \in Flights \ {f} :
         g # h => ToSet(c[g]) \cap ToSet(c[h]) = {}
  BY <1>1 DEF Own
<1>5. Own(r, c)
  BY <1>1, <1>3, <1>4 DEF Own
<1>6. Within(r, c, events)
  BY <1>1 DEF Within
<1> QED BY <1>1, <1>5, <1>6

\* The empty sequence, and a new event at the end of a queue.
LEMMA Ends ==
    /\ <<>> \in Seq(Events) /\ Len(<<>>) = 0
    /\ ToSet(<<>>) = {} /\ IsInjective(<<>>)
    /\ \A q \in Seq(Events), e \in Events :
          /\ Append(q, e) \in Seq(Events) /\ Len(Append(q, e)) = Len(q) + 1
          /\ ToSet(Append(q, e)) = ToSet(q) \union {e}
          /\ IsInjective(q) /\ e \notin ToSet(q) => IsInjective(Append(q, e))
<1>1. <<>> \in Seq(Events) /\ Len(<<>>) = 0
  OBVIOUS
<1>2. ToSet(<<>>) = {} /\ IsInjective(<<>>)
  BY <1>1 DEF ToSet, IsInjective
<1>3. ASSUME NEW q \in Seq(Events), NEW e \in Events
      PROVE  /\ Append(q, e) \in Seq(Events)
             /\ Len(Append(q, e)) = Len(q) + 1
             /\ ToSet(Append(q, e)) = ToSet(q) \union {e}
             /\ IsInjective(q) /\ e \notin ToSet(q) => IsInjective(Append(q, e))
  <2> DEFINE s == Append(q, e)
  <2>1. s \in Seq(Events) /\ Len(s) = Len(q) + 1 /\ s[Len(q) + 1] = e
    OBVIOUS
  <2>2. \A i \in 1..Len(q) : s[i] = q[i]
    OBVIOUS
  <2> HIDE DEF s
  <2>3. \A i \in 1..Len(s) : i \in 1..Len(q) \/ i = Len(q) + 1
    BY <2>1
  <2>4. \A i \in 1..Len(q) : q[i] \in ToSet(q)
    BY ToSetMembers
  <2>5. ToSet(s) = ToSet(q) \union {e}
    <3>1. \A i \in 1..Len(s) : s[i] \in ToSet(q) \union {e}
      BY <2>1, <2>2, <2>3, <2>4
    <3>2. ToSet(s) \subseteq ToSet(q) \union {e}
      BY <3>1, <2>1, ToSetMembers
    <3>3. \A i \in 1..Len(s) : s[i] \in ToSet(s)
      BY <2>1, ToSetMembers
    <3>4. e \in ToSet(s) /\ \A i \in 1..Len(q) : q[i] \in ToSet(s)
      BY <2>1, <2>2, <3>3
    <3>5. ToSet(q) \subseteq ToSet(s)
      BY <3>4, ToSetMembers
    <3> QED BY <3>2, <3>4, <3>5
  <2>6. ASSUME IsInjective(q), e \notin ToSet(q)
        PROVE  IsInjective(s)
    <3>1. \A i, j \in 1..Len(q) : q[i] = q[j] => i = j
      BY <2>6 DEF IsInjective
    <3>2. \A i, j \in 1..Len(s) : s[i] = s[j] => i = j
      BY <3>1, <2>1, <2>2, <2>3, <2>4, <2>6
    <3> QED BY <3>2, <2>1 DEF IsInjective
  <2> QED BY <2>1, <2>5, <2>6 DEF s
<1> QED BY <1>1, <1>2, <1>3

-----------------------------------------------------------------------------
\* flush() of a queue q that is the client's, or has its new event at the end.
LEMMA FlushKeeps ==
    ASSUME TypeOK, Retries, NEW q \in Seq(Events), Len(q) <= MaxQueueSize,
           NEW events, Own(q, batch), Within(q, batch, events), Flush(q)
    PROVE  /\ queue' \in Seq(Events) /\ Len(queue') <= MaxQueueSize
           /\ stage' \in [Flights -> {"idle", "sending", "backoff", "thrown"}]
           /\ batch' \in [Flights -> Seq(Events)]
           /\ attempt' \in [Flights -> 1..RetryAttempts]
           /\ Own(queue', batch') /\ Within(queue', batch', events)
           /\ Retries'
           /\ \A f \in Flights : stage[f] = "thrown" => stage'[f] # "idle"
<1> USE ConfigAssumption
<1>1. CASE queue' = q /\ UNCHANGED flights
  BY <1>1 DEF TypeOK, flights, Retries
<1>2. ASSUME NEW f \in Flights, stage[f] = "idle",
             stage' = [stage EXCEPT ![f] = "sending"],
             batch' = [batch EXCEPT ![f] = q],
             attempt' = [attempt EXCEPT ![f] = 1],
             queue' = <<>>
      PROVE  /\ queue' \in Seq(Events) /\ Len(queue') <= MaxQueueSize
             /\ stage' \in [Flights -> {"idle", "sending", "backoff", "thrown"}]
             /\ batch' \in [Flights -> Seq(Events)]
             /\ attempt' \in [Flights -> 1..RetryAttempts]
             /\ Own(queue', batch') /\ Within(queue', batch', events)
             /\ Retries'
             /\ \A g \in Flights : stage[g] = "thrown" => stage'[g] # "idle"
  <2>1. /\ stage' \in [Flights -> {"idle", "sending", "backoff", "thrown"}]
        /\ attempt' \in [Flights -> 1..RetryAttempts]
        /\ Retries'
        /\ \A g \in Flights : stage[g] = "thrown" => stage'[g] # "idle"
    BY <1>2 DEF TypeOK, Retries
  <2>2. queue' \in Seq(Events) /\ Len(queue') <= MaxQueueSize
    BY <1>2, Ends
  <2>3. IsInjective(q)
    BY DEF Own
  <2>4. /\ batch' \in [Flights -> Seq(Events)]
        /\ Own(<<>>, batch') /\ Within(<<>>, batch', events)
    <3>1. batch \in [Flights -> Seq(Events)] /\ batch' = [batch EXCEPT ![f] = q]
      BY <1>2 DEF TypeOK
    <3>2. /\ <<>> \in Seq(Events) /\ IsInjective(<<>>)
          /\ ToSet(<<>>) \cap ToSet(q) = {}
          /\ ToSet(<<>>) \subseteq ToSet(q) \union ToSet(batch[f])
          /\ ToSet(q) \subseteq ToSet(q) \union ToSet(batch[f])
      BY Ends
    <3> HIDE ConfigAssumption
    <3> QED BY ONLY <3>1, <3>2, <2>3, Moves, q \in Seq(Events), f \in Flights,
                    Own(q, batch), Within(q, batch, events)
  <2> QED BY <1>2, <2>1, <2>2, <2>4
<1> QED BY <1>1, <1>2 DEF Flush

\* The end of a flight that leaves the queue alone.
LEMMA FinishKeeps ==
    ASSUME Invariant, NEW f \in Flights, Finish(f), UNCHANGED queue
    PROVE  /\ stage' \in [Flights -> {"idle", "sending", "backoff", "thrown"}]
           /\ batch' \in [Flights -> Seq(Events)]
           /\ attempt' \in [Flights -> 1..RetryAttempts]
           /\ Own(queue', batch') /\ Within(queue', batch', recorded)
           /\ Retries'
<1>1. /\ stage' \in [Flights -> {"idle", "sending", "backoff", "thrown"}]
      /\ attempt' \in [Flights -> 1..RetryAttempts]
      /\ Retries'
  BY ConfigAssumption DEF Finish, Invariant, TypeOK, Retries
<1>2. /\ batch \in [Flights -> Seq(Events)] /\ queue \in Seq(Events)
      /\ IsInjective(queue)
  BY DEF Invariant, TypeOK, Own
<1>3. /\ batch' \in [Flights -> Seq(Events)]
      /\ Own(queue, batch') /\ Within(queue, batch', recorded)
  <2>1. batch' = [batch EXCEPT ![f] = <<>>]
    BY DEF Finish
  <2>2. Own(queue, batch) /\ Within(queue, batch, recorded)
    BY DEF Invariant
  <2>3. /\ <<>> \in Seq(Events) /\ IsInjective(<<>>)
        /\ ToSet(queue) \cap ToSet(<<>>) = {}
        /\ ToSet(<<>>) \subseteq ToSet(queue) \union ToSet(batch[f])
        /\ ToSet(queue) \subseteq ToSet(queue) \union ToSet(batch[f])
    BY Ends
  <2> QED BY <1>2, <2>1, <2>2, <2>3, Moves
<1> QED BY <1>1, <1>3

\* The loop of unshift: what fits of the batch, in front of the queue.
LEMMA PutBackKeeps ==
    ASSUME Invariant, NEW f \in Flights, PutBack(f), Finish(f)
    PROVE  /\ queue' \in Seq(Events) /\ Len(queue') <= MaxQueueSize
           /\ stage' \in [Flights -> {"idle", "sending", "backoff", "thrown"}]
           /\ batch' \in [Flights -> Seq(Events)]
           /\ attempt' \in [Flights -> 1..RetryAttempts]
           /\ Own(queue', batch') /\ Within(queue', batch', recorded)
           /\ Retries'
           /\ IsSuffix(queue, queue')
           /\ ToSet(queue') \subseteq ToSet(batch[f]) \union ToSet(queue)
<1>1. /\ stage' \in [Flights -> {"idle", "sending", "backoff", "thrown"}]
      /\ attempt' \in [Flights -> 1..RetryAttempts]
      /\ Retries'
  BY ConfigAssumption DEF Finish, Invariant, TypeOK, Retries
<1>2. /\ batch \in [Flights -> Seq(Events)] /\ queue \in Seq(Events)
      /\ batch[f] \in Seq(Events) /\ Len(queue) <= MaxQueueSize
      /\ MaxQueueSize \in Nat
  BY ConfigAssumption DEF Invariant, TypeOK
<1>3. PICK n \in 0..Len(batch[f]) :
         /\ n <= MaxQueueSize - Len(queue)
         /\ queue' = Reverse(SubSeq(batch[f], 1, n)) \o queue
  <2> DEFINE free == MaxQueueSize - Len(queue)
             room == IF Len(batch[f]) < free THEN Len(batch[f]) ELSE free
  <2>1. Len(batch[f]) \in Nat /\ free \in Nat
    BY <1>2
  <2>2. room \in 0..Len(batch[f]) /\ room <= free
    BY <2>1
  <2> QED BY <2>2 DEF PutBack
<1>4. /\ queue' \in Seq(Events) /\ Len(queue') = n + Len(queue)
      /\ \A i \in 1..n : queue'[i] = batch[f][n - i + 1]
      /\ \A i \in 1..Len(queue) : queue'[n + i] = queue[i]
  <2> DEFINE b == batch[f]
             r == Reverse(SubSeq(b, 1, n))
  <2>1. b \in Seq(Events) /\ n \in 0..Len(b)
    BY <1>2
  <2> HIDE DEF b
  <2>2. /\ r \in Seq(Events) /\ Len(r) = n
        /\ \A i \in 1..n : r[i] = b[n - i + 1]
    BY <2>1, ReversedPrefix
  <2>3. queue' = r \o queue
    BY <1>3 DEF b
  <2> HIDE DEF r
  <2>4. /\ r \o queue \in Seq(Events)
        /\ Len(r \o queue) = Len(r) + Len(queue)
        /\ \A i \in 1..Len(r) : (r \o queue)[i] = r[i]
        /\ \A i \in 1..Len(queue) : (r \o queue)[Len(r) + i] = queue[i]
    <3>1. r \in Seq(Events) /\ queue \in Seq(Events)
      BY <1>2, <2>2
    <3>2. /\ r \o queue \in Seq(Events)
          /\ Len(r \o queue) = Len(r) + Len(queue)
      BY ONLY <3>1
    <3>3. \A i \in 1..Len(r) : (r \o queue)[i] = r[i]
      BY ONLY <3>1
    <3>4. \A i \in 1..Len(queue) : (r \o queue)[Len(r) + i] = queue[i]
      BY ONLY <3>1
    <3> QED BY <3>2, <3>3, <3>4
  <2> QED BY <2>2, <2>3, <2>4 DEF b
<1>5. /\ IsInjective(queue) /\ IsInjective(batch[f])
      /\ ToSet(batch[f]) \cap ToSet(queue) = {}
  BY DEF Invariant, Own
<1>6. /\ ToSet(queue') \subseteq ToSet(batch[f]) \union ToSet(queue)
      /\ IsInjective(queue') /\ IsSuffix(queue, queue')
  BY <1>2, <1>4, <1>5, PutInFrontKeeps
<1>7. /\ batch' \in [Flights -> Seq(Events)]
      /\ Own(queue', batch') /\ Within(queue', batch', recorded)
  <2>1. batch' = [batch EXCEPT ![f] = <<>>]
    BY DEF Finish
  <2>2. Own(queue, batch) /\ Within(queue, batch, recorded)
    BY DEF Invariant
  <2>3. /\ <<>> \in Seq(Events) /\ IsInjective(<<>>)
        /\ ToSet(queue') \cap ToSet(<<>>) = {}
        /\ ToSet(<<>>) \subseteq ToSet(queue) \union ToSet(batch[f])
        /\ ToSet(queue') \subseteq ToSet(queue) \union ToSet(batch[f])
    BY <1>6, Ends
  <2> QED BY <1>2, <1>4, <1>6, <2>1, <2>2, <2>3, Moves
<1>8. Len(queue') <= MaxQueueSize
  BY <1>2, <1>3, <1>4
<1> QED BY <1>1, <1>4, <1>6, <1>7, <1>8

\* Counting the copies of a batch.
LEMMA CountedType ==
    ASSUME NEW copies \in [Events -> Nat], NEW f \in Flights
    PROVE  Counted(copies, f) \in [Events -> Nat]
  BY DEF Counted

-----------------------------------------------------------------------------
\* Initially nothing is held.
LEMMA InitInvariant == Init => Invariant
<1> SUFFICES ASSUME Init PROVE Invariant
  OBVIOUS
<1>1. queue \in Seq(Events) /\ Len(queue) = 0
  BY Ends DEF Init
<1>2. /\ batch \in [Flights -> Seq(Events)]
      /\ attempt \in [Flights -> 1..RetryAttempts]
  BY ConfigAssumption, Ends DEF Init
<1>3. TypeOK
  <2>1. Len(queue) <= MaxQueueSize /\ faults \in 0..MaxFaults
    BY <1>1, ConfigAssumption, FaultAssumption DEF Init
  <2>2. /\ stage \in [Flights -> {"idle", "sending", "backoff", "thrown"}]
        /\ acked \in [Events -> Nat] /\ misses \in [Events -> Nat]
    BY DEF Init
  <2>3. /\ recorded \subseteq Events /\ givenUp \subseteq Events
        /\ thisMilli \subseteq Events /\ older \subseteq Events
        /\ closed \in BOOLEAN /\ exited \in BOOLEAN
    BY DEF Init
  <2> QED BY <1>1, <1>2, <2>1, <2>2, <2>3 DEF TypeOK
<1>4. Retries
  BY DEF Init, Retries
<1>5. Own(queue, batch) /\ Within(queue, batch, recorded)
  BY Ends DEF Init, Own, Within
<1> QED BY <1>3, <1>4, <1>5 DEF Invariant

\* record(): its event is in no queue and no batch yet.
LEMMA RecordStep ==
    ASSUME Invariant, NEW e \in Events, Record(e)
    PROVE  /\ Invariant'
           /\ \A f \in Flights : stage[f] = "thrown" => stage'[f] # "idle"
<1> DEFINE fits == Len(queue) < MaxQueueSize
           q == IF fits THEN Append(queue, e) ELSE queue
<1>1. /\ queue \in Seq(Events) /\ Len(queue) <= MaxQueueSize
      /\ MaxQueueSize \in Nat /\ recorded' = recorded \union {e}
      /\ e \notin recorded
  BY ConfigAssumption DEF Invariant, TypeOK, Record
<1>2. q \in Seq(Events) /\ Len(q) <= MaxQueueSize
  BY <1>1, Ends
<1>3. e \notin ToSet(queue) /\ \A f \in Flights : e \notin ToSet(batch[f])
  BY <1>1 DEF Invariant, Within
<1>4. IsInjective(q) /\ ToSet(q) \subseteq ToSet(queue) \union {e}
  BY <1>1, <1>3, Ends DEF Invariant, Own
<1>5. \/ Flush(q)
      \/ queue' = q /\ UNCHANGED flights
  BY DEF Record
<1>6. /\ UNCHANGED <<closed, exited, acked, misses, thisMilli, older, faults>>
      /\ givenUp' \subseteq Events
  BY DEF Record, backend, files, Invariant, TypeOK
<1> HIDE DEF q
<1>7. Own(q, batch) /\ Within(q, batch, recorded')
  BY <1>1, <1>3, <1>4 DEF Invariant, Own, Within
<1>8. CASE Flush(q)
  <2>1. /\ queue' \in Seq(Events) /\ Len(queue') <= MaxQueueSize
        /\ stage' \in [Flights -> {"idle", "sending", "backoff", "thrown"}]
        /\ batch' \in [Flights -> Seq(Events)]
        /\ attempt' \in [Flights -> 1..RetryAttempts]
        /\ Own(queue', batch') /\ Within(queue', batch', recorded')
        /\ Retries'
        /\ \A f \in Flights : stage[f] = "thrown" => stage'[f] # "idle"
    BY <1>2, <1>7, <1>8, FlushKeeps DEF Invariant
  <2> QED BY <2>1, <1>1, <1>6 DEF Invariant, TypeOK, Own, Within
<1>9. CASE queue' = q /\ UNCHANGED flights
  BY <1>1, <1>2, <1>6, <1>7, <1>9
     DEF Invariant, TypeOK, Own, Within, Retries, flights
<1> QED BY <1>5, <1>8, <1>9

\* The timer, flush() and close() flush the queue as it is.
LEMMA FlushStep ==
    ASSUME Invariant, Flush(queue), closed' \in BOOLEAN,
           UNCHANGED <<recorded, exited, backend, files, givenUp, faults>>
    PROVE  /\ Invariant'
           /\ \A f \in Flights : stage[f] = "thrown" => stage'[f] # "idle"
<1>1. queue \in Seq(Events) /\ Len(queue) <= MaxQueueSize
  BY DEF Invariant, TypeOK
<1>2. /\ queue' \in Seq(Events) /\ Len(queue') <= MaxQueueSize
      /\ stage' \in [Flights -> {"idle", "sending", "backoff", "thrown"}]
      /\ batch' \in [Flights -> Seq(Events)]
      /\ attempt' \in [Flights -> 1..RetryAttempts]
      /\ Own(queue', batch') /\ Within(queue', batch', recorded)
      /\ Retries'
      /\ \A f \in Flights : stage[f] = "thrown" => stage'[f] # "idle"
  BY <1>1, FlushKeeps DEF Invariant
<1> QED BY <1>2 DEF Invariant, TypeOK, backend, files, Own, Within

\* The steps of a flight.
LEMMA SettleStep ==
    ASSUME Invariant, NEW f \in Flights, Settle(f)
    PROVE  /\ Invariant'
           /\ \A g \in Flights : stage[g] = "thrown" /\ stage'[g] = "idle"
                 => IsSuffix(queue, queue')
<1> USE ConfigAssumption
<1>0. /\ TypeOK /\ Retries /\ Own(queue, batch)
      /\ Within(queue, batch, recorded)
      /\ acked \in [Events -> Nat] /\ misses \in [Events -> Nat]
  BY DEF Invariant, TypeOK
<1>1. CASE Answered(f)
  <2>1. /\ stage' \in [Flights -> {"idle", "sending", "backoff", "thrown"}]
        /\ batch' \in [Flights -> Seq(Events)]
        /\ attempt' \in [Flights -> 1..RetryAttempts]
        /\ Own(queue', batch') /\ Within(queue', batch', recorded)
        /\ Retries'
    BY <1>1, FinishKeeps DEF Answered
  <2>2. acked' \in [Events -> Nat]
    BY <1>0, <1>1, CountedType DEF Answered
  <2>3. \A g \in Flights : stage[g] = "thrown" => stage'[g] # "idle"
    BY <1>0, <1>1 DEF Answered, Finish, TypeOK
  <2> QED BY <1>0, <1>1, <2>1, <2>2, <2>3
          DEF Answered, Invariant, TypeOK, files, Own, Within
<1>2. CASE ErrorStatus(f)
  <2>1. misses' \in [Events -> Nat]
    BY <1>0, <1>2, CountedType DEF ErrorStatus
  <2>2. /\ stage' \in [Flights -> {"idle", "sending", "backoff", "thrown"}]
        /\ Retries'
        /\ \A g \in Flights : stage[g] = "thrown" => stage'[g] # "idle"
    BY <1>0, <1>2 DEF ErrorStatus, TypeOK, Retries
  <2>3. faults' \in 0..MaxFaults
    BY <1>0, <1>2, FaultAssumption DEF ErrorStatus, Fault, TypeOK
  <2> QED BY <1>0, <1>2, <2>1, <2>2, <2>3
          DEF ErrorStatus, Invariant, TypeOK, files, Own, Within
<1>3. CASE Rejected(f)
  <2>1. misses' \in [Events -> Nat]
    BY <1>0, <1>3, CountedType DEF Rejected
  <2>2. /\ stage' \in [Flights -> {"idle", "sending", "backoff", "thrown"}]
        /\ Retries'
        /\ \A g \in Flights : stage[g] = "thrown" => stage'[g] # "idle"
    BY <1>0, <1>3 DEF Rejected, TypeOK, Retries
  <2>3. faults' \in 0..MaxFaults
    BY <1>0, <1>3, FaultAssumption DEF Rejected, Fault, TypeOK
  <2> QED BY <1>0, <1>3, <2>1, <2>2, <2>3
          DEF Rejected, Invariant, TypeOK, files, Own, Within
<1>4. CASE Again(f)
  <2>1. /\ stage' \in [Flights -> {"idle", "sending", "backoff", "thrown"}]
        /\ attempt' \in [Flights -> 1..RetryAttempts]
        /\ Retries'
        /\ \A g \in Flights : stage[g] = "thrown" => stage'[g] # "idle"
    BY <1>0, <1>4 DEF Again, TypeOK, Retries
  <2> QED BY <1>0, <1>4, <2>1
          DEF Again, Invariant, TypeOK, backend, files, Own, Within
<1>5. CASE GiveUp(f)
  <2>1. /\ queue' \in Seq(Events) /\ Len(queue') <= MaxQueueSize
        /\ stage' \in [Flights -> {"idle", "sending", "backoff", "thrown"}]
        /\ batch' \in [Flights -> Seq(Events)]
        /\ attempt' \in [Flights -> 1..RetryAttempts]
        /\ Own(queue', batch') /\ Within(queue', batch', recorded)
        /\ Retries'
        /\ IsSuffix(queue, queue')
    BY <1>5, PutBackKeeps DEF GiveUp
  <2>2. ToSet(batch[f]) \subseteq Events
    BY <1>0 DEF Within, TypeOK
  <2>3. /\ thisMilli' \subseteq Events /\ givenUp' \subseteq Events
        /\ faults' \in 0..MaxFaults
    BY <1>0, <1>5, <2>2, FaultAssumption DEF GiveUp, Fault, TypeOK
  <2> QED BY <1>0, <1>5, <2>1, <2>3
          DEF GiveUp, Invariant, TypeOK, backend, Own, Within
<1> QED BY <1>1, <1>2, <1>3, <1>4, <1>5 DEF Settle

-----------------------------------------------------------------------------
\* Every step keeps the invariant, and the places of what is queued when a
\* batch is put back.
LEMMA StepKeeps ==
    ASSUME Invariant, [Next]_vars
    PROVE  /\ Invariant'
           /\ \A f \in Flights : stage[f] = "thrown" /\ stage'[f] = "idle"
                 => IsSuffix(queue, queue')
<1>1. ASSUME NEW e \in Events, Record(e)
      PROVE  /\ Invariant'
             /\ \A f \in Flights : stage[f] = "thrown" => stage'[f] # "idle"
  BY <1>1, RecordStep
<1>2. CASE TimerFlush \/ FlushCall
  <2>1. /\ Flush(queue)
        /\ UNCHANGED <<recorded, exited, backend, files, givenUp, faults>>
        /\ closed' \in BOOLEAN
    BY <1>2 DEF TimerFlush, FlushCall, Invariant, TypeOK
  <2> QED BY <2>1, FlushStep
<1>3. CASE Close
  <2>1. /\ Flush(queue)
        /\ UNCHANGED <<recorded, exited, backend, files, givenUp, faults>>
        /\ closed' \in BOOLEAN
    BY <1>3 DEF Close
  <2> QED BY <2>1, FlushStep
<1>4. ASSUME NEW f \in Flights, Settle(f)
      PROVE  /\ Invariant'
             /\ \A g \in Flights : stage[g] = "thrown" /\ stage'[g] = "idle"
                   => IsSuffix(queue, queue')
  BY <1>4, SettleStep
<1>5. CASE Tick
  BY <1>5 DEF Tick, Invariant, TypeOK, flights, backend, Own, Within, Retries
<1>6. CASE Exit
  BY <1>6 DEF Exit, Invariant, TypeOK, flights, backend, files, Own, Within,
              Retries
<1>7. CASE UNCHANGED vars
  BY <1>7 DEF vars, flights, Invariant, TypeOK, Own, Within, Retries
<1> QED BY <1>1, <1>2, <1>3, <1>4, <1>5, <1>6, <1>7 DEF Next

\* The types hold; above all the queue keeps within maxQueueSize, whatever
\* is put back, and no request is tried more often than retryAttempts.
THEOREM NodeTypes == Spec => []TypeOK
<1>1. Init => Invariant
  BY InitInvariant
<1>2. Invariant /\ [Next]_vars => Invariant'
  BY StepKeeps
<1>3. Invariant => TypeOK
  BY DEF Invariant
<1> QED BY <1>1, <1>2, <1>3, PTL DEF Spec

\* However many flushes overlap in the event loop, an event is in the queue
\* or in one flight, and there once.
THEOREM NodeOneOwner == Spec => []OneOwner
<1>1. Init => Invariant
  BY InitInvariant
<1>2. Invariant /\ [Next]_vars => Invariant'
  BY StepKeeps
<1>3. Invariant => OneOwner
  BY DEF Invariant, Own, OneOwner
<1> QED BY <1>1, <1>2, <1>3, PTL DEF Spec

\* Putting a failed batch back leaves what was recorded meanwhile in place.
THEOREM NodePutBack == Spec => PutBackKeepsNewer
<1>1. Init => Invariant
  BY InitInvariant
<1>2. Invariant /\ [Next]_vars => Invariant'
  BY StepKeeps
<1>3. Invariant /\ [Next]_vars =>
        [\A f \in Flights : stage[f] = "thrown" /\ stage'[f] = "idle" =>
            IsSuffix(queue, queue')]_vars
  BY StepKeeps
<1> QED BY <1>1, <1>2, <1>3, PTL DEF Spec, PutBackKeepsNewer

-----------------------------------------------------------------------------
(* The refinement of Delivery.                                             *)

\* A flight that is idle has no batch; one that failed had a fault.
FlightInv ==
    \A f \in Flights : /\ stage[f] = "idle" => batch[f] = <<>>
                       /\ stage[f] \in {"backoff", "thrown"} => faults > 0

\* What was acknowledged was recorded and is held no more; every copy that
\* the client does not know of comes from a fault.
CopiesInv ==
    \A e \in Events : /\ acked[e] > 0 => e \in recorded /\ ~Held(e)
                      /\ misses[e] <= faults

DeliversInv == Invariant /\ FlightInv /\ CopiesInv

\* A held event is pending in Delivery, and has no more copies than there
\* were faults.
LEMMA HeldFacts ==
    ASSUME DeliversInv, NEW e \in Events, Held(e)
    PROVE  /\ Status[e] = "pending" /\ e \in recorded /\ acked[e] = 0
           /\ Copies[e] \in Nat /\ Copies[e] <= faults
<1>1. e \in recorded
  BY DEF DeliversInv, Invariant, Within, Held
<1>2. acked[e] = 0 /\ misses[e] \in Nat /\ misses[e] <= faults
  BY DEF DeliversInv, Invariant, TypeOK, CopiesInv
<1> QED BY <1>1, <1>2 DEF Status, Copies

\* A flush moves events about, and loses none.
LEMMA FlushHolds ==
    ASSUME TypeOK, FlightInv, NEW q, Flush(q)
    PROVE  /\ \A e : Held(e)' <=> e \in ToSet(q) \/ \E f \in Flights : e \in ToSet(batch[f])
           /\ UNCHANGED faults => FlightInv'
<1>1. CASE queue' = q /\ UNCHANGED flights
  BY <1>1 DEF flights, Held, FlightInv
<1>2. ASSUME NEW f \in Flights, stage[f] = "idle",
             stage' = [stage EXCEPT ![f] = "sending"],
             batch' = [batch EXCEPT ![f] = q],
             queue' = <<>>
      PROVE  /\ \A e : Held(e)' <=> e \in ToSet(q) \/ \E g \in Flights : e \in ToSet(batch[g])
             /\ UNCHANGED faults => FlightInv'
  <2>1. /\ ToSet(queue') = {} /\ ToSet(batch[f]) = {} /\ batch'[f] = q
        /\ \A g \in Flights \ {f} : batch'[g] = batch[g]
    BY <1>2, Ends DEF TypeOK, FlightInv
  <2>2. \A e : Held(e)' <=> e \in ToSet(q) \/ \E g \in Flights : e \in ToSet(batch[g])
    BY <2>1 DEF Held
  <2>3. UNCHANGED faults => FlightInv'
    BY <1>2, <2>1 DEF TypeOK, FlightInv
  <2> QED BY <2>2, <2>3
<1> QED BY <1>1, <1>2 DEF Flush

\* When a flight ends, its batch is held only as far as the queue holds it.
LEMMA FinishHolds ==
    ASSUME Invariant, FlightInv, NEW f \in Flights, Finish(f)
    PROVE  /\ \A e : Held(e)' <=>
                 \/ e \in ToSet(queue')
                 \/ \E g \in Flights \ {f} : e \in ToSet(batch[g])
           /\ faults' \in {faults, faults + 1} => FlightInv'
<1>1. /\ batch'[f] = <<>> /\ stage'[f] = "idle"
      /\ \A g \in Flights \ {f} : batch'[g] = batch[g] /\ stage'[g] = stage[g]
  BY DEF Finish, Invariant, TypeOK
<1>2. ToSet(batch'[f]) = {}
  BY <1>1, Ends
<1>3. \A e : Held(e)' <=>
                 \/ e \in ToSet(queue')
                 \/ \E g \in Flights \ {f} : e \in ToSet(batch[g])
  BY <1>1, <1>2 DEF Held
<1>4. faults \in Nat
  BY FaultAssumption DEF Invariant, TypeOK
<1>5. ASSUME faults' \in {faults, faults + 1}
      PROVE  FlightInv'
  <2>1. \A g \in Flights \ {f} : faults > 0 => faults' > 0
    BY <1>4, <1>5
  <2> QED BY <1>1, <2>1 DEF FlightInv
<1> QED BY <1>3, <1>5

\* Steps that change neither what is held nor what was recorded, nor a copy.
LEMMA StatusStill ==
    ASSUME UNCHANGED <<recorded, acked, misses>>,
           \A e \in Events : Held(e)' <=> Held(e)
    PROVE  Status' = Status /\ Copies' = Copies
  BY DEF Status, Copies

-----------------------------------------------------------------------------
\* record() is Accept: the event is pending then, or refused.
LEMMA RecordDelivers ==
    ASSUME DeliversInv, NEW e \in Events, Record(e)
    PROVE  FlightInv' /\ CopiesInv' /\ D!Accept(e)
<1> DEFINE fits == Len(queue) < MaxQueueSize
           q == IF fits THEN Append(queue, e) ELSE queue
<1>1. /\ e \notin recorded /\ recorded' = recorded \union {e}
      /\ acked' = acked /\ misses' = misses /\ faults' = faults
      /\ Flush(q) \/ (queue' = q /\ UNCHANGED flights)
  BY DEF Record, backend
<1>2. ~Held(e) /\ acked[e] = 0
  BY <1>1 DEF DeliversInv, Invariant, TypeOK, CopiesInv, Within, Held
<1>3. ToSet(q) = IF fits THEN ToSet(queue) \union {e} ELSE ToSet(queue)
  <2>1. CASE fits
    <3>1. queue \in Seq(Events)
      BY DEF DeliversInv, Invariant, TypeOK
    <3>2. ToSet(Append(queue, e)) = ToSet(queue) \union {e}
      BY <3>1, Ends
    <3> QED BY <2>1, <3>2
  <2>2. CASE ~fits
    BY <2>2
  <2> QED BY <2>1, <2>2
<1> HIDE DEF q
<1>4. /\ \A x : Held(x)' <=> x \in ToSet(q) \/ \E f \in Flights : x \in ToSet(batch[f])
      /\ FlightInv'
  BY <1>1, FlushHolds DEF DeliversInv, Invariant, Held, flights, FlightInv
<1>5. \A x : Held(x)' <=> Held(x) \/ (fits /\ x = e)
  BY <1>3, <1>4 DEF Held
<1>6. CopiesInv'
  BY <1>1, <1>2, <1>5 DEF DeliversInv, CopiesInv
<1>7. Status[e] = "new"
  BY <1>1, <1>2 DEF Status
<1>8. \A x \in Events \ {e} : Status'[x] = Status[x]
  BY <1>1, <1>5 DEF Status
<1>9. Status'[e] = IF fits THEN "pending" ELSE "out"
  BY <1>1, <1>2, <1>5 DEF Status
<1>10. Status' = D!Becomes({e}, IF fits THEN "pending" ELSE "out")
  BY <1>8, <1>9 DEF Status, D!Becomes
<1>11. Copies' = Copies
  BY <1>1 DEF Copies
<1> QED BY <1>1, <1>4, <1>6, <1>7, <1>10, <1>11 DEF D!Accept

\* The timer, flush() and close() are no steps of Delivery.
LEMMA FlushDelivers ==
    ASSUME DeliversInv, Flush(queue), UNCHANGED <<recorded, backend, faults>>
    PROVE  FlightInv' /\ CopiesInv' /\ UNCHANGED D!vars
<1>1. /\ \A e : Held(e)' <=> Held(e)
      /\ FlightInv'
  BY FlushHolds DEF DeliversInv, Invariant, Held
<1>2. acked' = acked /\ misses' = misses
  BY DEF backend
<1>3. CopiesInv'
  BY <1>1, <1>2 DEF DeliversInv, CopiesInv
<1> QED BY <1>1, <1>2, <1>3, StatusStill DEF D!vars

\* An answer settles the batch.
LEMMA AnsweredDelivers ==
    ASSUME DeliversInv, NEW f \in Flights, Answered(f)
    PROVE  FlightInv' /\ CopiesInv' /\ D!Settle(ToSet(batch[f]), {})
<1> DEFINE B == ToSet(batch[f])
<1>1. /\ Finish(f) /\ acked' = Counted(acked, f)
      /\ UNCHANGED <<recorded, queue, misses, faults>>
  BY DEF Answered
<1>2. faults \in Nat /\ acked \in [Events -> Nat] /\ misses \in [Events -> Nat]
  BY FaultAssumption DEF DeliversInv, Invariant, TypeOK
<1>3. B \subseteq Events /\ \A e \in B : Held(e)
  BY DEF DeliversInv, Invariant, TypeOK, Within, Held
<1>4. FlightInv' /\ \A e : Held(e)' <=> Held(e) /\ e \notin B
  <2>1. \A e \in B : e \notin ToSet(queue)
    BY DEF DeliversInv, Invariant, Own
  <2>2. \A e \in B : \A g \in Flights \ {f} : e \notin ToSet(batch[g])
    BY DEF DeliversInv, Invariant, Own
  <2>3. FlightInv'
    BY <1>1, <1>2, FinishHolds DEF DeliversInv
  <2>4. \A e : Held(e)' <=> \/ e \in ToSet(queue)
                            \/ \E g \in Flights \ {f} : e \in ToSet(batch[g])
    BY <1>1, FinishHolds DEF DeliversInv
  <2> QED BY <2>1, <2>2, <2>3, <2>4 DEF Held
<1> HIDE DEF B
<1>5. \A e \in Events : acked'[e] = acked[e] + IF e \in B THEN 1 ELSE 0
  BY <1>1 DEF Counted, B
<1>6. \A e \in B : Status[e] = "pending" /\ e \in recorded /\ Copies[e] <= faults
  BY <1>3, HeldFacts
<1>7. CopiesInv'
  BY <1>1, <1>2, <1>4, <1>5, <1>6 DEF DeliversInv, CopiesInv
<1>8. /\ B \subseteq D!With("pending")
      /\ D!Stores(B)
  <2>1. Copies' = [e \in Events |-> Copies[e] + IF e \in B THEN 1 ELSE 0]
    BY <1>1, <1>2, <1>5 DEF Copies
  <2> QED BY <1>3, <1>6, <2>1 DEF D!With, D!Stores
<1>9. \A e \in B : Copies'[e] >= 1
  BY <1>1, <1>2, <1>3, <1>5 DEF Copies
<1>10. Status' = [e \in Events |-> IF e \in {} THEN "out"
                                   ELSE D!Becomes(B, "done")[e]]
  <2>1. \A e \in B : Status'[e] = "done"
    BY <1>2, <1>3, <1>4, <1>5 DEF Status
  <2>2. \A e \in Events \ B : Status'[e] = Status[e]
    BY <1>1, <1>2, <1>4, <1>5 DEF Status
  <2> QED BY <2>1, <2>2 DEF Status, D!Becomes
<1> QED BY <1>1, <1>4, <1>7, <1>8, <1>9, <1>10 DEF D!Settle, B

\* A failed attempt is a failure that gives nothing up.
LEMMA FailureDelivers ==
    ASSUME DeliversInv, NEW f \in Flights, ErrorStatus(f) \/ Rejected(f)
    PROVE  /\ FlightInv' /\ CopiesInv'
           /\ \E B \in SUBSET Events : D!Fail(B, {})
<1>1. /\ UNCHANGED <<recorded, queue, batch, acked>> /\ Fault
      /\ misses' = misses \/ misses' = Counted(misses, f)
      /\ \E s \in {"backoff", "thrown"} : stage' = [stage EXCEPT ![f] = s]
  BY DEF ErrorStatus, Rejected
<1>2. faults \in Nat /\ faults' = faults + 1 /\ misses \in [Events -> Nat]
      /\ acked \in [Events -> Nat]
  BY <1>1, FaultAssumption DEF DeliversInv, Invariant, TypeOK, Fault
<1>3. \A e \in Events : Held(e)' <=> Held(e)
  BY <1>1 DEF Held
<1>4. FlightInv'
  <2>1. \A g \in Flights : stage'[g] = "idle" => stage[g] = "idle"
    BY <1>1 DEF DeliversInv, Invariant, TypeOK
  <2> QED BY <1>1, <1>2, <2>1 DEF DeliversInv, FlightInv
<1>5. CopiesInv'
  BY <1>1, <1>2, <1>3 DEF DeliversInv, CopiesInv, Counted
<1>6. Status' = Status
  BY <1>1, <1>3 DEF Status
<1>7. D!Becomes({}, "out") = Status
  BY DEF D!Becomes, Status
<1>8. ASSUME NEW B, B \subseteq ToSet(batch[f]),
             Copies' = [e \in Events |-> Copies[e] + IF e \in B THEN 1 ELSE 0]
      PROVE  B \in SUBSET Events /\ D!Fail(B, {})
  <2>1. B \subseteq Events /\ \A e \in B : Held(e)
    BY <1>8 DEF DeliversInv, Invariant, TypeOK, Within, Held
  <2>2. D!Stores(B)
    BY <1>8, <2>1, HeldFacts DEF D!Stores
  <2> QED BY <1>1, <1>6, <1>7, <2>1, <2>2 DEF D!Fail, Fault
<1>9. CASE misses' = misses
  <2>1. Copies' = [e \in Events |-> Copies[e] + IF e \in {} THEN 1 ELSE 0]
    BY <1>1, <1>2, <1>9 DEF Copies
  <2> QED BY <1>4, <1>5, <1>8, <2>1
<1>10. CASE misses' = Counted(misses, f)
  <2>1. Copies' = [e \in Events |-> Copies[e] + IF e \in ToSet(batch[f]) THEN 1 ELSE 0]
    BY <1>1, <1>2, <1>10 DEF Copies, Counted
  <2> QED BY <1>4, <1>5, <1>8, <2>1
<1> QED BY <1>1, <1>9, <1>10

\* The catch block gives up what does not fit in the queue, after a failure
\* or with one.
LEMMA GiveUpDelivers ==
    ASSUME DeliversInv, NEW f \in Flights, GiveUp(f)
    PROVE  /\ FlightInv' /\ CopiesInv'
           /\ \E C \in SUBSET Events : D!Settle({}, C) \/ D!Fail({}, C)
<1>1. /\ stage[f] = "thrown" /\ PutBack(f) /\ Finish(f)
      /\ UNCHANGED <<recorded, acked, misses>>
      /\ UNCHANGED faults \/ Fault
  BY DEF GiveUp, backend
<1>2. /\ faults \in Nat /\ faults > 0 /\ misses \in [Events -> Nat]
      /\ acked \in [Events -> Nat]
  BY <1>1, FaultAssumption DEF DeliversInv, Invariant, TypeOK, FlightInv
<1>3. faults' = faults \/ faults' = faults + 1
  BY <1>1 DEF Fault
<1>4. FlightInv' /\ \A e : Held(e)' => Held(e)
  <2>1. ToSet(queue') \subseteq ToSet(batch[f]) \union ToSet(queue)
    BY <1>1, PutBackKeeps DEF DeliversInv
  <2>2. FlightInv'
    BY <1>1, <1>3, FinishHolds DEF DeliversInv
  <2>3. \A e : Held(e)' => \/ e \in ToSet(queue')
                           \/ \E g \in Flights : e \in ToSet(batch[g])
    BY <1>1, FinishHolds DEF DeliversInv
  <2> QED BY <2>1, <2>2, <2>3 DEF Held
<1>5. CopiesInv'
  BY <1>1, <1>2, <1>3, <1>4 DEF DeliversInv, CopiesInv
<1> DEFINE C == {e \in Events : Held(e) /\ ~Held(e)'}
<1>6. C \in SUBSET Events /\ C \subseteq D!With("pending")
  BY HeldFacts DEF D!With
<1>7. Status' = D!Becomes(C, "out")
  <2>1. \A e \in C : Status'[e] = "out"
    BY <1>1, HeldFacts DEF Status
  <2>2. \A e \in Events \ C : Status'[e] = Status[e]
    BY <1>1, <1>4 DEF Status
  <2> HIDE DEF C
  <2> QED BY <2>1, <2>2 DEF Status, D!Becomes
<1>8. D!Stores({})
  BY <1>1, <1>2 DEF D!Stores, Copies
<1> HIDE DEF C
<1>9. CASE UNCHANGED faults
  <2>1. Status' = [e \in Events |-> IF e \in C THEN "out" ELSE D!Becomes({}, "done")[e]]
    BY <1>7 DEF D!Becomes
  <2>2. D!Settle({}, C)
    BY <1>2, <1>6, <1>8, <1>9, <2>1 DEF D!Settle
  <2> QED BY <1>4, <1>5, <1>6, <2>2
<1>10. CASE Fault
  <2>1. D!Fail({}, C)
    BY <1>6, <1>7, <1>8, <1>10 DEF D!Fail, Fault
  <2> QED BY <1>4, <1>5, <1>6, <2>1
<1> QED BY <1>1, <1>9, <1>10

LEMMA DeliversStep == DeliversInv /\ [Next]_vars => DeliversInv' /\ [D!Next]_(D!vars)
<1> SUFFICES ASSUME DeliversInv, [Next]_vars
             PROVE  FlightInv' /\ CopiesInv' /\ (D!Next \/ UNCHANGED D!vars)
  BY StepKeeps DEF DeliversInv
<1>1. ASSUME NEW e \in Events, Record(e)
      PROVE  FlightInv' /\ CopiesInv' /\ D!Next
  BY <1>1, RecordDelivers DEF D!Next
<1>2. CASE TimerFlush \/ FlushCall \/ Close
  <2>1. Flush(queue) /\ UNCHANGED <<recorded, backend, faults>>
    BY <1>2 DEF TimerFlush, FlushCall, Close
  <2> QED BY <2>1, FlushDelivers
<1>3. ASSUME NEW f \in Flights, Settle(f)
      PROVE  FlightInv' /\ CopiesInv' /\ (D!Next \/ UNCHANGED D!vars)
  <2>1. CASE Answered(f)
    <3>1. ToSet(batch[f]) \in SUBSET Events
      BY DEF DeliversInv, Invariant, TypeOK, Within
    <3> QED BY <2>1, <3>1, AnsweredDelivers DEF D!Next
  <2>2. CASE ErrorStatus(f) \/ Rejected(f)
    BY <2>2, FailureDelivers DEF D!Next
  <2>3. CASE GiveUp(f)
    BY <2>3, GiveUpDelivers DEF D!Next
  <2>4. CASE Again(f)
    <3>1. FlightInv'
      BY <2>4 DEF Again, DeliversInv, Invariant, TypeOK, FlightInv
    <3>2. /\ UNCHANGED <<recorded, acked, misses, faults>>
          /\ \A e : Held(e)' <=> Held(e)
      BY <2>4 DEF Again, backend, Held
    <3> QED BY <3>1, <3>2, StatusStill DEF DeliversInv, CopiesInv, D!vars
  <2> QED BY <1>3, <2>1, <2>2, <2>3, <2>4 DEF Settle
<1>4. CASE Tick \/ Exit \/ UNCHANGED vars
  <2>1. /\ UNCHANGED <<recorded, acked, misses, faults>>
        /\ UNCHANGED <<queue, stage, batch>>
    BY <1>4 DEF Tick, Exit, vars, flights, backend
  <2>2. (\A e : Held(e)' <=> Held(e)) /\ FlightInv'
    BY <2>1 DEF Held, FlightInv, DeliversInv
  <2> QED BY <2>1, <2>2, StatusStill DEF DeliversInv, CopiesInv, D!vars
<1> QED BY <1>1, <1>2, <1>3, <1>4 DEF Next

LEMMA DeliversInit == Init => DeliversInv /\ D!Init
<1> SUFFICES ASSUME Init PROVE DeliversInv /\ D!Init
  OBVIOUS
<1>1. \A e : ~Held(e)
  BY Ends DEF Init, Held
<1>2. FlightInv /\ CopiesInv
  BY <1>1 DEF Init, FlightInv, CopiesInv
<1>3. Status = [e \in Events |-> "new"] /\ Copies = [e \in Events |-> 0]
  BY <1>1 DEF Init, Status, Copies
<1> QED BY <1>2, <1>3, InitInvariant DEF DeliversInv, Init, D!Init

\* The Node client implements Delivery: however many flushes overlap, an
\* event is given up for a full queue or a failure only, and has no copy
\* beyond the first that a failure does not account for.
THEOREM NodeDelivers == Spec => Delivers
  BY DeliversInit, DeliversStep, PTL DEF Spec, Delivers, D!Spec

\* What Delivery implies: the states that every step of it leads to again.
DeliveryInv ==
    /\ Status \in [Events -> {"new", "pending", "done", "out"}]
    /\ Copies \in [Events -> Nat] /\ faults \in Nat
    /\ D!CopiesPaidFor /\ D!DoneIsStored

LEMMA DeliveryInit == D!Init => DeliveryInv
  BY DEF D!Init, DeliveryInv, D!CopiesPaidFor, D!DoneIsStored

LEMMA DeliveryStep == DeliveryInv /\ [D!Next]_(D!vars) => DeliveryInv'
<1> SUFFICES ASSUME DeliveryInv, [D!Next]_(D!vars)
             PROVE  DeliveryInv'
  OBVIOUS
<1> USE DEF DeliveryInv, D!CopiesPaidFor, D!DoneIsStored, D!With, D!Becomes
<1>1. ASSUME NEW e \in Events, D!Accept(e)
      PROVE  DeliveryInv'
  BY <1>1 DEF D!Accept
<1>2. ASSUME NEW B \in SUBSET Events, D!Store(B)
      PROVE  DeliveryInv'
  BY <1>2 DEF D!Store, D!Stores
<1>3. ASSUME NEW B \in SUBSET Events, NEW C \in SUBSET Events, D!Settle(B, C)
      PROVE  DeliveryInv'
  BY <1>3 DEF D!Settle, D!Stores
<1>4. ASSUME NEW B \in SUBSET Events, NEW C \in SUBSET Events, D!Fail(B, C)
      PROVE  DeliveryInv'
  BY <1>4 DEF D!Fail, D!Stores
<1>5. CASE D!Close
  BY <1>5 DEF D!Close
<1>6. CASE UNCHANGED D!vars
  BY <1>6 DEF D!vars
<1> QED BY <1>1, <1>2, <1>3, <1>4, <1>5, <1>6 DEF D!Next

\* What follows from Delivery holds of the Node client: no event is stored
\* more than once per failure and once more, and what it has forgotten as
\* delivered is stored.
THEOREM NodeCopies ==
    Spec => [](D!CopiesPaidFor /\ D!DoneIsStored)
<1>1. DeliveryInv => D!CopiesPaidFor /\ D!DoneIsStored
  BY DEF DeliveryInv
<1> QED BY <1>1, DeliveryInit, DeliveryStep, NodeDelivers, PTL DEF Delivers, D!Spec
=============================================================================
