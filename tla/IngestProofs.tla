--------------------------- MODULE IngestProofs ---------------------------
(***************************************************************************)
(* Proofs about the ingest endpoints, for every set of requests, any pool, *)
(* any number of errors, and clients that time out and post again.         *)
(***************************************************************************)
EXTENDS Pipeline, FiniteSetTheorems, TLAPS

\* The request has come to neither its commit nor a rollback.
Uncommitted(r) ==
    \/ phase[r] \in {"idle", "pricing", "flushing", "refreshing", "commit"}
    \/ phase[r] = "respond" /\ ~CommitFirst /\ status[r] = 201

\* The rows a working session has inserted are those of the results, and the
\* one that has not been read back yet.
Inserted(r) ==
    IF session[r] # "active" THEN {}
    ELSE IF phase[r] = "refreshing" THEN results[r] \union {Current(r)}
    ELSE results[r]

\* What holds of the transaction of a request.
Transaction(r) ==
    /\ Uncommitted(r) => Rows(r) = {} /\ flushed[r] = Inserted(r)
    /\ phase[r] = "refreshing" => session[r] = "active"
    /\ Rows(r) # {} =>
          /\ session[r] = "active" /\ Rows(r) = results[r]
          /\ done[r] = Len(Body[r]) /\ status[r] \notin {400, 422}

\* What holds of its status and its answer.
Answer(r) ==
    /\ phase[r] \in {"idle", "pricing", "flushing", "refreshing"} =>
          status[r] = 0 /\ answered[r] = 0
    /\ phase[r] = "commit" => status[r] = 201
    /\ phase[r] = "rollback" => status[r] # 201
    /\ status[r] = 201 => done[r] = Len(Body[r])
    /\ answered[r] \in {400, 422, 500} => status[r] = answered[r]
    /\ CommitFirst /\ answered[r] # 0 => phase[r] = "end" /\ status[r] = answered[r]
    /\ ~CommitFirst /\ phase[r] \in {"commit", "close"} /\ status[r] = 201 =>
          answered[r] = 201
    /\ CommitFirst /\ phase[r] \in {"close", "respond", "end"} /\ status[r] = 201 =>
          Rows(r) = IF session[r] = "active" THEN results[r] ELSE {}

-----------------------------------------------------------------------------
(* A step of a request is its own.                                         *)

\* Of a function over the requests, only the value of r changes.
Own(old, new, r) ==
    /\ new = [q \in Requests |-> new[q]]
    /\ \A q \in Requests \ {r} : new[q] = old[q]

Local(r) ==
    /\ Own(phase, phase', r) /\ Own(done, done', r) /\ Own(flushed, flushed', r)
    /\ Own(session, session', r) /\ Own(results, results', r)
    /\ Own(status, status', r) /\ Own(answered, answered', r)
    /\ \E rows \in SUBSET flushed[r] : table' = table \union ({r} \X rows)

LEMMA Updated ==
    ASSUME NEW T, NEW f \in [Requests -> T], NEW g, NEW r \in Requests,
           g = f \/ \E v : g = [f EXCEPT ![r] = v]
    PROVE  Own(f, g, r)
  BY DEF Own

LEMMA HandleIsLocal ==
    ASSUME TypeOK, NEW r \in Requests, Handle(r)
    PROVE  Local(r)
<1> USE DEF Handle, Receive, Price, PriceFails, FlushRow, FlushFails, FlushBroken,
            Refresh, RefreshFails, Return, Commit, CommitFails, Rollback, Close,
            Respond, Skip, Goto, Decide, Connect
<1>1. phase' = phase \/ \E v : phase' = [phase EXCEPT ![r] = v]
  OBVIOUS
<1>2. done' = done \/ \E v : done' = [done EXCEPT ![r] = v]
  OBVIOUS
<1>3. flushed' = flushed \/ \E v : flushed' = [flushed EXCEPT ![r] = v]
  OBVIOUS
<1>4. session' = session \/ \E v : session' = [session EXCEPT ![r] = v]
  OBVIOUS
<1>5. results' = results \/ \E v : results' = [results EXCEPT ![r] = v]
  OBVIOUS
<1>6. status' = status \/ \E v : status' = [status EXCEPT ![r] = v]
  OBVIOUS
<1>7. answered' = answered \/ \E v : answered' = [answered EXCEPT ![r] = v]
  OBVIOUS
<1>8. \E rows \in SUBSET flushed[r] : table' = table \union ({r} \X rows)
  <2>1. table' \in {table, table \union ({r} \X flushed[r])}
    OBVIOUS
  <2>2. table = table \union ({r} \X {}) /\ {} \in SUBSET flushed[r]
    OBVIOUS
  <2> QED BY <2>1, <2>2
<1> HIDE DEF Handle, Receive, Price, PriceFails, FlushRow, FlushFails, FlushBroken,
             Refresh, RefreshFails, Return, Commit, CommitFails, Rollback, Close,
             Respond, Skip, Goto, Decide, Connect
<1> QED BY <1>1, <1>2, <1>3, <1>4, <1>5, <1>6, <1>7, <1>8, Updated DEF Local, TypeOK

-----------------------------------------------------------------------------
(* Each step keeps what holds of its own request.                          *)

\* The types of what belongs to a request.
TypeOf(r) ==
    /\ phase[r] \in {"idle", "pricing", "flushing", "refreshing",
                     "commit", "rollback", "close", "respond", "end"}
    /\ done[r] \in Nat /\ done[r] <= Len(Body[r])
    /\ phase[r] \in {"flushing", "refreshing"} => done[r] < Len(Body[r])
    /\ flushed[r] \subseteq Carried(r) /\ results[r] \subseteq Carried(r)
    /\ session[r] \in {"active", "aborted", "deactivated"}
    /\ status[r] \in {0, 201, 400, 422, 500}
    /\ answered[r] \in {0, 201, 400, 422, 500}

SoundRequest(r) == TypeOf(r) /\ Transaction(r) /\ Answer(r)

\* What a skipped event leaves behind.
LEMMA SkipEffect ==
    ASSUME TypeOK, NEW r \in Requests, NEW codes, Skip(r, codes)
    PROVE  \/ /\ phase'[r] = "rollback" /\ done'[r] = done[r]
              /\ status'[r] \in codes
           \/ /\ phase'[r] = "pricing" /\ done'[r] = done[r] + 1
              /\ status'[r] = status[r]
  BY DEF TypeOK, Skip, Goto, Decide

LEMMA OwnStep ==
    ASSUME TypeOK, NEW r \in Requests, SoundRequest(r), Handle(r)
    PROVE  SoundRequest(r)'
<1>a. done[r] < Len(Body[r]) => Current(r) \in Carried(r)
  <2>1. Body[r] \in Seq(EventIds)
    BY RequestAssumption
  <2> QED BY <2>1 DEF Carried, ToSet, Current, TypeOK
<1>b. Len(Body[r]) \in Nat
  BY RequestAssumption
<1>c. table' = table => Rows(r)' = Rows(r)
  BY DEF Rows
<1>d. UNCHANGED <<done, table, faults>> => Current(r)' = Current(r)
  BY DEF Current
<1>e. Rows(r) = {} => \A rows \in SUBSET flushed[r] :
          table' = table \union ({r} \X rows) => Rows(r)' = rows
  BY DEF Rows, TypeOK
<1> USE <1>b, <1>c DEF SoundRequest, TypeOf, Transaction, Answer, Uncommitted, Inserted
<1>1. CASE Receive(r)
  <2>1. /\ phase[r] = "idle"
        /\ \/ status'[r] \in {400, 422} /\ phase'[r] = "rollback"
           \/ status'[r] = status[r] /\ phase'[r] = "pricing"
        /\ UNCHANGED <<done, flushed, session, results, answered, table>>
    BY <1>1 DEF Receive, Goto, Decide, TypeOK
  <2> QED BY <2>1
<1>2. CASE Price(r)
  <2>1. /\ phase[r] = "pricing" /\ done[r] < Len(Body[r]) /\ phase'[r] = "flushing"
        /\ UNCHANGED <<done, flushed, session, results, status, answered, table>>
    BY <1>2 DEF Price, Goto, TypeOK
  <2> QED BY <2>1
<1>3. CASE PriceFails(r)
  <2>1. /\ phase[r] = "pricing" /\ done[r] < Len(Body[r]) /\ Skip(r, {400, 500})
        /\ UNCHANGED <<flushed, session, results, answered, table>>
    BY <1>3 DEF PriceFails
  <2> QED BY <2>1, SkipEffect
<1>4. CASE FlushRow(r)
  <2>1. /\ phase[r] = "flushing" /\ session[r] = "active"
        /\ phase'[r] = "refreshing" /\ flushed'[r] = flushed[r] \union {Current(r)}
        /\ UNCHANGED <<done, session, results, status, answered, table>>
    BY <1>4 DEF FlushRow, Goto, TypeOK
  <2>2. Current(r)' = Current(r)
    BY <2>1 DEF Current
  <2> QED BY <2>1, <2>2, <1>a
<1>5. CASE FlushFails(r)
  <2>1. /\ phase[r] = "flushing" /\ Skip(r, {500})
        /\ flushed'[r] = {} /\ session'[r] = "deactivated"
        /\ UNCHANGED <<results, answered, table>>
    BY <1>5 DEF FlushFails, TypeOK
  <2> QED BY <2>1, SkipEffect
<1>6. CASE FlushBroken(r)
  <2>1. /\ phase[r] = "flushing" /\ session[r] # "active" /\ Skip(r, {500})
        /\ session'[r] = "deactivated"
        /\ UNCHANGED <<flushed, results, answered, table>>
    BY <1>6 DEF FlushBroken, TypeOK
  <2> QED BY <2>1, SkipEffect
<1>7. CASE Refresh(r)
  <2>1. /\ phase[r] = "refreshing" /\ phase'[r] = "pricing"
        /\ results'[r] = results[r] \union {Current(r)} /\ done'[r] = done[r] + 1
        /\ UNCHANGED <<flushed, session, status, answered, table>>
    BY <1>7 DEF Refresh, Goto, TypeOK
  <2> QED BY <2>1, <1>a
<1>8. CASE RefreshFails(r)
  <2>1. /\ phase[r] = "refreshing" /\ Skip(r, {500})
        /\ flushed'[r] = {} /\ session'[r] \in {"aborted", "deactivated"}
        /\ UNCHANGED <<results, answered, table>>
    BY <1>8 DEF RefreshFails, TypeOK
  <2> QED BY <2>1, SkipEffect
<1>9. CASE Return(r)
  <2>1. /\ phase[r] = "pricing" /\ done[r] = Len(Body[r])
        /\ status'[r] = 201 /\ phase'[r] = Returned
        /\ UNCHANGED <<done, flushed, session, results, answered, table>>
    BY <1>9 DEF Return, Goto, Decide, TypeOK
  <2> QED BY <2>1 DEF Returned
<1>10. CASE Commit(r)
  <2>1. /\ phase[r] = "commit" /\ session[r] # "deactivated" /\ phase'[r] = "close"
        /\ table' = table \union ({r} \X flushed[r]) /\ flushed'[r] = {}
        /\ UNCHANGED <<done, session, results, status, answered>>
    BY <1>10 DEF Commit, Goto, TypeOK
  <2>2. Rows(r)' = flushed[r]
    BY <2>1, <1>e
  <2> QED BY <2>1, <2>2
<1>11. CASE CommitFails(r)
  <2>1. /\ phase[r] = "commit" /\ phase'[r] = "rollback" /\ status'[r] = 500
        /\ table' \in {table, table \union ({r} \X flushed[r])}
        /\ UNCHANGED <<done, flushed, session, results, answered>>
    BY <1>11 DEF CommitFails, Goto, Decide, TypeOK
  <2>2. Rows(r) = {}
    BY <2>1
  <2>3. Rows(r)' \in {{}, flushed[r]}
    BY <2>1, <2>2, <1>e
  <2> QED BY <2>1, <2>3
<1>12. CASE Rollback(r)
  <2>1. /\ phase[r] = "rollback" /\ phase'[r] = "close" /\ flushed'[r] = {}
        /\ UNCHANGED <<done, session, results, status, answered, table>>
    BY <1>12 DEF Rollback, Goto, TypeOK
  <2> QED BY <2>1
<1>13. CASE Close(r)
  <2>1. /\ phase[r] = "close"
        /\ phase'[r] = IF answered[r] = 0 THEN "respond" ELSE "end"
        /\ UNCHANGED <<done, flushed, session, results, status, answered, table>>
    BY <1>13 DEF Close, Goto, TypeOK
  <2> QED BY <2>1
<1>14. CASE Respond(r)
  <2>1. /\ phase[r] = "respond" /\ answered'[r] = status[r]
        /\ phase'[r] = IF ~CommitFirst /\ status[r] = 201 THEN "commit" ELSE "end"
        /\ UNCHANGED <<done, flushed, session, results, status, table>>
    BY <1>14 DEF Respond, Goto, TypeOK
  <2> QED BY <2>1
<1> QED
  BY <1>1, <1>2, <1>3, <1>4, <1>5, <1>6, <1>7, <1>8, <1>9, <1>10, <1>11,
     <1>12, <1>13, <1>14 DEF Handle

-----------------------------------------------------------------------------
(* The whole system.                                                       *)

LEMMA StaysSound ==
    ASSUME NEW q \in Requests, SoundRequest(q), Rows(q)' = Rows(q),
           phase'[q] = phase[q], done'[q] = done[q], flushed'[q] = flushed[q],
           session'[q] = session[q], results'[q] = results[q],
           status'[q] = status[q], answered'[q] = answered[q]
    PROVE  SoundRequest(q)'
<1>1. Current(q)' = Current(q)
  BY DEF Current
<1> QED
  BY <1>1 DEF SoundRequest, TypeOf, Transaction, Answer, Uncommitted, Inserted

\* The other requests do not notice.
LEMMA OthersStay ==
    ASSUME TypeOK, NEW r \in Requests, Local(r),
           NEW q \in Requests \ {r}, SoundRequest(q)
    PROVE  SoundRequest(q)'
<1>1. /\ phase'[q] = phase[q] /\ done'[q] = done[q] /\ flushed'[q] = flushed[q]
      /\ session'[q] = session[q] /\ results'[q] = results[q]
      /\ status'[q] = status[q] /\ answered'[q] = answered[q]
  BY DEF Local, Own
<1>2. Rows(q)' = Rows(q)
  BY DEF Local, Rows
<1> QED BY <1>1, <1>2, StaysSound

\* The types follow from those of each request.
LEMMA TypesOfAll ==
    ASSUME TypeOK, NEW r \in Requests, Local(r), \A q \in Requests : TypeOf(q)',
           connected' \subseteq Requests, faults' \in 0..MaxFaults
    PROVE  TypeOK'
<1>1. \A q \in Requests : Carried(q) \subseteq EventIds
  <2>1. \A q \in Requests : Body[q] \in Seq(EventIds)
    BY RequestAssumption
  <2> QED BY <2>1 DEF Carried, ToSet
<1>2. table' \subseteq Requests \X EventIds
  BY <1>1 DEF Local, TypeOK
<1>3. /\ phase' \in [Requests -> {"idle", "pricing", "flushing", "refreshing",
                                  "commit", "rollback", "close", "respond", "end"}]
      /\ done' \in [Requests -> Nat]
  BY DEF Local, Own, TypeOf
<1>4. /\ flushed' \in [Requests -> SUBSET EventIds]
      /\ results' \in [Requests -> SUBSET EventIds]
  BY <1>1 DEF Local, Own, TypeOf
<1>5. /\ session' \in [Requests -> {"active", "aborted", "deactivated"}]
      /\ status' \in [Requests -> {0, 201, 400, 422, 500}]
      /\ answered' \in [Requests -> {0, 201, 400, 422, 500}]
  BY DEF Local, Own, TypeOf
<1> QED BY <1>2, <1>3, <1>4, <1>5 DEF TypeOK, TypeOf

Invariant == TypeOK /\ \A r \in Requests : SoundRequest(r)

LEMMA HandleKeeps ==
    ASSUME Invariant, NEW r \in Requests, Handle(r)
    PROVE  Invariant'
<1>1. Local(r)
  BY HandleIsLocal DEF Invariant
<1>2. \A q \in Requests : SoundRequest(q)'
  BY <1>1, OwnStep, OthersStay DEF Invariant
<1>3. connected' \subseteq Requests /\ faults' \in 0..MaxFaults
  BY BuildAssumption
  DEF Invariant, TypeOK, Handle, Receive, Price, PriceFails, FlushRow, FlushFails,
      FlushBroken, Refresh, RefreshFails, Return, Commit, CommitFails, Rollback,
      Close, Respond, Connect, Fault
<1> QED BY <1>1, <1>2, <1>3, TypesOfAll DEF Invariant, SoundRequest

LEMMA InitInvariant == Init => Invariant
<1>1. \A r \in Requests : Carried(r) \subseteq EventIds /\ Len(Body[r]) \in Nat
  <2>1. \A r \in Requests : Body[r] \in Seq(EventIds)
    BY RequestAssumption
  <2> QED BY <2>1 DEF Carried, ToSet
<1> QED
  BY <1>1, BuildAssumption
  DEF Init, Invariant, TypeOK, SoundRequest, TypeOf, Transaction, Answer,
      Uncommitted, Inserted, Rows

\* Requests alone, and requests of clients that give up waiting.
LEMMA Preserved ==
    /\ Invariant /\ [Next]_vars => Invariant'
    /\ Invariant /\ [PipelineNext]_allVars => Invariant'
<1>1. ASSUME Invariant, faults' \in 0..MaxFaults,
             UNCHANGED <<phase, done, flushed, session, results, status, answered,
                         connected, table>>
      PROVE  Invariant'
  <2>1. \A r \in Requests : Rows(r)' = Rows(r)
    BY <1>1 DEF Rows
  <2>2. \A r \in Requests : SoundRequest(r)'
    BY <1>1, <2>1, StaysSound DEF Invariant
  <2>3. TypeOK'
    BY <1>1 DEF Invariant, TypeOK
  <2> QED BY <2>2, <2>3 DEF Invariant
<1>2. Invariant /\ UNCHANGED vars => Invariant'
  BY <1>1 DEF vars, Invariant, TypeOK
<1>3. ASSUME Invariant, NEW r \in Requests, TimesOut(r)
      PROVE  Invariant'
  <2>1. faults' \in 0..MaxFaults
    BY <1>3, BuildAssumption DEF TimesOut, Fault, Invariant, TypeOK
  <2> QED BY <1>1, <1>3, <2>1 DEF TimesOut
<1> QED BY <1>2, <1>3, HandleKeeps DEF Next, PipelineNext, allVars

THEOREM InvariantHolds == (Spec => []Invariant) /\ (PipelineSpec => []Invariant)
<1>1. PipelineInit => Init
  BY DEF PipelineInit
<1> QED BY <1>1, InitInvariant, Preserved, PTL DEF Spec, PipelineSpec

-----------------------------------------------------------------------------
(* Theorems.                                                               *)

\* The loop over the events of a request stays within its body, and every
\* request is in a state that the endpoint has.
THEOREM IngestTypes == PipelineSpec => []TypeOK
<1>1. Invariant => TypeOK
  BY DEF Invariant
<1> QED BY <1>1, InvariantHolds, PTL

\* The rows of a request appear together or not at all, and none of those of
\* a request that had a failing flush or read-back.
THEOREM RequestsAreAtomic == PipelineSpec => []AllOrNothing
<1>1. Invariant => AllOrNothing
  BY DEF Invariant, SoundRequest, Transaction, AllOrNothing
<1> QED BY <1>1, InvariantHolds, PTL

\* Rows of a request that was answered with an error come from a commit that
\* succeeded without the backend hearing of it.
THEOREM ErrorsAreTrue == PipelineSpec => []ErrorsStoreNothing
<1>1. Invariant => ErrorsStoreNothing
  BY DEF Invariant, SoundRequest, Transaction, Answer, ErrorsStoreNothing
<1> QED BY <1>1, InvariantHolds, PTL

\* Where the commit comes before the response, a 201 tells the truth about
\* what is stored, but for transactions that the server had aborted.
THEOREM AcknowledgedIsDurable ==
    ASSUME CommitFirst
    PROVE  PipelineSpec => []AckedDurable
<1>1. Invariant => AckedDurable
  BY DEF Invariant, SoundRequest, Answer, AckedDurable
<1> QED BY <1>1, InvariantHolds, PTL


-----------------------------------------------------------------------------
(* Clients, network and backend deliver at least once: Pipeline implements *)
(* Delivery where the commit comes before the response.                    *)

\* Attempts that failed for their client: given up, or refused although
\* their rows are there.  Each has its own failure.
Paid == {r \in Requests : r \in timedOut \/ (status[r] = 500 /\ Rows(r) # {})}

\* Without a failure every event that the loop has gone through has a result.
Complete(r) ==
    /\ session[r] = "active"
    /\ \A i \in 1..done[r] : Body[r][i] \in results[r]

ClientInv ==
    /\ Invariant
    /\ timedOut \subseteq Requests
    /\ \A r \in Requests : phase[r] # "idle" => Posted(r)
    /\ Cardinality(Paid) <= faults
    /\ faults = 0 => \A r \in Requests : Complete(r)

\* What a step of the backend is to the clients: nothing that they could
\* know of, an error, a commit, a commit that fails, or an answer.
Silent(r) ==
    /\ UNCHANGED <<answered, table>>
    /\ faults' = faults \/ Fault
    /\ Rows(r) # {} => status' = status

Commits(r) ==
    /\ phase[r] = "commit"
    /\ UNCHANGED answered
    /\ table' = table \union ({r} \X flushed[r])
    /\ \/ faults' = faults /\ status' = status
       \/ Fault

Answers(r) ==
    /\ phase[r] = "respond"
    /\ answered' = [answered EXCEPT ![r] = status[r]]
    /\ UNCHANGED <<status, table, faults>>

LEMMA HandleEffect ==
    ASSUME Invariant, NEW r \in Requests, Handle(r)
    PROVE  Silent(r) \/ Commits(r) \/ Answers(r)
<1>1. Rows(r) # {} => ~Uncommitted(r)
  BY DEF Invariant, SoundRequest, Transaction
<1>2. CASE \/ Receive(r) \/ Price(r) \/ PriceFails(r) \/ FlushRow(r) \/ FlushFails(r)
           \/ FlushBroken(r) \/ Refresh(r) \/ RefreshFails(r) \/ Return(r)
  <2>1. Uncommitted(r)
    BY <1>2 DEF Uncommitted, Receive, Price, PriceFails, FlushRow, FlushFails,
                FlushBroken, Refresh, RefreshFails, Return
  <2>2. UNCHANGED <<answered, table>> /\ (faults' = faults \/ Fault)
    BY <1>2 DEF Receive, Price, PriceFails, FlushRow, FlushFails, FlushBroken,
                Refresh, RefreshFails, Return
  <2> QED BY <1>1, <2>1, <2>2 DEF Silent
<1>3. CASE Commit(r)
  BY <1>3 DEF Commit, Commits
<1>4. CASE CommitFails(r)
  <2>1. phase[r] = "commit" /\ UNCHANGED <<answered, flushed>>
    BY <1>4 DEF CommitFails
  <2>2. Rows(r) = {}
    BY <1>1, <2>1 DEF Uncommitted
  <2>3. CASE UNCHANGED <<table, faults>>
    BY <2>1, <2>2, <2>3 DEF Silent
  <2>4. CASE Fault /\ table' = table
    BY <2>1, <2>2, <2>4 DEF Silent
  <2>5. CASE Fault /\ table' = table \union ({r} \X flushed[r])
    BY <2>1, <2>5 DEF Commits
  <2> QED BY <1>4, <2>3, <2>4, <2>5 DEF CommitFails
<1>5. CASE Rollback(r) \/ Close(r)
  BY <1>5 DEF Rollback, Close, Silent
<1>6. CASE Respond(r)
  BY <1>6 DEF Respond, Answers
<1> QED BY <1>2, <1>3, <1>4, <1>5, <1>6 DEF Handle

\* What is known of a request that commits or is answered.
LEMMA RequestFacts ==
    ASSUME CommitFirst, Invariant, NEW r \in Requests
    PROVE  /\ phase[r] = "commit" => /\ answered[r] = 0 /\ Rows(r) = {}
                                     /\ status[r] = 201
           /\ phase[r] = "respond" => answered[r] = 0
           /\ flushed[r] \subseteq EventIds /\ flushed[r] \subseteq Carried(r)
           /\ Rows(r) \subseteq Carried(r)
           /\ answered[r] \in {0, 201, 400, 422, 500}
           /\ status[r] \in {0, 201, 400, 422, 500}
           /\ Rows(r) # {} => phase[r] # "idle" /\ status[r] \notin {400, 422}
           /\ answered[r] # 0 => phase[r] = "end" /\ status[r] = answered[r]
  BY DEF Invariant, TypeOK, SoundRequest, TypeOf, Transaction, Answer, Uncommitted

\* The clients of two attempts for the same event: one of the attempts has
\* failed before the other was posted.
LEMMA OneAfterTheOther ==
    ASSUME ClientInv, NEW p \in Requests, NEW r \in Requests, p # r,
           Carried(p) \cap Carried(r) # {},
           Posted(p) , Posted(r)
    PROVE  Failed(p) \/ Failed(r)
  BY ClientAssumption DEF Posted

\* An attempt that has failed for its client and has rows, or may yet have
\* some, is paid for.
LEMMA FailedIsPaid ==
    ASSUME CommitFirst, ClientInv, NEW r \in Requests, Failed(r),
           Rows(r) # {} \/ phase[r] = "commit"
    PROVE  r \in Paid
<1>1. CASE r \in timedOut
  BY <1>1 DEF Paid
<1>2. CASE answered[r] \in {400, 422, 500}
  BY <1>2, RequestFacts DEF Paid, ClientInv
<1> QED BY <1>1, <1>2 DEF Failed

LEMMA PaidFacts ==
    ASSUME ClientInv
    PROVE  /\ IsFiniteSet(Paid) /\ Cardinality(Paid) \in Nat
           /\ faults \in Nat /\ Cardinality(Paid) <= faults
<1>1. IsFiniteSet(Paid)
  BY ClientAssumption, FS_Subset DEF Paid
<1> QED BY <1>1, FS_CardinalityType, BuildAssumption
        DEF ClientInv, Invariant, TypeOK

\* The requests that have stored an event.
Storers(e) == {r \in Requests : e \in Rows(r)}

LEMMA StorersFacts ==
    ASSUME NEW e
    PROVE  IsFiniteSet(Storers(e)) /\ Cardinality(Storers(e)) \in Nat
<1>1. IsFiniteSet(Storers(e))
  BY ClientAssumption, FS_Subset DEF Storers
<1> QED BY <1>1, FS_CardinalityType

\* What a request is about to store has no more copies than failures.
LEMMA CommitIsPaid ==
    ASSUME CommitFirst, ClientInv, NEW r \in Requests, phase[r] = "commit",
           NEW e \in flushed[r]
    PROVE  Cardinality(Storers(e)) <= faults
<1> DEFINE T == Storers(e) \union {r}
<1>1. r \notin Storers(e) /\ \A q \in T : q \in Requests /\ e \in Carried(q)
  BY RequestFacts DEF Storers, ClientInv
<1>2. \A q \in T : Rows(q) # {} \/ phase[q] = "commit"
  BY DEF Storers
<1>3. \A q \in T : Posted(q)
  BY <1>1, <1>2, RequestFacts DEF ClientInv
<1>4. \A p, q \in T : p # q => p \in Paid \/ q \in Paid
  <2> TAKE p \in T, q \in T
  <2> HAVE p # q
  <2>1. Failed(p) \/ Failed(q)
    BY <1>1, <1>3, OneAfterTheOther
  <2> QED BY <1>1, <1>2, <2>1, FailedIsPaid
<1>5. \E q \in T : T \ {q} \subseteq Paid
  <2>1. CASE T \subseteq Paid
    BY <2>1
  <2>2. CASE \E q \in T : q \notin Paid
    BY <1>4, <2>2
  <2> QED BY <2>1, <2>2
<1>6. PICK q \in T : T \ {q} \subseteq Paid
  BY <1>5
<1>7. IsFiniteSet(T) /\ Cardinality(T) = Cardinality(Storers(e)) + 1
  BY <1>1, StorersFacts, FS_AddElement
<1>8. Cardinality(T \ {q}) = Cardinality(T) - 1
  BY <1>6, <1>7, FS_RemoveElement
<1>9. Cardinality(T \ {q}) <= Cardinality(Paid)
  BY <1>6, PaidFacts, FS_Subset
<1> QED BY <1>7, <1>8, <1>9, StorersFacts, PaidFacts

\* The rows of the others, and how those of a commit get there.
LEMMA RowsFrame ==
    ASSUME Invariant, NEW r \in Requests
    PROVE  /\ table' = table => \A q \in Requests : Rows(q)' = Rows(q)
           /\ Commits(r) => /\ Rows(r)' = Rows(r) \union flushed[r]
                            /\ \A q \in Requests \ {r} : Rows(q)' = Rows(q)
  BY DEF Rows, Commits, Invariant, TypeOK

\* What a client knows of an attempt it does not forget.
LEMMA KnowledgeStays ==
    ASSUME CommitFirst, ClientInv, NEW r \in Requests,
           TimesOut(r) \/ (Handle(r) /\ UNCHANGED timedOut)
    PROVE  \A q \in Requests : /\ Failed(q) => Failed(q)'
                               /\ Heard(q) => Heard(q)'
                               /\ Posted(q) => Posted(q)'
<1>1. /\ \A q \in Requests : answered[q] # 0 => answered'[q] = answered[q]
      /\ timedOut \subseteq timedOut'
      /\ \A q \in timedOut' \ timedOut : answered[q] = 0
  <2>1. CASE TimesOut(r)
    BY <2>1 DEF TimesOut
  <2>2. CASE Handle(r) /\ UNCHANGED timedOut
    <3>1. Silent(r) \/ Commits(r) \/ Answers(r)
      BY <2>2, HandleEffect DEF ClientInv
    <3>2. phase[r] = "respond" => answered[r] = 0
      BY RequestFacts DEF ClientInv
    <3>3. answered \in [Requests -> {0, 201, 400, 422, 500}]
      BY DEF ClientInv, Invariant, TypeOK
    <3> QED BY <2>2, <3>1, <3>2, <3>3 DEF Silent, Commits, Answers
  <2> QED BY <2>1, <2>2
<1>2. \A q \in Requests : /\ Failed(q) => Failed(q)'
                          /\ Heard(q) => Heard(q)'
  BY <1>1 DEF Failed, Heard
<1>3. \A q \in Requests : Earlier[q] \subseteq Requests
  BY EarlierAssumption
<1> QED BY <1>2, <1>3 DEF Posted, Carried

\* A failure pays for one more attempt.
LEMMA PaidStep ==
    ASSUME CommitFirst, ClientInv, NEW r \in Requests,
           TimesOut(r) \/ (Handle(r) /\ UNCHANGED timedOut)
    PROVE  Cardinality(Paid)' <= faults'
<1>1. (Paid' \subseteq Paid /\ (faults' = faults \/ Fault))
      \/ (Paid' \subseteq Paid \union {r} /\ Fault)
  <2>1. CASE TimesOut(r)
    <3>1. \A q \in Requests : Rows(q)' = Rows(q) /\ status'[q] = status[q]
      BY <2>1 DEF TimesOut, Rows
    <3> QED BY <2>1, <3>1 DEF TimesOut, Paid
  <2>2. CASE Handle(r) /\ UNCHANGED timedOut
    <3>1. Local(r)
      BY <2>2, HandleIsLocal DEF ClientInv, Invariant
    <3>2. \A q \in Requests \ {r} : status'[q] = status[q] /\ Rows(q)' = Rows(q)
      BY <3>1 DEF Local, Own, Rows
    <3>3. Paid' \subseteq Paid \union {r}
      BY <2>2, <3>2 DEF Paid
    <3>4. CASE Silent(r)
      <4>1. Rows(r)' = Rows(r) /\ (Rows(r) # {} => status'[r] = status[r])
        BY <3>4 DEF Silent, Rows
      <4>2. r \in Paid' => r \in Paid
        BY <2>2, <4>1 DEF Paid
      <4> QED BY <3>3, <3>4, <4>2 DEF Silent
    <3>5. CASE Commits(r)
      <4>1. CASE Fault
        BY <3>3, <4>1
      <4>2. CASE faults' = faults /\ status' = status
        <5>1. status'[r] = 201
          BY <3>5, <4>2, RequestFacts DEF Commits, ClientInv
        <5>2. r \in Paid' => r \in Paid
          BY <2>2, <5>1 DEF Paid
        <5> QED BY <3>3, <4>2, <5>2
      <4> QED BY <3>5, <4>1, <4>2 DEF Commits
    <3>6. CASE Answers(r)
      <4>1. Rows(r)' = Rows(r) /\ status'[r] = status[r]
        BY <3>6 DEF Answers, Rows
      <4>2. r \in Paid' => r \in Paid
        BY <2>2, <4>1 DEF Paid
      <4> QED BY <3>3, <3>6, <4>2 DEF Answers
    <3> QED BY <2>2, <3>4, <3>5, <3>6, HandleEffect DEF ClientInv
  <2> QED BY <2>1, <2>2
<1>2. /\ IsFiniteSet(Paid \union {r})
      /\ Cardinality(Paid \union {r}) <= Cardinality(Paid) + 1
      /\ Cardinality(Paid \union {r}) \in Nat
  <2>1. /\ IsFiniteSet(Paid \union {r})
        /\ Cardinality(Paid \union {r}) = IF r \in Paid THEN Cardinality(Paid)
                                          ELSE Cardinality(Paid) + 1
    BY PaidFacts, FS_AddElement
  <2>2. Cardinality(Paid) \in Nat
    BY PaidFacts
  <2> QED BY <2>1, <2>2
<1>3. IsFiniteSet(Paid') /\ Cardinality(Paid') \in Nat
  <2>1. Paid' \subseteq Requests
    BY DEF Paid
  <2>2. IsFiniteSet(Paid')
    BY <2>1, ClientAssumption, FS_Subset
  <2> QED BY <2>2, FS_CardinalityType
<1>4. CASE Paid' \subseteq Paid /\ (faults' = faults \/ Fault)
  <2>1. Cardinality(Paid') <= Cardinality(Paid)
    BY <1>4, PaidFacts, FS_Subset
  <2> QED BY <1>3, <1>4, <2>1, PaidFacts DEF Fault
<1>5. CASE Paid' \subseteq Paid \union {r} /\ Fault
  <2>1. Cardinality(Paid') <= Cardinality(Paid \union {r})
    BY <1>2, <1>5, FS_Subset
  <2> QED BY <1>2, <1>3, <1>5, <2>1, PaidFacts DEF Fault
<1> QED BY <1>1, <1>4, <1>5

\* Results are missing after a failure only.
LEMMA CompleteStep ==
    ASSUME ClientInv, NEW r \in Requests, Handle(r), faults' = 0
    PROVE  \A q \in Requests : Complete(q)'
<1>1. faults = 0 /\ ~Fault
  BY PaidFacts, BuildAssumption DEF Handle, Receive, Price, PriceFails, FlushRow,
     FlushFails, FlushBroken, Refresh, RefreshFails, Return, Commit, CommitFails,
     Rollback, Close, Respond, Fault
<1>2. \A q \in Requests : Complete(q)
  BY <1>1 DEF ClientInv
<1>3. Local(r)
  BY HandleIsLocal DEF ClientInv, Invariant
<1>4. \A q \in Requests \ {r} : Complete(q)'
  BY <1>2, <1>3 DEF Complete, Local, Own
<1>5. Complete(r)'
  <2>1. CASE UNCHANGED <<session, done, results>>
    BY <1>2, <2>1 DEF Complete
  <2>2. CASE Refresh(r)
    <3>1. /\ session'[r] = "active"
          /\ results'[r] = results[r] \union {Body[r][done[r] + 1]}
          /\ done'[r] = done[r] + 1 /\ done[r] \in Nat
          /\ \A i \in 1..done[r] : Body[r][i] \in results[r]
      BY <1>2, <2>2 DEF Refresh, Current, Complete, ClientInv, Invariant, TypeOK
    <3>2. \A i \in 1..done'[r] : i \in 1..done[r] \/ i = done[r] + 1
      BY <3>1
    <3> QED BY <3>1, <3>2 DEF Complete
  <2>3. ~PriceFails(r) /\ ~FlushFails(r) /\ ~FlushBroken(r) /\ ~RefreshFails(r)
    BY <1>1, <1>2 DEF PriceFails, FlushFails, FlushBroken, RefreshFails, Complete
  <2>4. Handle(r) => Refresh(r) \/ UNCHANGED <<session, done, results>>
    BY <2>3 DEF Handle, Receive, Price, FlushRow, Return, Commit, CommitFails,
       Rollback, Close, Respond
  <2> QED BY <2>1, <2>2, <2>4
<1> QED BY <1>4, <1>5

LEMMA ClientStep ==
    ASSUME CommitFirst, ClientInv, PipelineNext
    PROVE  ClientInv'
<1>1. PICK r \in Requests : /\ Posted(r)
                            /\ TimesOut(r) \/ (Handle(r) /\ UNCHANGED timedOut)
  BY DEF PipelineNext
<1>2. Invariant'
  BY Preserved DEF ClientInv
<1>3. timedOut' \subseteq Requests
  BY <1>1 DEF ClientInv, TimesOut
<1>4. \A q \in Requests : Posted(q) => Posted(q)'
  BY <1>1, KnowledgeStays
<1>5. \A q \in Requests \ {r} : phase'[q] = phase[q]
  <2>1. CASE TimesOut(r)
    BY <2>1 DEF TimesOut
  <2>2. CASE Handle(r)
    BY <2>2, HandleIsLocal DEF ClientInv, Invariant, Local, Own
  <2> QED BY <1>1, <2>1, <2>2
<1>6. \A q \in Requests : phase'[q] # "idle" => Posted(q)'
  BY <1>1, <1>4, <1>5 DEF ClientInv
<1>7. Cardinality(Paid)' <= faults'
  BY <1>1, PaidStep
<1>8. faults' = 0 => \A q \in Requests : Complete(q)'
  <2>1. CASE TimesOut(r)
    BY <2>1, PaidFacts DEF TimesOut, Fault
  <2>2. CASE Handle(r)
    BY <2>2, CompleteStep
  <2> QED BY <1>1, <2>1, <2>2
<1> QED BY <1>2, <1>3, <1>6, <1>7, <1>8 DEF ClientInv

LEMMA ClientStutter ==
    ASSUME ClientInv, UNCHANGED allVars
    PROVE  ClientInv'
<1>1. UNCHANGED <<phase, done, flushed, session, results, status, answered,
                  connected, table, faults, timedOut>>
  BY DEF allVars, vars
<1>2. Invariant'
  BY Preserved DEF ClientInv
<1>3. \A r \in Requests : /\ Posted(r)' <=> Posted(r)
                          /\ Complete(r)' <=> Complete(r)
  BY <1>1 DEF Posted, Failed, Heard, Complete, Carried
<1>4. Paid' = Paid
  BY <1>1 DEF Paid, Rows
<1> QED BY <1>1, <1>2, <1>3, <1>4 DEF ClientInv

LEMMA ClientInit ==
    ASSUME PipelineInit
    PROVE  ClientInv
<1>1. Invariant
  BY InitInvariant DEF PipelineInit
<1>2. Paid = {}
  BY DEF PipelineInit, Init, Paid, Rows
<1>3. Cardinality(Paid) = 0
  BY <1>2, FS_EmptySet
<1>4. \A r \in Requests : phase[r] = "idle" /\ Complete(r)
  BY DEF PipelineInit, Init, Complete
<1> QED BY <1>1, <1>3, <1>4 DEF ClientInv, PipelineInit, Init

\* ClientInv is an invariant of the pipeline.
LEMMA ClientInvariant ==
    ASSUME CommitFirst
    PROVE  PipelineSpec => []ClientInv
<1>1. PipelineInit => ClientInv
  BY ClientInit
<1>2. ClientInv /\ [PipelineNext]_allVars => ClientInv'
  BY ClientStep, ClientStutter
<1> QED BY <1>1, <1>2, PTL DEF PipelineSpec

-----------------------------------------------------------------------------
(* The refinement, step by step.                                           *)

\* The attempts with an event that its client heard a 201 for.
Told(e) == {r \in Requests : Heard(r) /\ e \in Carried(r)}

LEMMA DeliveredIs ==
    Delivered = [e \in EventIds |->
                    IF Told(e) = {} THEN "pending"
                    ELSE IF \E r \in Told(e) : e \in Rows(r) THEN "done" ELSE "out"]
  BY DEF Delivered, Told

\* While no client hears anything new, its events stay what they are.
LEMMA DeliveredStays ==
    ASSUME \A q \in Requests : /\ Heard(q)' <=> Heard(q)
                               /\ Heard(q) => Rows(q)' = Rows(q)
    PROVE  Delivered' = Delivered
<1>1. \A e \in EventIds : Told(e)' = Told(e)
  BY DEF Told, Carried
<1>2. \A e \in EventIds : \A q \in Told(e) : Rows(q)' = Rows(q)
  BY DEF Told
<1>3. \A e \in EventIds : (\E q \in Told(e)' : e \in Rows(q)')
                             <=> (\E q \in Told(e) : e \in Rows(q))
  BY <1>1, <1>2
<1>4. Delivered' = [e \in EventIds |->
                       IF Told(e)' = {} THEN "pending"
                       ELSE IF \E r \in Told(e)' : e \in Rows(r)' THEN "done" ELSE "out"]
  BY DEF Delivered, Told
<1> QED BY <1>1, <1>3, <1>4, DeliveredIs

LEMMA CopiesFacts ==
    /\ Copies = [e \in EventIds |-> Cardinality(Storers(e))]
    /\ \A e \in EventIds : Copies[e] \in Nat
    /\ table' = table => Copies' = Copies
<1>1. Copies = [e \in EventIds |-> Cardinality(Storers(e))]
  BY DEF Copies, Storers
<1>2. \A e \in EventIds : Copies[e] \in Nat
  BY <1>1, StorersFacts
<1>3. table' = table => Copies' = Copies
  BY DEF Copies, Rows
<1> QED BY <1>1, <1>2, <1>3

\* A commit adds one copy of each of its rows, each of them paid for.
LEMMA CommitStores ==
    ASSUME CommitFirst, ClientInv, NEW r \in Requests, Commits(r)
    PROVE  D!Stores(flushed[r])
<1>1. /\ phase[r] = "commit" /\ Rows(r) = {} /\ flushed[r] \subseteq EventIds
      /\ Rows(r)' = flushed[r] /\ \A q \in Requests \ {r} : Rows(q)' = Rows(q)
  <2>1. phase[r] = "commit" /\ Rows(r) = {} /\ flushed[r] \subseteq EventIds
    BY RequestFacts DEF Commits, ClientInv
  <2>2. /\ Rows(r)' = Rows(r) \union flushed[r]
        /\ \A q \in Requests \ {r} : Rows(q)' = Rows(q)
    BY RowsFrame DEF ClientInv
  <2> QED BY <2>1, <2>2
<1>2. \A e \in flushed[r] : Delivered[e] # "new"
  BY <1>1, DeliveredIs
<1>3. \A e \in flushed[r] : Copies[e] <= faults
  BY <1>1, CommitIsPaid, CopiesFacts
<1>4. \A e \in EventIds :
         Cardinality(Storers(e)') = Copies[e] + IF e \in flushed[r] THEN 1 ELSE 0
  <2> TAKE e \in EventIds
  <2>1. CASE e \in flushed[r]
    <3>1. Storers(e)' = Storers(e) \union {r} /\ r \notin Storers(e)
      BY <1>1, <2>1 DEF Storers
    <3>2. Cardinality(Storers(e) \union {r}) = Cardinality(Storers(e)) + 1
      BY <3>1, StorersFacts, FS_AddElement
    <3> QED BY <2>1, <3>1, <3>2, CopiesFacts
  <2>2. CASE e \notin flushed[r]
    <3>1. Storers(e)' = Storers(e)
      BY <1>1, <2>2 DEF Storers
    <3> QED BY <2>2, <3>1, CopiesFacts
  <2> QED BY <2>1, <2>2
<1>5. Copies' = [e \in EventIds |-> Cardinality(Storers(e)')]
  BY DEF Copies, Storers
<1> QED BY <1>2, <1>3, <1>4, <1>5 DEF D!Stores

\* A failure that stores the rows of B.
LEMMA FaultFails ==
    ASSUME NEW B \in SUBSET EventIds, Fault, D!Stores(B), Delivered' = Delivered
    PROVE  D!Next
<1>1. D!Becomes({}, "out") = Delivered
  BY DeliveredIs DEF D!Becomes
<1>2. D!Fail(B, {})
  BY <1>1 DEF D!Fail, Fault
<1> QED BY <1>2 DEF D!Next

LEMMA NothingStored ==
    ASSUME table' = table
    PROVE  D!Stores({})
<1>1. Copies' = Copies /\ \A e \in EventIds : Copies[e] + 0 = Copies[e]
  BY CopiesFacts
<1> QED BY <1>1, CopiesFacts DEF D!Stores

LEMMA SilentStep ==
    ASSUME ClientInv, NEW r \in Requests, Silent(r), UNCHANGED timedOut
    PROVE  D!Next \/ UNCHANGED D!vars
<1>1. Delivered' = Delivered
  <2>1. \A q \in Requests : /\ Heard(q)' <=> Heard(q)
                            /\ Rows(q)' = Rows(q)
    BY DEF Silent, Heard, Rows
  <2> QED BY <2>1, DeliveredStays
<1>2. CASE faults' = faults
  BY <1>1, <1>2, CopiesFacts DEF Silent, D!vars
<1>3. CASE Fault
  BY <1>1, <1>3, NothingStored, FaultFails DEF Silent
<1> QED BY <1>2, <1>3 DEF Silent

LEMMA CommitStep ==
    ASSUME CommitFirst, ClientInv, NEW r \in Requests, Commits(r), UNCHANGED timedOut
    PROVE  D!Next
<1>1. Delivered' = Delivered
  <2>1. ~Heard(r) /\ \A q \in Requests : Heard(q)' <=> Heard(q)
    BY RequestFacts DEF Commits, Heard, ClientInv
  <2>2. \A q \in Requests \ {r} : Rows(q)' = Rows(q)
    BY RowsFrame DEF ClientInv
  <2> QED BY <2>1, <2>2, DeliveredStays
<1>2. D!Stores(flushed[r]) /\ flushed[r] \in SUBSET EventIds
  BY CommitStores, RequestFacts DEF ClientInv
<1>3. CASE faults' = faults
  BY <1>1, <1>2, <1>3 DEF D!Store, D!Next
<1>4. CASE Fault
  BY <1>1, <1>2, <1>4, FaultFails
<1> QED BY <1>3, <1>4 DEF Commits

LEMMA TimeoutStep ==
    ASSUME ClientInv, NEW r \in Requests, TimesOut(r)
    PROVE  D!Next
<1>1. \A q \in Requests : /\ Heard(q)' <=> Heard(q)
                          /\ Rows(q)' = Rows(q)
  BY DEF TimesOut, Heard, Rows
<1>2. Delivered' = Delivered
  BY <1>1, DeliveredStays
<1> QED BY <1>2, NothingStored, FaultFails DEF TimesOut

\* An answer that is no 201, or that nobody waits for, tells the client
\* nothing of the fate of its events; a 201 settles them.
LEMMA AnswerStep ==
    ASSUME CommitFirst, ClientInv, NEW r \in Requests, Posted(r), Answers(r),
           UNCHANGED timedOut
    PROVE  D!Next \/ UNCHANGED D!vars
<1>1. /\ answered[r] = 0 /\ answered'[r] = status[r]
      /\ \A q \in Requests \ {r} : answered'[q] = answered[q]
      /\ \A q \in Requests : Rows(q)' = Rows(q)
  BY RequestFacts DEF Answers, Rows, ClientInv, Invariant, TypeOK
<1>2. \A q \in Requests \ {r} : Heard(q)' <=> Heard(q)
  BY <1>1 DEF Heard
<1>3. ~Heard(r)
  BY <1>1 DEF Heard
<1>4. CASE ~Heard(r)'
  <2>1. Delivered' = Delivered
    BY <1>1, <1>2, <1>3, <1>4, DeliveredStays
  <2> QED BY <2>1, CopiesFacts DEF Answers, D!vars
<1>5. CASE Heard(r)'
  <2> DEFINE B == Rows(r)
             C == Carried(r) \ Rows(r)
  <2>1. /\ status[r] = 201 /\ r \notin timedOut /\ ~Failed(r)
        /\ Rows(r) \subseteq Carried(r) /\ Carried(r) \subseteq EventIds
    <3>1. status[r] = 201 /\ r \notin timedOut
      BY <1>1, <1>5 DEF Heard
    <3>2. Body[r] \in Seq(EventIds)
      BY RequestAssumption
    <3> QED BY <1>1, <3>1, <3>2, RequestFacts DEF Failed, Carried, ToSet, ClientInv
  <2>2. \A e \in Carried(r) : Told(e) = {} /\ Told(e)' = {r}
    <3> TAKE e \in Carried(r)
    <3>1. ASSUME NEW q \in Told(e)
          PROVE  FALSE
      <4>1. q \in Requests /\ q # r /\ Heard(q) /\ e \in Carried(q)
        BY <1>3, <3>1 DEF Told
      <4>2. Posted(q) /\ ~Failed(q)
        BY <4>1, RequestFacts DEF Heard, Failed, ClientInv
      <4> QED BY <2>1, <4>1, <4>2, OneAfterTheOther
    <3>2. Told(e)' = {r}
      BY <1>2, <1>5, <3>1 DEF Told, Carried
    <3> QED BY <3>1, <3>2
  <2>3. \A e \in EventIds \ Carried(r) : Told(e)' = Told(e)
    BY <1>2, <1>3 DEF Told, Carried
  <2>4. Delivered' = [e \in EventIds |->
                         IF Told(e)' = {} THEN "pending"
                         ELSE IF \E q \in Told(e)' : e \in Rows(q)' THEN "done"
                         ELSE "out"]
    BY DEF Delivered, Told
  <2>5. \A e \in EventIds :
           Delivered'[e] = IF e \in B THEN "done"
                           ELSE IF e \in C THEN "out" ELSE Delivered[e]
    <3> TAKE e \in EventIds
    <3>1. CASE e \in Carried(r)
      BY <1>1, <2>2, <2>4, <3>1
    <3>2. CASE e \notin Carried(r)
      <4>1. Told(e)' = Told(e) /\ \A q \in Told(e) : Rows(q)' = Rows(q)
        BY <1>1, <2>3, <3>2 DEF Told
      <4> QED BY <2>1, <2>4, <3>2, <4>1, DeliveredIs
    <3> QED BY <3>1, <3>2
  <2>6. B \in SUBSET EventIds /\ C \in SUBSET EventIds
        /\ B \union C \subseteq D!With("pending")
    BY <2>1, <2>2, DeliveredIs DEF D!With
  <2>7. C = {} \/ faults > 0
    <3>1. CASE faults = 0
      <4>1. session[r] = "active" /\ \A i \in 1..done[r] : Body[r][i] \in results[r]
        BY <3>1 DEF ClientInv, Complete
      <4>2. done[r] = Len(Body[r]) /\ Rows(r) = results[r]
        BY <2>1, <4>1 DEF ClientInv, Invariant, SoundRequest, Answer, Answers
      <4>3. Body[r] \in Seq(EventIds)
        BY RequestAssumption
      <4> QED BY <4>1, <4>2, <4>3 DEF Carried, ToSet
    <3>2. CASE faults # 0
      BY <3>2, PaidFacts
    <3> QED BY <3>1, <3>2
  <2>8. \A e \in B : Copies'[e] >= 1
    <3> TAKE e \in B
    <3>1. r \in Storers(e) /\ Cardinality(Storers(e)) # 0
      <4>1. r \in Storers(e)
        BY DEF Storers
      <4> QED BY <4>1, StorersFacts, FS_EmptySet
    <3>2. Copies' = Copies
      BY CopiesFacts DEF Answers
    <3> QED BY <2>6, <3>1, <3>2, StorersFacts, CopiesFacts
  <2>9. D!Stores({})
    BY NothingStored DEF Answers
  <2> HIDE DEF B, C
  <2>10. Delivered' = [e \in EventIds |-> IF e \in C THEN "out"
                                          ELSE D!Becomes(B, "done")[e]]
    <3>1. \A e \in EventIds : ~(e \in B /\ e \in C)
      BY DEF B, C
    <3>2. DOMAIN Delivered' = EventIds /\ Delivered' = [e \in EventIds |-> Delivered'[e]]
      BY <2>4
    <3> QED BY <2>5, <3>1, <3>2 DEF D!Becomes
  <2>11. D!Settle(B, C)
    BY <2>6, <2>7, <2>8, <2>9, <2>10 DEF D!Settle, Answers
  <2> QED BY <2>6, <2>11 DEF D!Next
<1> QED BY <1>4, <1>5

LEMMA DeliversStep ==
    ASSUME CommitFirst, ClientInv, [PipelineNext]_allVars
    PROVE  [D!Next]_(D!vars)
<1>1. CASE UNCHANGED allVars
  <2>1. UNCHANGED <<table, faults, answered, timedOut>>
    BY <1>1 DEF allVars, vars
  <2>2. \A q \in Requests : (Heard(q)' <=> Heard(q)) /\ Rows(q)' = Rows(q)
    BY <2>1 DEF Heard, Rows
  <2>3. Delivered' = Delivered
    BY <2>2, DeliveredStays
  <2> QED BY <2>1, <2>3, CopiesFacts DEF D!vars
<1>2. CASE PipelineNext
  <2>1. PICK r \in Requests : /\ Posted(r)
                              /\ TimesOut(r) \/ (Handle(r) /\ UNCHANGED timedOut)
    BY <1>2 DEF PipelineNext
  <2>2. CASE TimesOut(r)
    BY <2>2, TimeoutStep
  <2>3. CASE Handle(r) /\ UNCHANGED timedOut
    <3>1. Silent(r) \/ Commits(r) \/ Answers(r)
      BY <2>3, HandleEffect DEF ClientInv
    <3> QED BY <2>1, <2>3, <3>1, SilentStep, CommitStep, AnswerStep
  <2> QED BY <2>1, <2>2, <2>3
<1> QED BY <1>1, <1>2

LEMMA DeliversInit ==
    ASSUME PipelineInit
    PROVE  D!Init
<1>1. \A r \in Requests : ~Heard(r) /\ Rows(r) = {}
  BY DEF PipelineInit, Init, Heard, Rows
<1>2. Delivered \in [EventIds -> {"new", "pending"}]
  BY <1>1, DeliveredIs DEF Told
<1>3. \A e \in EventIds : Storers(e) = {}
  BY <1>1 DEF Storers
<1>4. Copies = [e \in EventIds |-> 0]
  BY <1>3, CopiesFacts, FS_EmptySet
<1> QED BY <1>2, <1>4 DEF D!Init, PipelineInit, Init

\* Clients, network and backend together deliver at least once, where the
\* commit comes before the response: for any clients, batches, attempts,
\* pool and number of failures.
THEOREM PipelineDelivers ==
    ASSUME CommitFirst
    PROVE  PipelineSpec => Delivers
<1>1. PipelineInit => D!Init
  BY DeliversInit
<1>2. ClientInv /\ [PipelineNext]_allVars => [D!Next]_(D!vars)
  BY DeliversStep
<1> QED BY <1>1, <1>2, ClientInvariant, PTL DEF PipelineSpec, Delivers, D!Spec

\* What Delivery implies: the states that every step of it leads to again.
DeliveryInv ==
    /\ Delivered \in [EventIds -> {"new", "pending", "done", "out"}]
    /\ Copies \in [EventIds -> Nat] /\ faults \in Nat
    /\ D!CopiesPaidFor /\ D!DoneIsStored

LEMMA DeliveryInit == D!Init => DeliveryInv
  BY DEF D!Init, DeliveryInv, D!CopiesPaidFor, D!DoneIsStored

LEMMA DeliveryStep == DeliveryInv /\ [D!Next]_(D!vars) => DeliveryInv'
<1> SUFFICES ASSUME DeliveryInv, [D!Next]_(D!vars)
             PROVE  DeliveryInv'
  OBVIOUS
<1> USE DEF DeliveryInv, D!CopiesPaidFor, D!DoneIsStored, D!With, D!Becomes
<1>1. ASSUME NEW e \in EventIds, D!Accept(e)
      PROVE  DeliveryInv'
  BY <1>1 DEF D!Accept
<1>2. ASSUME NEW B \in SUBSET EventIds, D!Store(B)
      PROVE  DeliveryInv'
  BY <1>2 DEF D!Store, D!Stores
<1>3. ASSUME NEW B \in SUBSET EventIds, NEW C \in SUBSET EventIds, D!Settle(B, C)
      PROVE  DeliveryInv'
  BY <1>3 DEF D!Settle, D!Stores
<1>4. ASSUME NEW B \in SUBSET EventIds, NEW C \in SUBSET EventIds, D!Fail(B, C)
      PROVE  DeliveryInv'
  BY <1>4 DEF D!Fail, D!Stores
<1>5. CASE D!Close
  BY <1>5 DEF D!Close
<1>6. CASE UNCHANGED D!vars
  BY <1>6 DEF D!vars
<1> QED BY <1>1, <1>2, <1>3, <1>4, <1>5, <1>6 DEF D!Next

\* Hence no event is stored more often than there were failures, plus one,
\* and one whose client was told that it is stored is.
THEOREM PipelineCopies ==
    ASSUME CommitFirst
    PROVE  PipelineSpec => [](D!CopiesPaidFor /\ D!DoneIsStored)
<1>1. DeliveryInv => D!CopiesPaidFor /\ D!DoneIsStored
  BY DEF DeliveryInv
<1> QED BY <1>1, DeliveryInit, DeliveryStep, PipelineDelivers, PTL DEF Delivers, D!Spec
=============================================================================
