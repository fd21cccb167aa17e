----------------------------- MODULE SdkProofs -----------------------------
(***************************************************************************)
(* What an SDK puts into an event: the counts that a wrapper records of a  *)
(* call (StreamWrapper), for counts of any size, streams of any length and *)
(* however often the application asks again after their end; and the host  *)
(* it comes from (HostMetadata), for any number of threads or clients that *)
(* detect it at the same time, of events and of lost probes.               *)
(***************************************************************************)
EXTENDS StreamWrapper, HostMetadata, FiniteSetTheorems, TLAPS

-----------------------------------------------------------------------------
(* What is recorded of a call.                                             *)

Running == {"unsent", "open"}

\* The wrapper has the counts that the provider sent last where it looks, or
\* a null among them; those of Bedrock come with the message that ends the
\* stream.
CountsInv ==
    /\ ~hidden => tokens = reported \/ tokens \notin Counts
    /\ wrapper \in Bedrock /\ stage = "streaming" /\ source \in Running =>
          tokens = Zero /\ (~hidden => reported = Zero)

\* Nothing is recorded of a stream while the provider may still send, nor
\* by a generator that has not finished.
RecordsInv ==
    /\ stage \in {"new", "created"} => records = <<>>
    /\ stage = "streaming" /\ (source \in Running \/ wrapper \in Generators) => records = <<>>
    /\ ~hidden => \A i \in 1..Len(records) : records[i] = reported

\* Before there is an answer there are no counts.
StageInv ==
    stage \in {"new", "created"} =>
        source \in Running /\ tokens = Zero /\ reported = Zero /\ ~hidden

CallInv == TypeOK /\ CountsInv /\ RecordsInv /\ StageInv

-----------------------------------------------------------------------------

LEMMA Wrappers == \A w \in Iterators : w \notin Generators
  BY DEF Iterators, Generators

\* What the wrappers make of a null count: zero, or no counts at all.
LEMMA ReadCounts ==
    /\ Zero \in Counts /\ Zero \in SentCounts
    /\ \A n \in SentCounts : /\ OrZero(n) \in Counts
                             /\ Read(n) \in SentCounts
                             /\ Read(n) = OrZero(n) \/ Read(n) \notin Counts
<1>1. Zero \in Counts /\ Zero \in SentCounts
  BY BoundAssumption DEF Zero, Counts, SentCounts, Null
<1>2. ASSUME NEW n \in SentCounts
      PROVE  /\ OrZero(n) \in Counts /\ OrZero(n) \in SentCounts
             /\ n = OrZero(n) \/ n \notin Counts
  <2>1. /\ n.prompt \in Null..MaxUsage /\ n.completion \in Null..MaxUsage
        /\ n = [prompt |-> n.prompt, completion |-> n.completion]
    BY <1>2 DEF SentCounts
  <2>2. OrZero(n) \in Counts /\ OrZero(n) \in SentCounts
    BY <2>1, BoundAssumption DEF OrZero, Counts, SentCounts, Null
  <2>3. n \in Counts => n.prompt # Null /\ n.completion # Null
    BY BoundAssumption DEF Counts, Null
  <2>4. n \in Counts => n = OrZero(n)
    BY <2>1, <2>3 DEF OrZero
  <2> QED BY <2>2, <2>4
<1>3. ASSUME NEW n \in SentCounts
      PROVE  Read(n) \in SentCounts /\ (Read(n) = OrZero(n) \/ Read(n) \notin Counts)
  BY <1>2 DEF Read
<1> QED BY <1>1, <1>2, <1>3

\* An answer, or a chunk that a wrapper looks at: the counts that the wrapper
\* takes from it are those that the provider has told last.
LEMMA ToldStep ==
    ASSUME NEW u \in Usage, NEW looks \in BOOLEAN, Told(u, looks),
           reported \in Counts, hidden \in BOOLEAN
    PROVE  /\ reported' \in Counts /\ hidden' \in BOOLEAN
           /\ UsageOrZero(u) \in SentCounts
           /\ u.form = "counts" =>
                 /\ UsageOrZero(u) = Read(u.counts) /\ Read(u.counts) \in SentCounts
                 /\ Read(u.counts) = reported' \/ Read(u.counts) \notin Counts
                 /\ hidden' = ~looks
           /\ u.form # "counts" =>
                 UsageOrZero(u) = Zero /\ reported' = reported /\ hidden' = hidden
<1>1. u.form = "counts" => u.counts \in SentCounts
  BY DEF Usage
<1> QED BY <1>1, ReadCounts DEF Told, UsageOrZero

\* What record() leaves behind.
LEMMA RecordedStep ==
    ASSUME TypeOK, NEW n, NEW returns \in BOOLEAN, Recorded(n, returns)
    PROVE  /\ records' \in Seq(Counts) /\ thrown' \in BOOLEAN
           /\ Len(records) \in Nat /\ Len(records') <= Len(records) + 1
           /\ \A i \in 1..Len(records') :
                 \/ i \in 1..Len(records) /\ records'[i] = records[i]
                 \/ n \in Counts /\ records'[i] = n
<1>1. records \in Seq(Counts) /\ thrown \in BOOLEAN
  BY DEF TypeOK
<1>2. thrown' \in BOOLEAN
  BY <1>1 DEF Recorded
<1>3. CASE n \in Counts
  <2>1. records' = Append(records, n)
    BY <1>3 DEF Recorded
  <2>2. /\ records' \in Seq(Counts) /\ Len(records') = Len(records) + 1
        /\ records'[Len(records) + 1] = n
        /\ \A i \in 1..Len(records) : records'[i] = records[i]
    BY ONLY <1>1, <1>3, <2>1
  <2>3. Len(records) \in Nat
    BY <1>1
  <2> QED BY ONLY <1>2, <1>3, <2>2, <2>3
<1>4. CASE n \notin Counts
  <2>1. records' = records
    BY <1>4 DEF Recorded
  <2>2. Len(records) \in Nat
    BY <1>1
  <2> QED BY ONLY <1>1, <1>2, <2>1, <2>2
<1> QED BY <1>3, <1>4

\* A call that was answered, or whose stream is handed out untracked.
LEMMA AnsweredStep ==
    ASSUME CallInv, stage \in {"new", "created"},
           NEW n \in SentCounts, NEW returns \in BOOLEAN, Recorded(n, returns),
           stage' \in {"untracked", "finished"}, source' \in {"open", "ended"},
           tokens' = n, reported' \in Counts, hidden' \in BOOLEAN,
           ~hidden' => n = reported' \/ n \notin Counts,
           UNCHANGED <<call, chunks>>
    PROVE  CallInv'
<1>1. records = <<>> /\ Len(records) = 0
  BY DEF CallInv, RecordsInv
<1>2. /\ records' \in Seq(Counts) /\ thrown' \in BOOLEAN /\ Len(records') <= 1
      /\ \A i \in 1..Len(records') : n \in Counts /\ records'[i] = n
  BY <1>1, RecordedStep DEF CallInv
<1>3. TypeOK'
  BY <1>2, BoundAssumption DEF CallInv, TypeOK, call
<1>4. CountsInv' /\ StageInv'
  BY DEF CountsInv, StageInv
<1>5. RecordsInv'
  BY <1>2 DEF RecordsInv
<1> QED BY <1>3, <1>4, <1>5 DEF CallInv

\* A step after which the provider, or the application, has what it had.
LEMMA QuietStep ==
    ASSUME CallInv, UNCHANGED <<call, counting, records>>,
           stage' \in {"created", "streaming", "untracked", "finished"},
           source' \in {"unsent", "open", "ended", "failed"},
           thrown' \in BOOLEAN, chunks' \in 0..MaxChunks,
           stage' \in {"created", "streaming"} =>
               stage \in {"new", stage'} /\ (source' \in Running => source \in Running),
           stage' = "created" => source' \in Running
    PROVE  CallInv'
<1>1. TypeOK'
  BY DEF CallInv, TypeOK, call, counting
<1>2. CountsInv'
  BY DEF CallInv, CountsInv, StageInv, call, counting
<1>3. RecordsInv' /\ StageInv'
  BY DEF CallInv, RecordsInv, StageInv, call, counting
<1> QED BY <1>1, <1>2, <1>3 DEF CallInv

LEMMA PlainStep ==
    ASSUME CallInv,
           \/ InvokeModel \/ ChatCompletion \/ LegacyCompletion \/ Embeddings
           \/ GenerateContent \/ SendMessage \/ GenerateContentAsync
           \/ GenerateStreamAsync
    PROVE  CallInv'
<1>1. ParsedUsage \subseteq Usage
  BY DEF ParsedUsage
<1>2. /\ stage \in {"new", "created"}
      /\ reported = Zero /\ ~hidden /\ reported \in Counts /\ hidden \in BOOLEAN
  BY DEF CallInv, TypeOK, StageInv, InvokeModel, ChatCompletion, LegacyCompletion,
         Embeddings, GenerateContent, SendMessage, GenerateContentAsync,
         GenerateStreamAsync
<1>3. ASSUME NEW u \in Usage, NEW looks \in BOOLEAN, Told(u, looks),
             NEW n \in SentCounts, Answered(n),
             looks => n = UsageOrZero(u),
             u.form # "counts" => n = Zero
      PROVE  CallInv'
  <2>1. /\ reported' \in Counts /\ hidden' \in BOOLEAN
        /\ ~hidden' => n = reported' \/ n \notin Counts
    BY <1>2, <1>3, ToldStep
  <2>2. PICK returns \in BOOLEAN : Recorded(n, returns)
    BY <1>3 DEF Answered
  <2> QED BY <1>2, <1>3, <2>1, <2>2, AnsweredStep DEF Answered
<1>4. ASSUME NEW u \in ParsedUsage, Told(u, TRUE), Answered(UsageOrZero(u))
      PROVE  CallInv'
  <2>1. u \in Usage /\ UsageOrZero(u) \in SentCounts
    BY <1>1, <1>2, <1>4, ToldStep
  <2>2. u.form # "counts" => UsageOrZero(u) = Zero
    BY DEF UsageOrZero
  <2> QED BY <1>3, <1>4, <2>1, <2>2
<1>5. CASE InvokeModel
  <2>1. PICK family \in Families, u \in Usage :
            /\ Told(u, family # "other")
            /\ IF ExtractRaises(family, u)
               THEN AnswerLost
               ELSE Answered(ExtractTokens(family, u))
    BY <1>5 DEF InvokeModel
  <2>2. CASE ExtractRaises(family, u)
    <3>1. u.form # "counts"
      BY <2>2 DEF ExtractRaises
    <3>2. UNCHANGED <<reported, hidden>>
      BY <2>1, <3>1 DEF Told
    <3>3. /\ stage' = "finished" /\ source' = "ended" /\ thrown' = TRUE
          /\ UNCHANGED <<call, counting, records, chunks>>
      BY <2>1, <2>2, <3>2 DEF AnswerLost, Raise, counting
    <3> QED BY <3>3, QuietStep DEF CallInv, TypeOK
  <2>3. CASE ~ExtractRaises(family, u)
    <3>1. Answered(ExtractTokens(family, u))
      BY <2>1, <2>3
    <3>2. /\ ExtractTokens(family, u) \in SentCounts
          /\ family # "other" => ExtractTokens(family, u) = UsageOrZero(u)
          /\ u.form # "counts" => ExtractTokens(family, u) = Zero
      BY <1>2, <2>1, ToldStep, ReadCounts DEF ExtractTokens
    <3> QED BY <1>3, <2>1, <3>1, <3>2
  <2> QED BY <2>2, <2>3
<1>6. CASE ChatCompletion \/ LegacyCompletion \/ GenerateContent \/ SendMessage
           \/ GenerateContentAsync
  BY <1>4, <1>6 DEF ChatCompletion, LegacyCompletion, GenerateContent, SendMessage,
                    GenerateContentAsync
<1>7. CASE Embeddings
  <2>1. PICK u \in ParsedUsage :
            /\ u.counts.completion = 0
            /\ Told(u, TRUE)
            /\ Answered([prompt |-> UsageOrZero(u).prompt, completion |-> 0])
    BY <1>7 DEF Embeddings
  <2>2. UsageOrZero(u) \in SentCounts
    BY <1>1, <1>2, <2>1, ToldStep
  <2>3. UsageOrZero(u).completion = 0
    BY <2>1 DEF UsageOrZero, Read, OrZero, Null, Zero
  <2>4. [prompt |-> UsageOrZero(u).prompt, completion |-> 0] = UsageOrZero(u)
    BY <2>2, <2>3 DEF SentCounts
  <2> QED BY <1>4, <2>1, <2>4
<1>8. CASE GenerateStreamAsync
  <2>1. PICK u \in ParsedUsage, returns \in BOOLEAN :
            /\ Told(u, TRUE)
            /\ tokens' = UsageOrZero(u)
            /\ Recorded(UsageOrZero(u), returns)
            /\ stage' = IF returns THEN "untracked" ELSE "finished"
    BY <1>8 DEF GenerateStreamAsync
  <2>2. source' = "open" /\ UNCHANGED <<call, chunks>>
    BY <1>8 DEF GenerateStreamAsync
  <2>3. /\ reported' \in Counts /\ hidden' \in BOOLEAN /\ UsageOrZero(u) \in SentCounts
        /\ ~hidden' => UsageOrZero(u) = reported' \/ UsageOrZero(u) \notin Counts
    BY <1>1, <1>2, <2>1, ToldStep
  <2> QED BY <1>2, <2>1, <2>2, <2>3, AnsweredStep
<1> QED BY <1>5, <1>6, <1>7, <1>8

\* Steps that take no counts and record nothing.
LEMMA OtherStep ==
    ASSUME CallInv,
           \/ LegacyStream \/ CreateCoroutine \/ Await \/ CancelAwait \/ CallFails
           \/ StartIterator \/ StartGenerator \/ SendRequest
           \/ NextRaises \/ NextThrows \/ SourceEnds \/ Leave
    PROVE  CallInv'
<1>1. chunks \in 0..MaxChunks /\ thrown \in BOOLEAN
      /\ source \in {"unsent", "open", "ended", "failed"}
      /\ (stage \in {"new", "created"} => source \in Running)
  BY DEF CallInv, TypeOK, StageInv
<1>2. CASE LegacyStream \/ CreateCoroutine \/ Await \/ CancelAwait \/ CallFails
  BY <1>1, <1>2, QuietStep
     DEF LegacyStream, CreateCoroutine, Await, CancelAwait, CallFails, Raise, Running
<1>3. CASE StartIterator
  BY <1>1, <1>3, QuietStep DEF StartIterator, Raise
<1>4. CASE StartGenerator \/ SendRequest \/ SourceEnds \/ Leave
  BY <1>1, <1>4, QuietStep
     DEF StartGenerator, SendRequest, SourceEnds, Leave, Running
<1>5. CASE NextRaises
  <2>1. chunks' \in 0..MaxChunks
    BY <1>1, <1>5, BoundAssumption DEF NextRaises
  <2>2. source' \in {"open", "ended", "failed"}
    BY <1>5 DEF NextRaises
  <2>3. /\ stage = "streaming" /\ stage' = "streaming" /\ source \in Running
        /\ thrown' = TRUE /\ UNCHANGED <<call, counting, records>>
    BY <1>5 DEF NextRaises, Raise, Running
  <2> QED BY <2>1, <2>2, <2>3, QuietStep
<1>6. CASE NextThrows
  BY <1>1, <1>6, QuietStep DEF NextThrows, Raise
<1> QED BY <1>2, <1>3, <1>4, <1>5, <1>6

\* A chunk may bring new counts, which the wrapper takes, and only while
\* nothing has been recorded.
LEMMA ChunkStep == CallInv /\ NextChunk => CallInv'
<1> SUFFICES ASSUME CallInv, NextChunk PROVE CallInv'
  OBVIOUS
<1>1. PICK c \in Chunk :
          /\ Sent(c) /\ ~ChunkRaises(c)
          /\ tokens' = Counted(tokens, c)
          /\ Told(c.usage, wrapper \notin Bedrock \/ c.stop)
          /\ source' = IF c.stop THEN "ended" ELSE source
  BY DEF NextChunk
<1>2. /\ stage = "streaming" /\ source = "open" /\ chunks' = chunks + 1 /\ chunks < MaxChunks
      /\ UNCHANGED <<call, stage, records, thrown>>
  BY DEF NextChunk
<1>3. c.usage \in Usage /\ c.stop \in BOOLEAN
  BY DEF Chunk
<1>4. records = <<>> /\ tokens \in SentCounts /\ reported \in Counts /\ hidden \in BOOLEAN
  BY <1>2 DEF CallInv, TypeOK, RecordsInv, Running
<1> DEFINE u == c.usage
<1>5. /\ reported' \in Counts /\ hidden' \in BOOLEAN /\ UsageOrZero(u) \in SentCounts
      /\ u.form = "counts" =>
            /\ UsageOrZero(u) = Read(u.counts) /\ Read(u.counts) \in SentCounts
            /\ Read(u.counts) = reported' \/ Read(u.counts) \notin Counts
            /\ hidden' = ~(wrapper \notin Bedrock \/ c.stop)
      /\ u.form # "counts" =>
            UsageOrZero(u) = Zero /\ reported' = reported /\ hidden' = hidden
  <2>1. (wrapper \notin Bedrock \/ c.stop) \in BOOLEAN
    OBVIOUS
  <2> QED BY <1>1, <1>3, <1>4, <2>1, ToldStep
<1>6. CASE wrapper \in Bedrock
  <2>1. tokens' = BedrockCount(tokens, c)
    <3>1. wrapper \notin Azure /\ wrapper \notin Gemini
      BY <1>6 DEF Bedrock, Azure, Gemini
    <3> QED BY <1>1, <1>6, <3>1 DEF Counted
  <2>2. tokens = Zero /\ (~hidden => reported = Zero)
    BY <1>2, <1>6 DEF CallInv, CountsInv, Running
  <2>3. /\ tokens' \in SentCounts
        /\ ~hidden' => tokens' = reported' \/ tokens' \notin Counts
        /\ source' \in Running => tokens' = Zero /\ (~hidden' => reported' = Zero)
    <3>1. source' \in Running => ~c.stop
      BY <1>1 DEF Running
    <3>2. CASE c.stop /\ u.form = "counts"
      BY <1>5, <2>1, <3>1, <3>2 DEF BedrockCount
    <3>3. CASE c.stop /\ u.form # "counts"
      BY <1>4, <1>5, <2>1, <2>2, <3>1, <3>3 DEF BedrockCount
    <3>4. CASE ~c.stop
      BY <1>4, <1>5, <1>6, <2>1, <2>2, <3>4 DEF BedrockCount
    <3> QED BY <1>3, <3>2, <3>3, <3>4
  <2> HIDE DEF u
  <2> QED BY <1>1, <1>2, <1>4, <1>5, <2>3, BoundAssumption
          DEF CallInv, TypeOK, CountsInv, RecordsInv, StageInv, call
<1>7. CASE wrapper \notin Bedrock
  <2>1. tokens' = AzureCount(tokens, c) \/ tokens' = GeminiCount(tokens, c)
    <3>1. wrapper \in Azure \/ wrapper \in Gemini
      BY <1>7 DEF CallInv, TypeOK, Iterators, Generators, Bedrock, Azure, Gemini
    <3> QED BY <1>1, <1>7, <3>1 DEF Counted, Azure, Gemini, Bedrock
  <2>2. ~hidden => tokens = reported \/ tokens \notin Counts
    BY DEF CallInv, CountsInv
  <2>3. tokens' \in SentCounts /\ (~hidden' => tokens' = reported' \/ tokens' \notin Counts)
    BY <1>4, <1>5, <2>1, <2>2 DEF AzureCount, GeminiCount
  <2> HIDE DEF u
  <2> QED BY <1>1, <1>2, <1>4, <1>5, <1>7, <2>3, BoundAssumption
          DEF CallInv, TypeOK, CountsInv, RecordsInv, StageInv, call
<1> QED BY <1>6, <1>7

\* The end of a stream is recorded.
LEMMA EndStep ==
    ASSUME CallInv, IteratorEnd \/ GeneratorEnd
    PROVE  CallInv'
<1>1. /\ stage = "streaming" /\ source \in {"ended", "failed"}
      /\ stage' \in {"streaming", "finished"}
      /\ UNCHANGED <<call, source, counting, chunks>>
  BY DEF IteratorEnd, GeneratorEnd
<1>2. PICK returns \in BOOLEAN : Recorded(tokens, returns)
  BY DEF IteratorEnd, GeneratorEnd
<1>3. Len(records) <= MaxAsks
  <2>1. CASE IteratorEnd
    BY <2>1 DEF IteratorEnd
  <2>2. CASE GeneratorEnd
    <3>1. records = <<>>
      BY <1>1, <2>2 DEF GeneratorEnd, CallInv, RecordsInv
    <3>2. Len(records) = 0
      BY <3>1
    <3> QED BY <3>2, BoundAssumption
  <2> QED BY <2>1, <2>2
<1>4. /\ records' \in Seq(Counts) /\ thrown' \in BOOLEAN /\ Len(records) \in Nat
      /\ Len(records') <= Len(records) + 1
      /\ \A i \in 1..Len(records') :
            \/ i \in 1..Len(records) /\ records'[i] = records[i]
            \/ tokens \in Counts /\ records'[i] = tokens
  BY <1>2, RecordedStep DEF CallInv
<1>5. TypeOK'
  <2>1. Len(records') <= MaxAsks + 1
    <3>1. Len(records') \in Nat
      BY <1>4
    <3> QED BY <1>3, <1>4, <3>1, BoundAssumption
  <2> QED BY <1>1, <1>4, <2>1 DEF CallInv, TypeOK, call, counting
<1>6. CountsInv' /\ StageInv'
  BY <1>1 DEF CallInv, CountsInv, StageInv, Running, call, counting
<1>7. RecordsInv'
  <2>1. ASSUME ~hidden', NEW i \in 1..Len(records') PROVE records'[i] = reported'
    <3>1. ~hidden /\ reported' = reported
      BY <1>1, <2>1 DEF counting
    <3>2. \A k \in 1..Len(records) : records[k] = reported
      BY <3>1 DEF CallInv, RecordsInv
    <3>3. tokens \in Counts => tokens = reported
      BY <3>1 DEF CallInv, CountsInv
    <3> QED BY <1>4, <3>1, <3>2, <3>3
  <2>2. ~(stage' = "streaming" /\ (source' \in Running \/ wrapper' \in Generators))
    BY <1>1, Wrappers DEF IteratorEnd, GeneratorEnd, Running, call
  <2> QED BY <1>1, <2>1, <2>2 DEF RecordsInv
<1> QED BY <1>5, <1>6, <1>7 DEF CallInv

\* A stream that the application reads without the wrapper.
LEMMA UntrackedStep == CallInv /\ ReadUntracked => CallInv'
<1> SUFFICES ASSUME CallInv, ReadUntracked PROVE CallInv'
  OBVIOUS
<1>1. PICK u \in ParsedUsage : Told(u, FALSE)
  BY DEF ReadUntracked
<1>2. /\ stage = "untracked" /\ chunks < MaxChunks /\ chunks' = chunks + 1
      /\ UNCHANGED <<call, stage, source, tokens, records, thrown>>
  BY DEF ReadUntracked
<1>3. u \in Usage
  BY DEF ParsedUsage
<1>4. /\ reported' \in Counts /\ hidden' \in BOOLEAN
      /\ ~hidden' => ~hidden /\ reported' = reported
  BY <1>1, <1>3, ToldStep DEF CallInv, TypeOK
<1>5. TypeOK'
  BY <1>2, <1>4, BoundAssumption DEF CallInv, TypeOK, call
<1>6. CountsInv' /\ RecordsInv' /\ StageInv'
  BY <1>2, <1>4 DEF CallInv, CountsInv, RecordsInv, StageInv
<1> QED BY <1>5, <1>6 DEF CallInv

LEMMA CallStep == CallInv /\ [Next]_vars => CallInv'
<1> SUFFICES ASSUME CallInv, [Next]_vars PROVE CallInv'
  OBVIOUS
<1>1. CASE \/ InvokeModel \/ ChatCompletion \/ LegacyCompletion \/ Embeddings
           \/ GenerateContent \/ SendMessage \/ GenerateContentAsync
           \/ GenerateStreamAsync
  BY <1>1, PlainStep
<1>2. CASE \/ LegacyStream \/ CreateCoroutine \/ Await \/ CancelAwait \/ CallFails
           \/ StartIterator \/ StartGenerator \/ SendRequest
           \/ NextRaises \/ NextThrows \/ SourceEnds \/ Leave
  BY <1>2, OtherStep
<1>3. CASE ReadUntracked
  BY <1>3, UntrackedStep
<1>4. CASE NextChunk
  BY <1>4, ChunkStep
<1>5. CASE IteratorEnd \/ GeneratorEnd
  BY <1>5, EndStep
<1>6. CASE UNCHANGED vars
  BY <1>6 DEF vars, CallInv, TypeOK, CountsInv, RecordsInv, StageInv
<1> QED BY <1>1, <1>2, <1>3, <1>4, <1>5, <1>6 DEF Next

LEMMA CallInit == Init => CallInv
<1> SUFFICES ASSUME Init PROVE CallInv
  OBVIOUS
<1>1. records = <<>> /\ records \in Seq(Counts) /\ Len(records) = 0
  BY DEF Init
<1>2. TypeOK
  <2>1. tokens \in SentCounts /\ reported \in Counts
    BY ReadCounts DEF Init
  <2>2. wrapper \in Iterators \union Generators /\ op \in Operations(wrapper)
    BY DEF Init
  <2>3. /\ stage \in {"new", "created", "streaming", "untracked", "finished"}
        /\ source \in {"unsent", "open", "ended", "failed"}
        /\ thrown \in BOOLEAN /\ hidden \in BOOLEAN
    BY DEF Init
  <2>4. Len(records) <= MaxAsks + 1 /\ chunks \in 0..MaxChunks
    BY <1>1, BoundAssumption DEF Init
  <2> QED BY <1>1, <2>1, <2>2, <2>3, <2>4, Zenon DEF TypeOK
<1>3. CountsInv /\ RecordsInv /\ StageInv
  BY <1>1 DEF Init, CountsInv, RecordsInv, StageInv, Running
<1> QED BY <1>2, <1>3 DEF CallInv

LEMMA CallHolds == Spec => []CallInv
  BY CallInit, CallStep, PTL DEF Spec

\* The variables have their types: whatever a provider sends, no null count
\* gets into an event.
THEOREM TypesHold == Spec => []TypeOK
<1>1. CallInv => TypeOK
  BY DEF CallInv
<1> QED BY <1>1, CallHolds, PTL

\* All that is ever recorded for a call are the counts that the provider sent
\* last, if it sent them where the wrapper looks.
THEOREM LastCountIsRecorded == Spec => []RecordsLastCount
<1>1. CallInv => RecordsLastCount
  BY DEF CallInv, RecordsInv, RecordsLastCount
<1> QED BY <1>1, CallHolds, PTL

\* A Node call that has thrown is finished.
NodeInv == wrapper \in Generators /\ thrown => stage = "finished" /\ records = <<>>

\* In Node, what is recorded is recorded by a step that does not throw.
LEMMA NodeRecorded ==
    ASSUME wrapper \in Generators, thrown \in BOOLEAN,
           NEW n, NEW returns \in BOOLEAN, Recorded(n, returns)
    PROVE  thrown' = thrown
  BY Wrappers DEF Recorded

LEMMA NodeStep == CallInv /\ NodeInv /\ [Next]_vars => NodeInv'
<1> SUFFICES ASSUME CallInv, NodeInv, [Next]_vars, wrapper' \in Generators, thrown'
             PROVE  stage' = "finished" /\ records' = <<>>
  BY DEF NodeInv
<1>1. CASE UNCHANGED vars
  BY <1>1 DEF vars, NodeInv
<1>2. CASE Next
  <2>1. wrapper \in Generators /\ wrapper \notin Iterators
    <3>1. wrapper' = wrapper
      BY <1>2 DEF Next, InvokeModel, Answered, AnswerLost, ChatCompletion,
           LegacyCompletion, Embeddings, GenerateContent, SendMessage, LegacyStream,
           CreateCoroutine, Await, GenerateContentAsync, CancelAwait,
           GenerateStreamAsync, ReadUntracked, CallFails, StartIterator,
           StartGenerator, SendRequest, NextChunk, NextRaises, NextThrows,
           SourceEnds, IteratorEnd, GeneratorEnd, Leave, call
    <3> QED BY <3>1, Wrappers
  <2>2. thrown \in BOOLEAN
    BY DEF CallInv, TypeOK
  <2>3. stage # "finished"
    BY <1>2 DEF Next, InvokeModel, ChatCompletion,
         LegacyCompletion, Embeddings, GenerateContent, SendMessage, LegacyStream,
         CreateCoroutine, Await, GenerateContentAsync, CancelAwait,
         GenerateStreamAsync, ReadUntracked, CallFails, StartIterator,
         StartGenerator, SendRequest, NextChunk, NextRaises, NextThrows,
         SourceEnds, IteratorEnd, GeneratorEnd, Leave
  <2>4. ~thrown
    BY <2>1, <2>3 DEF NodeInv
  <2>5. ASSUME NEW n, Answered(n) PROVE FALSE
    <3>1. PICK returns \in BOOLEAN : Recorded(n, returns)
      BY <2>5 DEF Answered
    <3> QED BY <2>1, <2>2, <2>4, <3>1, NodeRecorded
  <2>6. CASE InvokeModel
    <3>1. AnswerLost /\ stage = "new"
      BY <2>5, <2>6 DEF InvokeModel
    <3> QED BY <3>1 DEF AnswerLost, CallInv, RecordsInv
  <2>7. CASE \/ ChatCompletion \/ LegacyCompletion \/ Embeddings
             \/ GenerateContent \/ SendMessage \/ GenerateContentAsync
    BY <2>5, <2>7 DEF ChatCompletion, LegacyCompletion, Embeddings,
                      GenerateContent, SendMessage, GenerateContentAsync
  <2>8. CASE GenerateStreamAsync
    <3>1. PICK u \in ParsedUsage, returns \in BOOLEAN :
              Recorded(UsageOrZero(u), returns)
      BY <2>8 DEF GenerateStreamAsync
    <3> QED BY <2>1, <2>2, <2>4, <3>1, NodeRecorded
  <2>9. CASE GeneratorEnd
    <3>1. Recorded(tokens, TRUE)
      BY <2>9 DEF GeneratorEnd
    <3> QED BY <2>1, <2>2, <2>4, <3>1, NodeRecorded
  <2>10. CASE LegacyStream \/ CancelAwait \/ CallFails
    BY <2>10 DEF LegacyStream, CancelAwait, CallFails, CallInv, RecordsInv
  <2>11. CASE NextThrows
    BY <2>1, <2>11 DEF NextThrows, CallInv, RecordsInv
  <2>12. CASE StartIterator \/ NextRaises \/ IteratorEnd
    BY <2>1, <2>12 DEF StartIterator, NextRaises, IteratorEnd
  <2>13. CASE \/ CreateCoroutine \/ Await \/ ReadUntracked \/ StartGenerator
              \/ SendRequest \/ NextChunk \/ SourceEnds \/ Leave
    BY <2>4, <2>13 DEF CreateCoroutine, Await, ReadUntracked, StartGenerator,
                       SendRequest, NextChunk, SourceEnds, Leave
  <2> QED BY <1>2, <2>6, <2>7, <2>8, <2>9, <2>10, <2>11, <2>12, <2>13 DEF Next
<1> QED BY <1>1, <1>2

\* A Node call that throws has recorded nothing and never will, so that an
\* application that calls again is not charged twice for it.
THEOREM NodeThrowsUnrecorded == Spec => []ThrownIsUnrecorded
<1>1. Init => NodeInv
  BY DEF Init, NodeInv
<1>2. NodeInv => ThrownIsUnrecorded
  BY DEF NodeInv, ThrownIsUnrecorded
<1> QED BY <1>1, <1>2, NodeStep, CallHolds, PTL DEF Spec

-----------------------------------------------------------------------------
(* Where an event comes from.                                              *)

\* What a detection finds when no probe is lost.
Expected ==
    IF host.cloud = "aws" \/ host.other = "line" THEN [label |-> "aws", instance |-> "line"]
    ELSE IF host.cloud = "azure" THEN [label |-> "azure", instance |-> "line"]
    ELSE IF host.other = "page" THEN [label |-> "azure", instance |-> "page"]
    ELSE Truth

\* What a detection may find.
Found(m) ==
    /\ m \in Metadata
    /\ host.other = "none" => m = Truth \/ (faults > 0 /\ m.label = "on-prem")
    /\ faults = 0 => m = Expected

\* What a detection that has come to this probe has excluded.
Excluded(probe) ==
    /\ probe = "instance" => host.cloud = "aws" \/ host.other # "none"
    /\ probe = "instance" /\ faults = 0 => host.cloud = "aws" \/ host.other = "line"
    /\ probe \in {"azure", "gcp"} /\ faults = 0 => host.cloud # "aws" /\ host.other # "line"
    /\ probe = "gcp" /\ faults = 0 => host.cloud # "azure" /\ host.other = "none"

HostTypes ==
    /\ sdk \in {"python", "node"}
    /\ host \in [cloud : Clouds \union {"none"}, other : {"none", "line", "page"}]
    /\ detection \in [Callers -> Probes \union {"idle", "return", "done"}]
    /\ own = [c \in Callers |-> own[c]]
    /\ labels = [c \in Callers |-> labels[c]]
    /\ faults \in 0..MaxFaults

\* A numbered event and what it carries.
Labelled(e) ==
    /\ e = <<e[1], e[2]>> /\ e[1] \in 1..MaxEvents
    /\ e[2] = Unknown \/ Found(e[2])

CallerOK(c) ==
    /\ Excluded(detection[c])
    /\ detection[c] = "return" => cached # Unset
    /\ detection[c] = "done" <=> own[c] # Unset
    /\ own[c] # Unset => Found(own[c])
    /\ IsFiniteSet(labels[c])
    /\ \A e \in labels[c] : Labelled(e)

\* Whatever is cached or carried by an event was found, and nothing has the
\* place of something that was not found yet.
HostInv ==
    /\ HostTypes
    /\ cached # Unset => Found(cached)
    /\ \A c \in Callers : CallerOK(c)

-----------------------------------------------------------------------------

\* A probe that is answered or lost leads to the next one, which excludes what
\* it should, or to a result.
LEMMA ProbeOutcome ==
    ASSUME HostInv, NEW c \in Callers, detection[c] \in Probes, NEW answer,
           AfterAnswer(c, answer), host' = host,
           \/ answer = Answer(detection[c]) /\ faults' = faults
           \/ answer = "none" /\ faults' = faults + 1
    PROVE  \/ \E p \in {"instance", "azure", "gcp"} : GoOn(c, p) /\ Excluded(p)'
           \/ \E m : /\ Detected(c, m.label, m.instance)
                     /\ m = [label |-> m.label, instance |-> m.instance]
                     /\ Found(m)'
<1>1. /\ host.cloud \in {"aws", "azure", "gcp", "none"}
      /\ host.other \in {"none", "line", "page"}
      /\ faults \in Nat /\ Excluded(detection[c])
  BY DEF HostInv, HostTypes, CallerOK, Clouds
<1>2. answer \in {"none", "line", "page"}
  BY <1>1 DEF Answer
<1>3. ASSUME NEW label \in Clouds \union {"on-prem"}, Detected(c, label, answer),
             Found([label |-> label, instance |-> answer])'
      PROVE  \E m : /\ Detected(c, m.label, m.instance)
                    /\ m = [label |-> m.label, instance |-> m.instance]
                    /\ Found(m)'
  BY <1>3
<1>4. CASE detection[c] = "token"
  <2>1. GoOn(c, IF answer = "line" THEN "instance" ELSE "azure")
    BY <1>4 DEF AfterAnswer
  <2>2. CASE answer = "line"
    <3>1. Excluded("instance")'
      BY <1>1, <1>4, <2>2 DEF Excluded, Answer
    <3> QED BY <2>1, <2>2, <3>1
  <2>3. CASE answer # "line"
    <3>1. Excluded("azure")'
      BY <1>1, <1>4, <2>3 DEF Excluded, Answer
    <3> QED BY <2>1, <2>3, <3>1
  <2> QED BY <2>2, <2>3
<1>5. CASE detection[c] = "instance"
  <2>1. IF answer = "none" THEN GoOn(c, "azure") ELSE Detected(c, "aws", answer)
    BY <1>5 DEF AfterAnswer
  <2>2. CASE answer = "none"
    <3>1. Excluded("azure")'
      BY <1>1, <1>5, <2>2 DEF Excluded, Answer
    <3> QED BY <2>1, <2>2, <3>1
  <2>3. CASE answer # "none"
    <3>1. Found([label |-> "aws", instance |-> answer])'
      BY <1>1, <1>2, <1>5, <2>3
      DEF Found, Expected, Excluded, Answer, Truth, Metadata, Clouds
    <3> QED BY <1>3, <2>1, <2>3, <3>1 DEF Clouds
  <2> QED BY <2>2, <2>3
<1>6. CASE detection[c] = "azure"
  <2>1. IF answer = "none" THEN GoOn(c, "gcp") ELSE Detected(c, "azure", answer)
    BY <1>6 DEF AfterAnswer
  <2>2. CASE answer = "none"
    <3>1. Excluded("gcp")'
      BY <1>1, <1>6, <2>2 DEF Excluded, Answer
    <3> QED BY <2>1, <2>2, <3>1
  <2>3. CASE answer # "none"
    <3>1. Found([label |-> "azure", instance |-> answer])'
      BY <1>1, <1>2, <1>6, <2>3
      DEF Found, Expected, Excluded, Answer, Truth, Metadata, Clouds
    <3> QED BY <1>3, <2>1, <2>3, <3>1 DEF Clouds
  <2> QED BY <2>2, <2>3
<1>7. CASE detection[c] = "gcp"
  <2>1. Detected(c, IF answer = "none" THEN "on-prem" ELSE "gcp", answer)
    BY <1>7 DEF AfterAnswer, AfterLast
  <2>2. CASE answer = "none"
    <3>1. Found([label |-> "on-prem", instance |-> answer])'
      BY <1>1, <1>2, <1>7, <2>2
      DEF Found, Expected, Excluded, Answer, Truth, Metadata, Clouds
    <3> QED BY <1>3, <2>1, <2>2, <3>1
  <2>3. CASE answer # "none"
    <3>1. Found([label |-> "gcp", instance |-> answer])'
      BY <1>1, <1>2, <1>7, <2>3
      DEF Found, Expected, Excluded, Answer, Truth, Metadata, Clouds
    <3> QED BY <1>3, <2>1, <2>3, <3>1 DEF Clouds
  <2> QED BY <2>2, <2>3
<1> QED BY <1>4, <1>5, <1>6, <1>7 DEF Probes

\* Where what was found is right, it stays so when probes are lost.
LEMMA FoundStays ==
    ASSUME HostTypes, host' = host, faults' = faults \/ faults' = faults + 1
    PROVE  /\ \A m : Found(m) => Found(m)'
           /\ \A p : Excluded(p) => Excluded(p)'
           /\ \A e : Labelled(e) => Labelled(e)'
<1>1. faults \in Nat
  BY DEF HostTypes
<1>2. \A m : Found(m) => Found(m)'
  BY <1>1 DEF Found, Expected, Truth
<1>3. \A p : Excluded(p) => Excluded(p)'
  BY <1>1 DEF Excluded
<1> QED BY <1>2, <1>3 DEF Labelled

LEMMA FoundIsSet == \A m : Found(m) => m # Unset /\ m # Unknown
<1> SUFFICES ASSUME NEW m, Found(m) PROVE m # Unset /\ m # Unknown
  OBVIOUS
<1>1. m.label \in {"aws", "azure", "gcp", "on-prem"}
  BY DEF Found, Metadata, Clouds
<1> QED BY <1>1 DEF Unset, Unknown

LEMMA ProbeKeeps ==
    ASSUME HostInv, NEW c \in Callers, detection[c] \in Probes, NEW answer,
           AfterAnswer(c, answer), UNCHANGED <<sdk, host, labels>>,
           \/ answer = Answer(detection[c]) /\ faults' = faults
           \/ answer = "none" /\ faults < MaxFaults /\ faults' = faults + 1
    PROVE  HostInv'
<1>1. HostTypes /\ \A d \in Callers : CallerOK(d)
  BY DEF HostInv
<1>2. faults' \in 0..MaxFaults
  BY <1>1, HostBoundAssumption DEF HostTypes
<1>3. /\ \A m : Found(m) => Found(m)'
      /\ \A p : Excluded(p) => Excluded(p)'
      /\ \A e : Labelled(e) => Labelled(e)'
  BY <1>1, FoundStays
<1>4. detection[c] # "done" /\ own[c] = Unset
  BY <1>1 DEF CallerOK, Probes
<1>5. CASE \E p \in {"instance", "azure", "gcp"} : GoOn(c, p) /\ Excluded(p)'
  <2>1. PICK p \in {"instance", "azure", "gcp"} : GoOn(c, p) /\ Excluded(p)'
    BY <1>5
  <2>2. /\ detection' = [detection EXCEPT ![c] = p] /\ cached' = cached /\ own' = own
        /\ detection \in [Callers -> Probes \union {"idle", "return", "done"}]
    BY <1>1, <2>1 DEF GoOn, HostTypes
  <2>3. /\ detection'[c] = p
        /\ \A d \in Callers \ {c} : detection'[d] = detection[d]
        /\ detection' \in [Callers -> Probes \union {"idle", "return", "done"}]
    BY <2>2 DEF Probes
  <2>4. HostTypes'
    BY <1>1, <1>2, <2>2, <2>3 DEF HostTypes
  <2>5. CallerOK(c)'
    BY <1>1, <1>3, <1>4, <2>1, <2>2, <2>3 DEF CallerOK
  <2>6. \A d \in Callers \ {c} : CallerOK(d)'
    BY <1>1, <1>3, <2>2, <2>3 DEF CallerOK
  <2> QED BY <1>3, <2>2, <2>4, <2>5, <2>6 DEF HostInv
<1>6. CASE \E m : /\ Detected(c, m.label, m.instance)
                  /\ m = [label |-> m.label, instance |-> m.instance]
                  /\ Found(m)'
  <2>1. PICK m : /\ Detected(c, m.label, m.instance)
                 /\ m = [label |-> m.label, instance |-> m.instance]
                 /\ Found(m)'
    BY <1>6
  <2> DEFINE end == IF sdk = "node" THEN "done" ELSE "return"
  <2>2. /\ detection' = [detection EXCEPT ![c] = end] /\ cached' = m
        /\ own' = IF sdk = "node" THEN [own EXCEPT ![c] = m] ELSE own
        /\ detection \in [Callers -> Probes \union {"idle", "return", "done"}]
    BY <1>1, <2>1 DEF Detected, HostTypes
  <2>3. /\ detection'[c] = end
        /\ \A d \in Callers \ {c} : detection'[d] = detection[d]
        /\ detection' \in [Callers -> Probes \union {"idle", "return", "done"}]
    BY <2>2
  <2>4. /\ own' = [d \in Callers |-> own'[d]]
        /\ own'[c] = IF sdk = "node" THEN m ELSE own[c]
        /\ \A d \in Callers \ {c} : own'[d] = own[d]
    BY <1>1, <2>2 DEF HostTypes
  <2>5. m # Unset
    <3>1. m.label \in {"aws", "azure", "gcp", "on-prem"}
      BY <2>1 DEF Found, Metadata, Clouds
    <3> QED BY <3>1 DEF Unset
  <2>6. HostTypes'
    BY <1>1, <1>2, <2>3, <2>4 DEF HostTypes
  <2>7. CallerOK(c)'
    <3>1. Excluded(detection[c])'
      BY <2>3 DEF Excluded
    <3> QED BY <1>1, <1>3, <1>4, <2>1, <2>2, <2>3, <2>4, <2>5, <3>1 DEF CallerOK
  <2>8. \A d \in Callers \ {c} : CallerOK(d)'
    BY <1>1, <1>3, <2>2, <2>3, <2>4, <2>5 DEF CallerOK
  <2> QED BY <2>1, <2>2, <2>6, <2>7, <2>8 DEF HostInv
<1> QED BY <1>5, <1>6, ProbeOutcome

\* An event that is labelled with something found, or not labelled yet.
LEMMA LabelKeeps ==
    ASSUME HostInv, NEW c \in Callers,
           NEW m, m = Unknown \/ Found(m), Label(c, m)
    PROVE  /\ labels' = [d \in Callers |-> labels'[d]]
           /\ \A d \in Callers : IsFiniteSet(labels'[d]) /\ \A e \in labels'[d] : Labelled(e)
<1>1. /\ labels = [d \in Callers |-> labels[d]]
      /\ \A d \in Callers : IsFiniteSet(labels[d]) /\ \A e \in labels[d] : Labelled(e)
  BY DEF HostInv, HostTypes, CallerOK
<1> DEFINE n == Cardinality(labels[c]) + 1
<1>2. n \in 1..MaxEvents
  BY <1>1, HostBoundAssumption, FS_CardinalityType DEF Label
<1>3. labels' = [labels EXCEPT ![c] = labels[c] \union {<<n, m>>}]
  BY DEF Label
<1>4. IsFiniteSet(labels[c] \union {<<n, m>>})
  BY <1>1, FS_AddElement
<1>5. Labelled(<<n, m>>)
  BY <1>2 DEF Labelled
<1> HIDE DEF n
<1>6. /\ labels' = [d \in Callers |-> labels'[d]]
      /\ labels'[c] = labels[c] \union {<<n, m>>}
      /\ \A d \in Callers \ {c} : labels'[d] = labels[d]
  BY <1>1, <1>3
<1> QED BY <1>1, <1>4, <1>5, <1>6

LEMMA RecordKeeps ==
    ASSUME HostInv, NEW c \in Callers,
           RecordPython(c) \/ ReturnPython(c) \/ RecordNode(c)
    PROVE  HostInv'
<1>1. HostTypes /\ \A d \in Callers : CallerOK(d)
  BY DEF HostInv
<1>2. UNCHANGED <<sdk, host, cached, own, faults>>
  BY DEF RecordPython, ReturnPython, RecordNode
<1>3. /\ \A m : Found(m) => Found(m)'
      /\ \A p : Excluded(p) => Excluded(p)'
      /\ \A e : Labelled(e) => Labelled(e)'
  BY <1>1, <1>2, FoundStays
<1>4. /\ labels' = [d \in Callers |-> labels'[d]]
      /\ \A d \in Callers : IsFiniteSet(labels'[d]) /\ \A e \in labels'[d] : Labelled(e)
  <2>1. CASE labels' = labels
    BY <1>1, <2>1 DEF HostTypes, CallerOK
  <2>2. CASE Label(c, cached) /\ cached # Unset
    BY <2>2, LabelKeeps DEF HostInv
  <2>3. CASE RecordNode(c)
    <3>1. Known(c) = Unknown \/ Found(Known(c))
      BY <1>1 DEF HostInv, CallerOK, Known
    <3> QED BY <2>3, <3>1, LabelKeeps DEF RecordNode
  <2>4. CASE ReturnPython(c)
    BY <1>1, <2>2, <2>4 DEF ReturnPython, CallerOK
  <2>5. CASE RecordPython(c)
    BY <2>1, <2>2, <2>5 DEF RecordPython
  <2> QED BY <2>3, <2>4, <2>5
<1>5. /\ detection' \in [Callers -> Probes \union {"idle", "return", "done"}]
      /\ \A d \in Callers : detection'[d] # detection[d] =>
            detection[d] \in {"idle", "return"} /\ detection'[d] \in {"token", "idle"}
  BY <1>1 DEF HostTypes, RecordPython, ReturnPython, RecordNode, Probes
<1>6. HostTypes'
  BY <1>1, <1>2, <1>4, <1>5 DEF HostTypes
<1>7. ASSUME NEW d \in Callers
      PROVE  CallerOK(d)'
  <2>1. Excluded(detection[d])'
    <3>1. CASE detection'[d] = detection[d]
      BY <1>1, <1>3, <3>1 DEF CallerOK
    <3>2. CASE detection'[d] \in {"token", "idle"}
      BY <3>2 DEF Excluded
    <3> QED BY <1>5, <3>1, <3>2
  <2> QED BY <1>1, <1>2, <1>3, <1>4, <1>5, <2>1 DEF CallerOK
<1> QED BY <1>2, <1>3, <1>6, <1>7 DEF HostInv

LEMMA HostStep == HostInv /\ [HostNext]_hostVars => HostInv'
<1> SUFFICES ASSUME HostInv, [HostNext]_hostVars PROVE HostInv'
  OBVIOUS
<1>1. CASE \E c \in Callers : Probe(c)
  BY <1>1, ProbeKeeps DEF Probe
<1>2. CASE \E c \in Callers : ProbeLost(c)
  BY <1>2, ProbeKeeps DEF ProbeLost
<1>3. CASE \E c \in Callers : RecordPython(c) \/ ReturnPython(c) \/ RecordNode(c)
  BY <1>3, RecordKeeps
<1>4. CASE UNCHANGED hostVars
  <2>1. UNCHANGED <<sdk, host, detection, cached, own, labels, faults>>
    BY <1>4 DEF hostVars
  <2>2. HostTypes' /\ \A m : Found(m) => Found(m)'
    BY <2>1, FoundStays DEF HostInv, HostTypes
  <2>3. \A d \in Callers : CallerOK(d)'
    BY <2>1, FoundStays DEF HostInv, CallerOK
  <2> QED BY <2>1, <2>2, <2>3 DEF HostInv
<1> QED BY <1>1, <1>2, <1>3, <1>4 DEF HostNext

LEMMA HostInitially == HostInit => HostInv
<1> SUFFICES ASSUME HostInit PROVE HostInv
  OBVIOUS
<1>1. HostTypes
  BY HostBoundAssumption DEF HostInit, HostTypes, Probes
<1>2. ASSUME NEW c \in Callers PROVE CallerOK(c)
  <2>1. detection[c] \in {"token", "idle"} /\ own[c] = Unset /\ labels[c] = {}
    BY DEF HostInit
  <2>2. Excluded(detection[c])
    BY <2>1 DEF Excluded
  <2> QED BY <2>1, <2>2, FS_EmptySet DEF CallerOK
<1> QED BY <1>1, <1>2 DEF HostInv, HostInit

\* A Node client has metadata of its own once its detection is over, and every
\* variable keeps its type, for any number of callers, events and faults.
THEOREM HostTypesHold == HostSpec => []HostTypeOK
<1>1. HostInv => HostTypeOK
  <2> SUFFICES ASSUME HostInv PROVE HostTypeOK
    OBVIOUS
  <2>1. HostTypes /\ cached \in Metadata \union {Unset}
    BY DEF HostInv, Found
  <2>2. ASSUME NEW c \in Callers
        PROVE  /\ own[c] \in Metadata \union {Unset}
               /\ detection[c] = "done" <=> own[c] # Unset
               /\ labels[c] \subseteq (1..MaxEvents) \X (Metadata \union {Unknown})
    BY DEF HostInv, CallerOK, Labelled, Found
  <2> QED BY <2>1, <2>2 DEF HostTypes, HostTypeOK
<1> QED BY <1>1, HostInitially, HostStep, PTL DEF HostSpec

\* Whatever threads or clients detect at the same time: where only the right
\* service answers a label is right, or "on-prem" after a lost probe; where no
\* probe is lost all events have the same.
THEOREM LabelsAreRight == HostSpec => []LabelsRight
<1>1. HostInv => LabelsRight
  <2> SUFFICES ASSUME HostInv, NEW c \in Callers, NEW d \in Callers,
                      NEW e \in labels[c], NEW f \in labels[d],
                      e[2] # Unknown, f[2] # Unknown
               PROVE  /\ host.other = "none" =>
                            e[2] = Truth \/ (faults > 0 /\ e[2].label = "on-prem")
                      /\ faults = 0 => e[2] = f[2]
    BY DEF LabelsRight
  <2>1. Found(e[2]) /\ Found(f[2])
    BY DEF HostInv, CallerOK, Labelled
  <2> QED BY <2>1 DEF Found
<1> QED BY <1>1, HostInitially, HostStep, PTL DEF HostSpec
=============================================================================
