--------------------------- MODULE StreamWrapper ---------------------------
(***************************************************************************)
(* One LLM call through a provider wrapper of the SDKs                     *)
(* (sdk/python/src/token_trackr/wrappers, sdk/nodejs/src/wrappers): the    *)
(* application asks for an answer or a stream, the wrapper looks at what   *)
(* the provider sends and hands it on, and passes the token counts to      *)
(* record().                                                               *)
(*                                                                         *)
(* Python wraps a stream in an iterator object: it goes on after an        *)
(* exception, and can be asked again after its end.  Node wraps it in an   *)
(* async generator: that runs nothing before it is first asked, and is     *)
(* finished for good once it has thrown, returned or been left.            *)
(*                                                                         *)
(* The provider is external.                                               *)
(***************************************************************************)
EXTENDS Integers, Sequences, FiniteSets

CONSTANTS
    MaxUsage,   \* bound: the token counts of an answer
    MaxChunks,  \* bound: how many chunks a stream has
    MaxAsks     \* bound: how often the application asks again after the end

ASSUME BoundAssumption == MaxUsage \in Nat /\ MaxChunks \in Nat /\ MaxAsks \in Nat

Iterators == {"bedrock-py", "azure-py", "gemini-py"}
Generators == {"bedrock-node", "azure-node", "gemini-node"}
Bedrock == {"bedrock-py", "bedrock-node"}
Azure == {"azure-py", "azure-node"}
Gemini == {"gemini-py", "gemini-node"}

\* The operations of each wrapper that record something.  Two of Python's
\* pass stream=True on to the provider among their other arguments, and do
\* not look at it.
Operations(w) ==
    {"stream"} \union
    CASE w \in Bedrock    -> {"invoke"}
      [] w = "azure-py"   -> {"chat", "legacy", "legacy-stream", "embeddings"}
      [] w = "azure-node" -> {"chat", "embeddings"}
      [] w = "gemini-py"  -> {"generate", "async", "async-stream", "send"}
      [] OTHER            -> {"generate", "send"}

\* Token counts; a provider may send null for one.
Null == -1
SentCounts == [prompt : Null..MaxUsage, completion : Null..MaxUsage]
Counts == [prompt : 0..MaxUsage, completion : 0..MaxUsage]
Zero == [prompt |-> 0, completion |-> 0]

VARIABLES
    wrapper,   \* which wrapper the call goes through
    op,        \* which of its operations
    stage,     \* new, created (a coroutine), streaming, untracked (a stream
               \* that the application reads without the wrapper), finished
    source,    \* the provider's answer: unsent, open, ended or failed
    tokens,    \* the wrapper's counts
    reported,  \* history: the last counts the provider sent, null taken for 0
    hidden,    \* history: it sent them where the wrapper does not look
    records,   \* the counts of the events that record() queued, in order
    thrown,    \* history: an exception reached the application
    chunks     \* chunks so far

vars == <<wrapper, op, stage, source, tokens, reported, hidden, records, thrown, chunks>>
call == <<wrapper, op>>
counting == <<tokens, reported, hidden>>

Init ==
    /\ wrapper \in Iterators \union Generators
    /\ op \in Operations(wrapper)
    /\ stage = "new" /\ source = "unsent"
    /\ tokens = Zero /\ reported = Zero /\ hidden = FALSE
    /\ records = <<>> /\ thrown = FALSE
    /\ chunks = 0

Raise == thrown' = TRUE

-----------------------------------------------------------------------------
(* Where the counts are in an answer.  An answer or a chunk carries counts, *)
(* or the place for them is missing, null (or an empty list), or the text   *)
(* cannot be parsed.                                                        *)

Usage == [form : {"missing", "null", "unreadable"}, counts : {Zero}]
            \union [form : {"counts"}, counts : SentCounts]

\* Each family of Bedrock models has a place of its own for the counts;
\* that of Llama is the answer itself, and so never null.
Families == {"anthropic", "titan", "llama", "cohere", "mistral", "ai21", "other"}

\* Python's get() does not work on a null.
ExtractRaises(family, u) ==
    \/ u.form = "unreadable"
    \/ u.form = "null" /\ wrapper = "bedrock-py" /\ family # "other"

\* A null count is zero tokens to Node and to the chat stream of Python's
\* Azure; the other wrappers of Python pass it on.
OrZero(n) == [prompt |-> IF n.prompt = Null THEN 0 ELSE n.prompt,
              completion |-> IF n.completion = Null THEN 0 ELSE n.completion]
KeepsNull == wrapper \in Iterators /\ ~(wrapper = "azure-py" /\ op = "stream")
Read(n) == IF KeepsNull THEN n ELSE OrZero(n)

\* No usage object, no counts.
UsageOrZero(u) == IF u.form = "counts" THEN Read(u.counts) ELSE Zero

\* A model of no known family counts nothing.
ExtractTokens(family, u) == IF family = "other" THEN Zero ELSE UsageOrZero(u)

\* The clients of Azure and Gemini have parsed the answer; an unreadable
\* one is a failure of the provider's client.
ParsedUsage == {u \in Usage : u.form # "unreadable"}

\* The provider tells its counts, where the wrapper looks or elsewhere.
Told(u, looks) ==
    IF u.form = "counts"
    THEN reported' = OrZero(u.counts) /\ hidden' = ~looks
    ELSE UNCHANGED <<reported, hidden>>

\* record() of Node returns.  Python's raises on a null count and queues
\* nothing; and it may raise when the event is in the queue, from a flush
\* in this thread or from the start of one that would flush.
Recorded(n, returns) ==
    /\ returns => n \in Counts
    /\ ~returns => wrapper \in Iterators
    /\ records' = IF n \in Counts THEN Append(records, n) ELSE records
    /\ thrown' = (thrown \/ ~returns)

-----------------------------------------------------------------------------
(* A call without stream.                                                  *)

\* The counts are recorded, then the answer is returned, unless record()
\* has raised.
Answered(n) ==
    /\ stage' = "finished" /\ source' = "ended"
    /\ tokens' = n
    /\ \E returns \in BOOLEAN : Recorded(n, returns)
    /\ UNCHANGED <<call, chunks>>

\* The wrapper fails to read the answer, and the application does not get it.
AnswerLost ==
    /\ stage' = "finished" /\ source' = "ended"
    /\ Raise
    /\ UNCHANGED <<call, tokens, records, chunks>>

InvokeModel ==
    /\ stage = "new" /\ op = "invoke"
    /\ \E family \in Families, u \in Usage :
          /\ family = "llama" => u.form # "null"
          /\ Told(u, family # "other")
          /\ IF ExtractRaises(family, u)
             THEN AnswerLost
             ELSE Answered(ExtractTokens(family, u))

ChatCompletion ==
    /\ stage = "new" /\ op = "chat"
    /\ \E u \in ParsedUsage : Told(u, TRUE) /\ Answered(UsageOrZero(u))

LegacyCompletion ==
    /\ stage = "new" /\ op = "legacy"
    /\ \E u \in ParsedUsage : Told(u, TRUE) /\ Answered(UsageOrZero(u))

\* With stream=True the provider's client returns a stream, which has no
\* attribute usage: the wrapper raises, and nobody reads the stream.
LegacyStream ==
    /\ stage = "new" /\ op = "legacy-stream"
    /\ stage' = "finished" /\ source' = "open"
    /\ Raise
    /\ UNCHANGED <<call, counting, records, chunks>>

\* Embeddings have no completion tokens.
Embeddings ==
    /\ stage = "new" /\ op = "embeddings"
    /\ \E u \in ParsedUsage :
          /\ u.counts.completion = 0
          /\ Told(u, TRUE)
          /\ Answered([prompt |-> UsageOrZero(u).prompt, completion |-> 0])

GenerateContent ==
    /\ stage = "new" /\ op = "generate"
    /\ \E u \in ParsedUsage : Told(u, TRUE) /\ Answered(UsageOrZero(u))

SendMessage ==
    /\ stage = "new" /\ op = "send"
    /\ \E u \in ParsedUsage : Told(u, TRUE) /\ Answered(UsageOrZero(u))

\* generate_content_async returns a coroutine, of which nothing has run.
CreateCoroutine ==
    /\ stage = "new" /\ op \in {"async", "async-stream"}
    /\ stage' = "created"
    /\ UNCHANGED <<call, source, counting, records, thrown, chunks>>

\* It is awaited: the request is sent.
Await ==
    /\ stage = "created" /\ source = "unsent"
    /\ source' = "open"
    /\ UNCHANGED <<call, stage, counting, records, thrown, chunks>>

GenerateContentAsync ==
    /\ stage = "created" /\ source = "open" /\ op = "async"
    /\ \E u \in ParsedUsage : Told(u, TRUE) /\ Answered(UsageOrZero(u))

\* With stream=True what the provider returns is a stream with the counts
\* of its first chunk; they are recorded, and the application gets it.
GenerateStreamAsync ==
    /\ stage = "created" /\ source = "open" /\ op = "async-stream"
    /\ \E u \in ParsedUsage, returns \in BOOLEAN :
          /\ Told(u, TRUE)
          /\ tokens' = UsageOrZero(u)
          /\ Recorded(UsageOrZero(u), returns)
          /\ stage' = IF returns THEN "untracked" ELSE "finished"
    /\ UNCHANGED <<call, source, chunks>>

\* The application reads the provider's stream itself.
ReadUntracked ==
    /\ stage = "untracked" /\ source = "open" /\ chunks < MaxChunks
    /\ chunks' = chunks + 1
    /\ \E u \in ParsedUsage : Told(u, FALSE)
    /\ UNCHANGED <<call, stage, source, tokens, records, thrown>>

\* The task that awaits it is cancelled, whatever the provider does.
CancelAwait ==
    /\ stage = "created" /\ source = "open"
    /\ stage' = "finished" /\ source' \in {"ended", "failed"}
    /\ Raise
    /\ UNCHANGED <<call, counting, records, chunks>>

\* The provider refuses.
CallFails ==
    /\ \/ stage = "new" /\ op \notin {"stream", "async", "async-stream"}
       \/ stage = "created" /\ source = "open"
    /\ stage' = "finished" /\ source' = "failed"
    /\ Raise
    /\ UNCHANGED <<call, counting, records, chunks>>

-----------------------------------------------------------------------------
(* A stream.                                                               *)

\* Python sends the request at once; the provider may refuse it.
StartIterator ==
    /\ stage = "new" /\ op = "stream" /\ wrapper \in Iterators
    /\ \/ stage' = "streaming" /\ source' = "open" /\ UNCHANGED thrown
       \/ stage' = "finished" /\ source' = "failed" /\ Raise
    /\ UNCHANGED <<call, counting, records, chunks>>

\* Calling a generator function runs nothing of it.
StartGenerator ==
    /\ stage = "new" /\ op = "stream" /\ wrapper \in Generators
    /\ stage' = "streaming"
    /\ UNCHANGED <<call, source, counting, records, thrown, chunks>>

\* The first next() sends the request.
SendRequest ==
    /\ stage = "streaming" /\ source = "unsent"
    /\ source' = "open"
    /\ UNCHANGED <<call, stage, counting, records, thrown, chunks>>

\* What a provider sends: counts in any chunk.  Only Bedrock has a message
\* that stops the stream, its last, and leaves the parsing to the wrapper.
Chunk == [usage : Usage, stop : BOOLEAN]
Sent(c) == wrapper \notin Bedrock => ~c.stop /\ c.usage.form # "unreadable"

\* Bedrock: only the stopping message is looked at, and a Python wrapper
\* takes missing counts for zeros.
BedrockCount(n, c) ==
    IF c.stop /\ (wrapper = "bedrock-py" \/ c.usage.form = "counts")
    THEN UsageOrZero(c.usage) ELSE n

\* Azure: a chunk with a usage object replaces the counts.
AzureCount(n, c) == IF c.usage.form = "counts" THEN Read(c.usage.counts) ELSE n

\* Wrong: a chunk without usage metadata resets the counts.
GeminiCount_Resetting(n, c) == UsageOrZero(c.usage)

\* Gemini: so does a chunk with usage metadata.
GeminiCount(n, c) == IF c.usage.form = "counts" THEN Read(c.usage.counts) ELSE n

Counted(n, c) ==
    CASE wrapper \in Bedrock -> BedrockCount(n, c)
      [] wrapper \in Azure   -> AzureCount(n, c)
      [] wrapper \in Gemini  -> GeminiCount(n, c)

\* A chunk of Bedrock is JSON that the wrapper parses, and the counts of
\* its stopping message are asked for with get().
ChunkRaises(c) ==
    /\ wrapper \in Bedrock
    /\ \/ c.usage.form = "unreadable"
       \/ wrapper = "bedrock-py" /\ c.stop /\ c.usage.form = "null"

\* A chunk is looked at and handed on.
NextChunk ==
    /\ stage = "streaming" /\ source = "open" /\ chunks < MaxChunks
    /\ chunks' = chunks + 1
    /\ \E c \in Chunk :
          /\ Sent(c) /\ ~ChunkRaises(c)
          /\ tokens' = Counted(tokens, c)
          /\ Told(c.usage, wrapper \notin Bedrock \/ c.stop)
          /\ source' = IF c.stop THEN "ended" ELSE source
    /\ UNCHANGED <<call, stage, records, thrown>>

\* The provider's stream raises, or the wrapper on a chunk: the application
\* gets the exception.  A Python iterator can be asked again, a provider's
\* stream that has raised is then at its end.
NextRaises ==
    /\ stage = "streaming" /\ source = "open" /\ wrapper \in Iterators
    /\ \/ source' = "failed" /\ UNCHANGED chunks
       \/ /\ chunks < MaxChunks /\ chunks' = chunks + 1
          /\ \E c \in Chunk :
                /\ Sent(c) /\ ChunkRaises(c)
                /\ source' = IF c.stop THEN "ended" ELSE source
    /\ Raise
    /\ UNCHANGED <<call, stage, counting, records>>

\* Wrong: the generator records in a finally block.
NextThrows_Finally ==
    /\ stage = "streaming" /\ source \in {"unsent", "open"}
    /\ wrapper \in Generators
    /\ source' = "failed"
    /\ stage' = "finished"
    /\ Raise
    /\ records' = Append(records, tokens)
    /\ UNCHANGED <<call, counting, chunks>>

\* The same in a generator, which is then finished.
NextThrows ==
    /\ stage = "streaming" /\ source \in {"unsent", "open"}
    /\ wrapper \in Generators
    /\ source' = "failed"
    /\ stage' = "finished"
    /\ Raise
    /\ UNCHANGED <<call, counting, records, chunks>>

\* The provider has nothing more to send.
SourceEnds ==
    /\ stage \in {"streaming", "untracked"} /\ source = "open"
    /\ source' = "ended"
    /\ UNCHANGED <<call, stage, counting, records, thrown, chunks>>

\* Every StopIteration of the wrapped stream is recorded, and then passed
\* on: unless record() raises, of which the application gets the exception
\* instead.  It may ask again in either case.
IteratorEnd ==
    /\ stage = "streaming" /\ source \in {"ended", "failed"}
    /\ wrapper \in Iterators
    /\ Len(records) <= MaxAsks
    /\ \E returns \in BOOLEAN : Recorded(tokens, returns)
    /\ UNCHANGED <<call, stage, source, counting, chunks>>

\* The loop of the generator is over: it records, and is finished.
GeneratorEnd ==
    /\ stage = "streaming" /\ source = "ended"
    /\ wrapper \in Generators
    /\ Recorded(tokens, TRUE)
    /\ stage' = "finished"
    /\ UNCHANGED <<call, source, counting, chunks>>

\* The application stops reading (break, return(), or it drops the stream).
Leave ==
    /\ stage \in {"streaming", "untracked"}
    /\ stage' = "finished"
    /\ UNCHANGED <<call, source, counting, records, thrown, chunks>>

Next ==
    \/ InvokeModel \/ ChatCompletion \/ LegacyCompletion \/ Embeddings
    \/ GenerateContent \/ SendMessage \/ LegacyStream
    \/ CreateCoroutine \/ Await \/ GenerateContentAsync \/ CancelAwait
    \/ GenerateStreamAsync \/ ReadUntracked
    \/ CallFails
    \/ StartIterator \/ StartGenerator \/ SendRequest
    \/ NextChunk \/ NextRaises \/ NextThrows \/ SourceEnds
    \/ IteratorEnd \/ GeneratorEnd \/ Leave

Spec == Init /\ [][Next]_vars

-----------------------------------------------------------------------------
(* Properties.                                                             *)

\* The variables have their types; what was recorded are counts, no nulls.
TypeOK ==
    /\ wrapper \in Iterators \union Generators /\ op \in Operations(wrapper)
    /\ stage \in {"new", "created", "streaming", "untracked", "finished"}
    /\ source \in {"unsent", "open", "ended", "failed"}
    /\ tokens \in SentCounts /\ reported \in Counts /\ hidden \in BOOLEAN
    /\ records \in Seq(Counts) /\ Len(records) <= MaxAsks + 1
    /\ thrown \in BOOLEAN
    /\ chunks \in 0..MaxChunks

\* Whatever is recorded for a call are the last counts that the provider
\* sent in it, through chunks without counts, unreadable chunks, nulls,
\* failures of the stream and of record(), and applications that ask again;
\* unless the provider sent its last counts where the wrapper does not look.
RecordsLastCount == ~hidden => \A i \in 1..Len(records) : records[i] = reported

\* An application that catches an exception of Node's wrappers and calls
\* again does not have its tokens counted twice: a call that throws, before
\* or in the middle of its answer, has recorded nothing and never will.
\* Python's record() may raise after it has queued the event, and a stream
\* of Python that has raised is recorded at its end.
ThrownIsUnrecorded == wrapper \in Generators /\ thrown => records = <<>>
=============================================================================
