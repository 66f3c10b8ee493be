------------------------------ MODULE LlmClient ------------------------------
(***************************************************************************)
(* One summary as it is made or sent (src/api/core/llm/llm.py,             *)
(* service/summarizer.py, stream_summary of service/recording.py):         *)
(* summarize_model, which the executor awaits, or one of the three streams *)
(* the SSE endpoint iterates over: a new summary, the mock's, or the       *)
(* stored one again.  The gateway may answer anything at any time, and the *)
(* caller may cancel (lease lost, shutdown, client gone).                  *)
(*                                                                         *)
(* A text the model wrote is abstracted to what each layer of              *)
(* _parse_json_safely extracts from it: the whole text, the first fenced   *)
(* block, and the span from the first { to the last }.                     *)
(*                                                                         *)
(* An operator whose name has a suffix, like Backoff_Late, is a slip in    *)
(* the operator of that name; the runs must notice it (README, Mutants).   *)
(***************************************************************************)
EXTENDS Integers, Sequences

CONSTANTS MaxRetries,    \* LLM_MAX_RETRIES
          BaseBackoff,   \* base_backoff, in seconds
          RetryAfters,   \* values of a Retry-After header the gateway may send
          MaxChunks,     \* bound: non-empty chunks of a stream
          NULL

\* __init__ turns max_retries < 1 down: with such a setting no call and no
\* stream gets as far as its first request or event.
ASSUME AttemptsAssumption == MaxRetries \in Nat \ {0}
ASSUME BackoffAssumption == BaseBackoff \in Nat
ASSUME ChunkAssumption == MaxChunks \in Nat \ {0}
ASSUME HeaderAssumption == RetryAfters \subseteq Nat /\ NULL \notin RetryAfters
\* Powers of two (the provers know nothing of ^).
ASSUME PowerAssumption ==
    /\ 2^0 = 1
    /\ \A n \in 0 .. MaxRetries : 2^n \in Nat /\ 2^(n + 1) = 2 * 2^n

VARIABLES op,        \* which of the four is called
          pc,        \* where it is
          attempt,   \* summarize_model: the loop variable, 0 before the loop
          requests,  \* requests sent to the gateway so far
          delay,     \* what the loop is about to sleep
          waited,    \* seconds slept so far
          asked,     \* history: of these, the seconds a Retry-After asked for
          reply,     \* the last answer of the gateway
          events     \* of a stream: what it has yielded

vars == <<op, pc, attempt, requests, delay, waited, asked, reply, events>>

\* What json.loads makes of a layer: an object that is a SummaryResult, some
\* other object, nothing (no match, a JSONDecodeError, or JSON that is no
\* object), or another exception: a ValueError for an integer of too many
\* digits, a RecursionError for too deep a nesting.
Layer == {"summary", "object", "nothing", "raises"}

\* A text that is an object as a whole runs from its first { to its last }.
Texts == {x \in [whole : Layer, fence : Layer, braces : Layer] :
             x.whole \in {"summary", "object"} => x.braces = x.whole}

\* A text may have been cut off by max_tokens (finish_reason "length").
Written == [kind : {"text"}, text : Texts, cut : BOOLEAN]
Unusable == [kind : {"no_choices", "empty"}]
Limited == [kind : {"rate_limit"}, after : RetryAfters \cup {NULL}]
Broken == [kind : {"timeout", "status_5xx", "status_400", "status_4xx",
                   "unknown"}]
Reply == Written \cup Unusable \cup Limited \cup Broken

\* The streams that need no gateway.
Local == {"mock_summarize_stream", "_replay_stored_summary"}
Ops == {"summarize_model", "summarize_stream"} \cup Local
Running == {"start", "json_call", "plain_call", "sleep", "stream"}
Over == {"returned", "raised", "cancelled", "ended"}

Init ==
    /\ op \in Ops
    /\ pc = "start"
    /\ attempt = 0
    /\ requests = 0
    /\ delay = 0
    /\ waited = 0
    /\ asked = 0
    /\ reply = NULL
    /\ events = <<>>

-----------------------------------------------------------------------------
(* _parse_json_safely and model_validate.                                  *)

Parse_Last(x) ==
    IF x.braces # "nothing" THEN x.braces
    ELSE IF x.fence # "nothing" THEN x.fence ELSE x.whole

\* The first layer that gives an object decides, also when the object is
\* then not a SummaryResult; an exception that is no JSONDecodeError escapes.
Parse(x) ==
    IF x.whole # "nothing" THEN x.whole
    ELSE IF x.fence # "nothing" THEN x.fence ELSE x.braces

Validates(r) == r.kind = "text" /\ Parse(r.text) = "summary"
Escapes(r) == r.kind = "text" /\ Parse(r.text) = "raises"

\* _call_llm turns a truncated answer down before it is parsed.
Usable(r) == Validates(r) /\ ~r.cut

\* LLMParseError, ValidationError, rate limits, time-outs and lost
\* connections, 5xx.
Retriable(r) ==
    \/ r.kind = "text" /\ (r.cut \/ Parse(r.text) \in {"object", "nothing"})
    \/ r.kind \in {"no_choices", "empty", "rate_limit", "timeout", "status_5xx"}

-----------------------------------------------------------------------------
(* summarize_model.                                                        *)

\* An empty transcript, or a stream without a configured LLM: refused before
\* anything is sent.
Refuse ==
    /\ pc = "start"
    /\ \/ op = "summarize_model" /\ pc' = "raised" /\ UNCHANGED events
       \/ /\ op = "summarize_stream"
          /\ pc' = "ended"
          /\ events' = Append(events, "error")
    /\ UNCHANGED <<op, attempt, requests, delay, waited, asked, reply>>

\* The next round of the loop: _call_llm asks for a JSON object.
Send ==
    /\ attempt' = attempt + 1
    /\ requests' = requests + 1
    /\ pc' = "json_call"

Begin ==
    /\ op = "summarize_model"
    /\ pc = "start"
    /\ Send
    /\ UNCHANGED <<op, delay, waited, asked, reply, events>>

Fallback_Again(r) ==
    /\ pc \in {"json_call", "plain_call"}
    /\ r.kind = "status_400"
    /\ pc' = "plain_call"
    /\ requests' = requests + 1
    /\ reply' = r
    /\ UNCHANGED <<op, attempt, delay, waited, asked, events>>

\* A gateway that refuses response_format is asked again without it.
Fallback(r) ==
    /\ pc = "json_call"
    /\ r.kind = "status_400"
    /\ pc' = "plain_call"
    /\ requests' = requests + 1
    /\ reply' = r
    /\ UNCHANGED <<op, attempt, delay, waited, asked, events>>

Return(r) ==
    /\ pc \in {"json_call", "plain_call"}
    /\ Usable(r)
    /\ pc' = "returned"
    /\ reply' = r
    /\ UNCHANGED <<op, attempt, requests, delay, waited, asked, events>>

BackoffDelay_Doubled == BaseBackoff * 2^attempt

BackoffDelay == BaseBackoff * 2^(attempt - 1)

HasHeader(r) == r.kind = "rate_limit" /\ r.after # NULL

\* _rate_limit_delay prefers the header.
Delay(r) == IF HasHeader(r) THEN r.after ELSE BackoffDelay

Backoff_Late(r) ==
    /\ pc \in {"json_call", "plain_call"}
    /\ Retriable(r)
    /\ attempt <= MaxRetries
    /\ pc' = "sleep"
    /\ delay' = Delay(r)
    /\ reply' = r
    /\ UNCHANGED <<op, attempt, requests, waited, asked, events>>

Backoff(r) ==
    /\ pc \in {"json_call", "plain_call"}
    /\ Retriable(r)
    /\ attempt < MaxRetries
    /\ pc' = "sleep"
    /\ delay' = Delay(r)
    /\ reply' = r
    /\ UNCHANGED <<op, attempt, requests, waited, asked, events>>

\* asyncio.sleep is over and the loop goes round.
Wake ==
    /\ pc = "sleep"
    /\ waited' = waited + delay
    /\ asked' = IF HasHeader(reply) THEN asked + delay ELSE asked
    /\ delay' = 0
    /\ Send
    /\ UNCHANGED <<op, reply, events>>

Exhausted(r) ==
    /\ pc \in {"json_call", "plain_call"}
    /\ Retriable(r)
    /\ attempt = MaxRetries
    /\ pc' = "raised"
    /\ reply' = r
    /\ UNCHANGED <<op, attempt, requests, delay, waited, asked, events>>

\* Any other status and any other exception, also one of the parser.  A 400 is
\* final only when it answers the request without response_format.
Fatal(r) ==
    /\ pc \in {"json_call", "plain_call"}
    /\ ~Usable(r)
    /\ ~Retriable(r)
    /\ r.kind = "status_400" => pc = "plain_call"
    /\ pc' = "raised"
    /\ reply' = r
    /\ UNCHANGED <<op, attempt, requests, delay, waited, asked, events>>

-----------------------------------------------------------------------------
(* The streams: one request, no retry; the local ones send none.           *)

Open ==
    /\ op # "summarize_model"
    /\ pc = "start"
    /\ pc' = "stream"
    /\ requests' = IF op = "summarize_stream" THEN requests + 1 ELSE requests
    /\ UNCHANGED <<op, attempt, delay, waited, asked, reply, events>>

\* A chunk with text; chunks without are passed over.
Chunk ==
    /\ pc = "stream"
    /\ Len(events) < MaxChunks
    /\ events' = Append(events, "delta")
    /\ UNCHANGED <<op, pc, attempt, requests, delay, waited, asked, reply>>

StreamRaises_GoesOn ==
    /\ op = "summarize_stream"
    /\ pc = "stream"
    /\ events' = Append(events, "error")
    /\ UNCHANGED <<op, pc, attempt, requests, delay, waited, asked, reply>>

\* The request, or a later chunk, raises.
StreamRaises ==
    /\ op = "summarize_stream"
    /\ pc = "stream"
    /\ pc' = "ended"
    /\ events' = Append(events, "error")
    /\ UNCHANGED <<op, attempt, requests, delay, waited, asked, reply>>

\* The gateway closes the stream.  The joined text may be all blank although
\* chunks came; finish_reason is not looked at, so a text that was cut off is
\* parsed like any other.
FinishStream(r) ==
    /\ op = "summarize_stream"
    /\ pc = "stream"
    /\ r.kind \in (IF events = <<>> THEN {"empty"} ELSE {"text", "empty"})
    /\ ~Escapes(r)
    /\ pc' = "ended"
    /\ reply' = r
    /\ events' = Append(events, IF Validates(r) THEN "done" ELSE "error")
    /\ UNCHANGED <<op, attempt, requests, delay, waited, asked>>

\* What the parser raises besides LLMParseError leaves the generator.
BreakOff(r) ==
    /\ op = "summarize_stream"
    /\ pc = "stream"
    /\ events # <<>>
    /\ Escapes(r)
    /\ pc' = "raised"
    /\ reply' = r
    /\ UNCHANGED <<op, attempt, requests, delay, waited, asked, events>>

\* A fixed or a stored summary is yielded in pieces, and then as a whole.
FinishLocal ==
    /\ op \in Local
    /\ pc = "stream"
    /\ events # <<>>
    /\ pc' = "ended"
    /\ events' = Append(events, "done")
    /\ UNCHANGED <<op, attempt, requests, delay, waited, asked, reply>>

\* CancelledError and GeneratorExit are no Exception: no handler holds them.
\* A client that has gone ends event_source at the next event.
Cancel ==
    /\ pc \in Running
    /\ pc' = "cancelled"
    /\ UNCHANGED <<op, attempt, requests, delay, waited, asked, reply, events>>

Done == pc \in Over /\ UNCHANGED vars

Answer(r) ==
    \/ Fallback(r) \/ Return(r) \/ Backoff(r) \/ Exhausted(r) \/ Fatal(r)
    \/ FinishStream(r) \/ BreakOff(r)

Next ==
    \/ Refuse \/ Begin \/ Wake
    \/ \E r \in Reply : Answer(r)
    \/ Open \/ Chunk \/ StreamRaises \/ FinishLocal
    \/ Cancel \/ Done

Spec == Init /\ [][Next]_vars

-----------------------------------------------------------------------------
(* Properties.                                                             *)

\* Types; the loop never goes round more than MaxRetries times.
TypeOK ==
    /\ op \in Ops
    /\ pc \in Running \cup Over
    /\ attempt \in 0..MaxRetries
    /\ requests \in Nat
    /\ delay \in Nat
    /\ waited \in Nat
    /\ asked \in Nat
    /\ reply \in Reply \cup {NULL}
    /\ events \in Seq({"delta", "error", "done"})

\* What one use costs: each attempt of summarize_model sends one request, and
\* one more if the gateway refuses response_format; a stream sends one, and
\* none if it is the mock or repeats the stored summary.  The SDK's own retries
\* are switched off so that the two ladders do not multiply (llm.py, class
\* comment).
RequestBudget ==
    /\ op = "summarize_model" => attempt <= requests /\ requests <= 2 * attempt
    /\ op = "summarize_stream" => requests <= 1
    /\ op \in Local => requests = 0

\* How long summarize_model sleeps in all: what the gateway's Retry-After
\* headers asked for, and at most the back-off ladder base, 2*base, 4*base ...
\* between its attempts; never after the last.
WaitBudget ==
    attempt > 0 => waited <= asked + BaseBackoff * (2^(attempt - 1) - 1)

\* The gateway's last answer has been handed on as a summary.
Served ==
    \/ pc = "returned"
    \/ op = "summarize_stream" /\ pc = "ended" /\ events[Len(events)] = "done"

\* The object nearest to the whole text decides: if the whole text, or its
\* fenced block, is an object of another shape or breaks the parser, no part
\* inside it is served as the summary, neither by the awaited call nor by the
\* stream.  The awaited call serves nothing of a text that was cut off.
NoInnerSummary ==
    Served => /\ reply.kind = "text"
              /\ reply.text.whole \in {"summary", "nothing"}
              /\ reply.text.whole = "nothing" =>
                    reply.text.fence \in {"summary", "nothing"}
              /\ op = "summarize_model" => ~reply.cut

\* A stream yields deltas and then exactly one "done" or "error", after which
\* there is nothing more; one that is over without either was cancelled, or
\* is the model's own and the parser choked on what the model wrote.
OneEnding ==
    /\ \A i \in DOMAIN events : i < Len(events) => events[i] = "delta"
    /\ pc = "ended" <=> events # <<>> /\ events[Len(events)] \in {"done", "error"}
    /\ op # "summarize_model" /\ pc = "raised" =>
          op = "summarize_stream" /\ Escapes(reply)
=============================================================================
