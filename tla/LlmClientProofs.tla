-------------------------- MODULE LlmClientProofs --------------------------
(***************************************************************************)
(* For every number of attempts and chunks and whatever the gateway says:  *)
(* the requests one use of the LLM sends and the time it sleeps are        *)
(* bounded, a stream has one ending, and nothing inside an object of       *)
(* another shape is served.                                                *)
(***************************************************************************)
EXTENDS LlmClient, TLAPS

Event == {"delta", "error", "done"}

\* Who is where: only summarize_model is in the loop, nobody has sent
\* anything at the start, and the request that asks for a JSON object leaves
\* room for the one without.
CallInv ==
    /\ op \in Ops
    /\ pc \in Running \cup Over
    /\ attempt \in 0..MaxRetries
    /\ requests \in Nat
    /\ events \in Seq(Event)
    /\ pc \in {"json_call", "plain_call", "sleep"} =>
          op = "summarize_model" /\ attempt > 0
    /\ pc = "stream" => op # "summarize_model"
    /\ pc = "start" => requests = 0 /\ attempt = 0
    /\ pc = "json_call" => requests < 2 * attempt
    /\ pc = "sleep" => attempt < MaxRetries
    /\ RequestBudget
    /\ OneEnding

LEMMA CallInit == Init => CallInv
  BY AttemptsAssumption
     DEF Init, CallInv, Ops, Local, Running, Over, RequestBudget, OneEnding, Event

\* Adding the ending of a stream that is still open.
LEMMA Ending ==
    ASSUME CallInv, pc \in {"start", "stream"}, NEW e \in {"done", "error"},
           events' = Append(events, e), pc' = "ended"
    PROVE  events' \in Seq(Event) /\ OneEnding'
  <1>1. \A i \in DOMAIN events : events[i] = "delta"
    BY DEF CallInv, OneEnding, Event
  <1>2. events \in Seq(Event)
    BY DEF CallInv
  <1> QED
    BY <1>1, <1>2 DEF OneEnding, Event

LEMMA CallStep == CallInv /\ [Next]_vars => CallInv'
  <1> SUFFICES ASSUME CallInv, [Next]_vars PROVE CallInv'
    OBVIOUS
  <1> USE AttemptsAssumption DEF Ops, Local, Running, Over
  <1>1. CASE Refuse
    <2>1. CASE op = "summarize_model"
      BY <1>1, <2>1 DEF Refuse, CallInv, RequestBudget, OneEnding
    <2>2. CASE op # "summarize_model"
      <3>1. events' \in Seq(Event) /\ OneEnding'
        BY <1>1, <2>2, Ending DEF Refuse
      <3> QED
        BY <1>1, <2>2, <3>1 DEF Refuse, CallInv, RequestBudget
    <2> QED
      BY <2>1, <2>2
  <1>2. CASE Begin
    BY <1>2 DEF Begin, Send, CallInv, RequestBudget, OneEnding
  <1>3. CASE Wake
    BY <1>3 DEF Wake, Send, CallInv, RequestBudget, OneEnding
  <1>4. ASSUME NEW r \in Reply, Answer(r) PROVE CallInv'
    <2>1. CASE Fallback(r)
      BY <2>1 DEF Fallback, CallInv, RequestBudget, OneEnding
    <2>2. CASE Return(r)
      BY <2>2 DEF Return, CallInv, RequestBudget, OneEnding
    <2>3. CASE Backoff(r)
      BY <2>3 DEF Backoff, CallInv, RequestBudget, OneEnding
    <2>4. CASE Exhausted(r) \/ Fatal(r)
      BY <2>4 DEF Exhausted, Fatal, CallInv, RequestBudget, OneEnding
    <2>5. CASE FinishStream(r)
      <3>1. events' \in Seq(Event) /\ OneEnding'
        BY <2>5, Ending DEF FinishStream
      <3> QED
        BY <2>5, <3>1 DEF FinishStream, CallInv, RequestBudget
    <2>6. CASE BreakOff(r)
      <3>1. OneEnding'
        BY <2>6 DEF BreakOff, CallInv, OneEnding, Escapes
      <3> QED
        BY <2>6, <3>1 DEF BreakOff, CallInv, RequestBudget
    <2> QED
      BY <1>4, <2>1, <2>2, <2>3, <2>4, <2>5, <2>6 DEF Answer
  <1>5. CASE Open
    BY <1>5 DEF Open, CallInv, RequestBudget, OneEnding
  <1>6. CASE Chunk
    <2>1. \A i \in DOMAIN events : events[i] = "delta"
      BY <1>6 DEF Chunk, CallInv, OneEnding, Event
    <2>2. events' \in Seq(Event) /\ \A i \in DOMAIN events' : events'[i] = "delta"
      BY <1>6, <2>1 DEF Chunk, CallInv, Event
    <2>3. OneEnding'
      BY <1>6, <2>2 DEF Chunk, OneEnding
    <2> QED
      BY <1>6, <2>2, <2>3 DEF Chunk, CallInv, RequestBudget
  <1>7. CASE StreamRaises
    <2>1. events' \in Seq(Event) /\ OneEnding'
      BY <1>7, Ending DEF StreamRaises
    <2> QED
      BY <1>7, <2>1 DEF StreamRaises, CallInv, RequestBudget
  <1>8. CASE FinishLocal
    <2>1. events' \in Seq(Event) /\ OneEnding'
      BY <1>8, Ending DEF FinishLocal
    <2> QED
      BY <1>8, <2>1 DEF FinishLocal, CallInv, RequestBudget
  <1>9. CASE Cancel
    BY <1>9 DEF Cancel, CallInv, RequestBudget, OneEnding
  <1>10. CASE UNCHANGED vars
    BY <1>10 DEF vars, CallInv, RequestBudget, OneEnding, Escapes, Parse
  <1> QED
    BY <1>1, <1>2, <1>3, <1>4, <1>5, <1>6, <1>7, <1>8, <1>9, <1>10
       DEF Next, Done

\* CallInv is an invariant.
LEMMA CallInvariance == Spec => []CallInv
  BY CallInit, CallStep, PTL DEF Spec

\* What is served went through the parser, and through _call_llm if the call
\* was awaited.
ServedUsable ==
    Served => Validates(reply) /\ (op = "summarize_model" => ~reply.cut)

LEMMA ServedStep == CallInv /\ ServedUsable /\ [Next]_vars => ServedUsable'
  <1> SUFFICES ASSUME CallInv, ServedUsable, [Next]_vars, Served'
               PROVE  Validates(reply') /\ (op' = "summarize_model" => ~reply'.cut)
    BY DEF ServedUsable, Validates
  <1>1. CASE Refuse
    BY <1>1 DEF Refuse, Served, CallInv
  <1>2. CASE Begin \/ Wake \/ Open \/ Chunk \/ Cancel
    BY <1>2 DEF Begin, Wake, Send, Open, Chunk, Cancel, Served
  <1>3. ASSUME NEW r \in Reply, Answer(r) 
        PROVE  Validates(reply') /\ (op' = "summarize_model" => ~reply'.cut)
    <2>1. CASE Fallback(r) \/ Backoff(r) \/ Exhausted(r) \/ Fatal(r) \/ BreakOff(r)
      BY <2>1 DEF Fallback, Backoff, Exhausted, Fatal, BreakOff, Served
    <2>2. CASE Return(r)
      BY <2>2 DEF Return, Usable
    <2>3. CASE FinishStream(r)
      BY <2>3 DEF FinishStream, Served, CallInv
    <2> QED
      BY <1>3, <2>1, <2>2, <2>3 DEF Answer
  <1>4. CASE StreamRaises
    BY <1>4 DEF StreamRaises, Served, CallInv
  <1>5. CASE FinishLocal
    BY <1>5 DEF FinishLocal, Served, Local
  <1>6. CASE UNCHANGED vars
    BY <1>6 DEF vars, Served, ServedUsable
  <1> QED
    BY <1>1, <1>2, <1>3, <1>4, <1>5, <1>6 DEF Next, Done

\* What CallInv leaves out of TypeOK: the seconds and the answers.
TimesOK ==
    /\ delay \in Nat
    /\ waited \in Nat
    /\ asked \in Nat
    /\ reply \in Reply \cup {NULL}

\* Every sleep is a number of seconds, whatever header the gateway sends.
LEMMA DelayType ==
    ASSUME CallInv, pc \in {"json_call", "plain_call"}, NEW r \in Reply
    PROVE  Delay(r) \in Nat
  <1>1. attempt \in 1 .. MaxRetries
    BY AttemptsAssumption DEF CallInv
  <1>2. BackoffDelay \in Nat
    <2>1. 2^(attempt - 1) \in Nat
      BY <1>1, AttemptsAssumption, PowerAssumption
    <2>. QED
      BY <2>1, BackoffAssumption DEF BackoffDelay
  <1>3. CASE HasHeader(r)
    <2>1. r \in Limited
      BY <1>3 DEF HasHeader, Reply, Written, Unusable, Broken
    <2>2. r.after \in RetryAfters
      BY <1>3, <2>1 DEF HasHeader, Limited
    <2>. QED
      BY <1>3, <2>2, HeaderAssumption DEF Delay
  <1>. QED
    BY <1>2, <1>3 DEF Delay

LEMMA TimesStep == CallInv /\ TimesOK /\ [Next]_vars => TimesOK'
  <1>. SUFFICES ASSUME CallInv, TimesOK, [Next]_vars PROVE TimesOK'
    OBVIOUS
  <1>1. CASE Refuse \/ Begin \/ Open \/ Chunk \/ StreamRaises \/ FinishLocal \/ Cancel
    <2>1. UNCHANGED <<delay, waited, asked, reply>>
      BY <1>1 DEF Refuse, Begin, Open, Chunk, StreamRaises, FinishLocal, Cancel
    <2>. QED
      BY <2>1 DEF TimesOK
  <1>2. CASE Wake
    BY <1>2 DEF Wake, TimesOK
  <1>3. ASSUME NEW r \in Reply, Answer(r) PROVE TimesOK'
    <2>1. CASE Backoff(r)
      BY <2>1, DelayType DEF Backoff, TimesOK
    <2>2. CASE \/ Fallback(r) \/ Return(r) \/ Exhausted(r) \/ Fatal(r)
               \/ FinishStream(r) \/ BreakOff(r)
      BY <2>2 DEF Fallback, Return, Exhausted, Fatal, FinishStream, BreakOff, TimesOK
    <2>. QED
      BY <1>3, <2>1, <2>2 DEF Answer
  <1>4. CASE UNCHANGED vars
    BY <1>4 DEF vars, TimesOK
  <1>. QED
    BY <1>1, <1>2, <1>3, <1>4 DEF Next, Done

\* The loop never goes round more than LLM_MAX_RETRIES times, and what it
\* sleeps and hands on is of its type.
THEOREM TypeCorrect == Spec => []TypeOK
  <1>1. Init => TimesOK
    BY DEF Init, TimesOK
  <1>2. CallInv /\ TimesOK => TypeOK
    BY DEF CallInv, TimesOK, TypeOK, Event
  <1>. QED
    BY <1>1, <1>2, TimesStep, CallInvariance, PTL DEF Spec

\* summarize_model sends at most two requests per attempt, a stream at most
\* one, for every LLM_MAX_RETRIES and every answer of the gateway.
THEOREM RequestsBounded == Spec => []RequestBudget
  <1>1. CallInv => RequestBudget
    BY DEF CallInv
  <1> QED
    BY <1>1, CallInvariance, PTL

\* A stream, however many chunks it has, yields nothing after its "done" or
\* "error", and is over without one only if it was cancelled or the parser
\* raised what summarize_stream does not expect of it.
THEOREM StreamEndsOnce == Spec => []OneEnding
  <1>1. CallInv => OneEnding
    BY DEF CallInv
  <1> QED
    BY <1>1, CallInvariance, PTL

\* Neither the awaited call nor the stream serves a part of an object of
\* another shape, whatever the model wrote, and the awaited call no text that
\* was cut off.
THEOREM ServesWholeObject == Spec => []NoInnerSummary
  <1>1. Init => ServedUsable
    BY DEF Init, ServedUsable, Served
  <1>2. ServedUsable => NoInnerSummary
    BY DEF ServedUsable, NoInnerSummary, Validates, Parse
  <1> QED
    BY <1>1, <1>2, ServedStep, CallInvariance, PTL DEF Spec

\* WaitBudget, with what the loop is about to sleep.
WaitInv ==
    /\ attempt = 0 => waited = 0
    /\ pc = "sleep" => HasHeader(reply) \/ delay = BaseBackoff * 2^(attempt - 1)
    /\ WaitBudget

\* One more attempt is one more step of the ladder.
LEMMA LadderGrows ==
    ASSUME NEW n \in 1 .. MaxRetries
    PROVE  /\ BaseBackoff * 2^(n - 1) \in Nat
           /\ BaseBackoff * (2^(n - 1) - 1) \in Int
           /\ BaseBackoff * (2^n - 1) \in Int
           /\ BaseBackoff * (2^(n - 1) - 1) + BaseBackoff * 2^(n - 1)
                 = BaseBackoff * (2^n - 1)
  <1>1. n - 1 \in 0 .. MaxRetries /\ (n - 1) + 1 = n
    BY AttemptsAssumption
  <1>. DEFINE p == 2^(n - 1)
  <1>2. p \in Nat /\ 2^n \in Nat /\ 2^n = 2 * p
    BY <1>1, AttemptsAssumption, PowerAssumption
  <1>. HIDE DEF p
  <1>3. /\ BaseBackoff * (p - 1) + BaseBackoff * p = BaseBackoff * (2 * p - 1)
        /\ BaseBackoff * p \in Nat /\ BaseBackoff * (p - 1) \in Int
        /\ BaseBackoff * (2 * p - 1) \in Int
    BY <1>2, BackoffAssumption
  <1>. QED
    BY <1>2, <1>3 DEF p

\* One step keeps the budget: the loop sleeps between two attempts, what a
\* header asked for or one step of the ladder.
LEMMA WaitStep ==
    ASSUME CallInv, TimesOK, WaitInv, [Next]_vars
    PROVE  WaitInv'
  <1>1. attempt \in 0 .. MaxRetries /\ waited \in Nat /\ delay \in Nat /\ asked \in Nat
    BY DEF CallInv, TimesOK
  <1>2. CASE Begin
    <2>1. /\ attempt = 0 /\ attempt' = 1 /\ pc' = "json_call"
          /\ waited' = waited /\ asked' = asked
      BY <1>2 DEF Begin, Send, CallInv
    <2>2. waited = 0
      BY <2>1 DEF WaitInv
    <2>3. BaseBackoff * (2^(attempt' - 1) - 1) = 0
      <3>1. 2^(1 - 1) = 1
        BY PowerAssumption
      <3>. QED
        BY <2>1, <3>1, BackoffAssumption
    <2>. QED
      BY <1>1, <2>1, <2>2, <2>3 DEF WaitInv, WaitBudget
  <1>3. CASE Wake
    <2>1. /\ attempt \in 1 .. MaxRetries /\ pc = "sleep"
          /\ attempt' = attempt + 1 /\ pc' = "json_call"
          /\ waited' = waited + delay
          /\ asked' = IF HasHeader(reply) THEN asked + delay ELSE asked
      BY <1>1, <1>3, AttemptsAssumption DEF Wake, Send, CallInv
    <2>. DEFINE b == BaseBackoff * (2^(attempt - 1) - 1)
                c == BaseBackoff * 2^(attempt - 1)
                e == BaseBackoff * (2^attempt - 1)
    <2>2. b \in Int /\ c \in Nat /\ e \in Int /\ b + c = e
      BY <2>1, LadderGrows
    <2>3. waited <= asked + b /\ (HasHeader(reply) \/ delay = c)
      BY <2>1 DEF WaitInv, WaitBudget
    <2>. HIDE DEF b, c, e
    <2>4. waited' <= asked' + e
      <3>1. CASE HasHeader(reply)
        BY <1>1, <2>1, <2>2, <2>3, <3>1
      <3>2. CASE ~HasHeader(reply)
        BY <1>1, <2>1, <2>2, <2>3, <3>2
      <3>. QED
        BY <3>1, <3>2
    <2>5. attempt' > 0 /\ attempt' # 0 /\ attempt' - 1 = attempt
      BY <2>1
    <2>. QED
      BY <2>1, <2>4, <2>5 DEF WaitInv, WaitBudget, e
  <1>4. ASSUME NEW r \in Reply, Backoff(r) PROVE WaitInv'
    <2>1. /\ UNCHANGED <<attempt, waited, asked>>
          /\ delay' = Delay(r) /\ reply' = r
      BY <1>4 DEF Backoff
    <2>2. HasHeader(reply') \/ delay' = BaseBackoff * 2^(attempt' - 1)
      BY <2>1 DEF Delay, BackoffDelay, HasHeader
    <2>. QED
      BY <2>1, <2>2 DEF WaitInv, WaitBudget, HasHeader
  <1>5. CASE UNCHANGED <<attempt, waited, asked>> /\ pc' # "sleep"
    BY <1>5 DEF WaitInv, WaitBudget
  <1>6. CASE UNCHANGED vars
    BY <1>6 DEF vars, WaitInv, WaitBudget, HasHeader
  <1>7. ASSUME NEW r \in Reply, Answer(r) PROVE WaitInv'
    <2>1. CASE \/ Fallback(r) \/ Return(r) \/ Exhausted(r) \/ Fatal(r)
               \/ FinishStream(r) \/ BreakOff(r)
      BY <1>5, <2>1 DEF Fallback, Return, Exhausted, Fatal, FinishStream, BreakOff
    <2>. QED
      BY <1>4, <1>7, <2>1 DEF Answer
  <1>8. CASE Refuse \/ Open \/ Chunk \/ StreamRaises \/ FinishLocal \/ Cancel
    BY <1>5, <1>8
    DEF Refuse, Open, Chunk, StreamRaises, FinishLocal, Cancel
  <1>. QED
    BY <1>2, <1>3, <1>6, <1>7, <1>8 DEF Next, Done

\* For every LLM_MAX_RETRIES, every base and whatever the gateway does:
\* besides what Retry-After headers ask for, n attempts sleep at most
\* base * (2^(n-1) - 1) seconds, and none after the last.
THEOREM SleepWithinBudget == Spec => []WaitBudget
  <1>1. Init => WaitInv /\ TimesOK
    BY DEF Init, WaitInv, WaitBudget, TimesOK
  <1>2. CallInv /\ TimesOK /\ WaitInv /\ [Next]_vars => WaitInv'
    BY WaitStep
  <1>3. WaitInv => WaitBudget
    BY DEF WaitInv
  <1>. QED
    BY <1>1, <1>2, <1>3, TimesStep, CallInvariance, PTL DEF Spec
=============================================================================
