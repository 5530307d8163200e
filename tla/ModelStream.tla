------------------------------ MODULE ModelStream ------------------------------
(***************************************************************************)
(* One request of a model client (model-clients.ts, native-provider-       *)
(* clients.ts, http-transport.ts): the credential, the fetch with its      *)
(* retries, and the body, an error, a JSON document or a stream of server- *)
(* sent events that is read in chunks and folded into a response.  The     *)
(* provider may stall, fail, break off or close at any point; the caller   *)
(* may abort and the request has a time-out, both of which act through a   *)
(* controller the client links to them and disposes of when it returns.    *)
(*                                                                         *)
(* Abstracted: a text is how many deltas it came in, a call's arguments    *)
(* are the parts they came in; an event on the wire is three pieces: half  *)
(* its data line, the rest of it, the blank line.  Usage, reasoning and    *)
(* names travel as the text and the arguments do and are left out.         *)
(***************************************************************************)
EXTENDS Integers, Sequences, FiniteSets, TLC, SequencesExt

CONSTANTS
  StreamClient,   \* of "openai", "anthropic", "responses", "gemini"
  StreamAnswer,   \* [text, calls, parallel, finish]: deltas of text, parts of each call's arguments,
                  \* whether these interleave, and "end", "length" or "failed"
  StreamRetries   \* policy.maxRetries

VARIABLES
  msClient, msAnswer,
  msPc,       \* idle, credential, fetch, delay, error, json, stream, done
  msAttempt,  \* retries of the fetch
  msLinked,   \* the timer is armed and the caller's signal listened to
  msCut,      \* the controller's signal: none, caller, timeout
  msAborted,  \* the caller's signal
  msGot,      \* pieces of the body that were read
  msKept,     \* where the buffer starts in them
  msSeen,     \* the events found so far, by number
  msResult    \* [kind, answer]

msVars == <<msClient, msAnswer, msPc, msAttempt, msLinked, msCut, msAborted, msGot, msKept,
            msSeen, msResult>>
msBody == <<msGot, msKept, msSeen>>

NothingRead == [text |-> 0, calls |-> <<>>, stop |-> "stop"]
Outcome(kind) == [kind |-> kind, answer |-> NothingRead]

-----------------------------------------------------------------------------
(* What the provider sends for an answer, in the dialect of the client.    *)

WireEvent(kind, index, args) == [kind |-> kind, index |-> index, args |-> args]
NoIndex == -1
Parts(n) == [p \in 1..n |-> p]

\* Anthropic and Responses number the text's block too.
CallIndex(client, a, i) ==
  IF client \in {"anthropic", "responses"} /\ a.text > 0 THEN i ELSE i - 1

\* A call is announced and its arguments follow in parts; of parallel calls
\* first all are announced, then all first parts come.
InParts(client, a) ==
  LET each == [i \in DOMAIN a.calls |->
                 <<WireEvent("call", CallIndex(client, a, i), <<>>)>>
                   \o [p \in 1..a.calls[i] |-> WireEvent("args", CallIndex(client, a, i), <<p>>)]]
      Layer(k) == LET reaches(s) == Len(s) >= k
                      long == SelectSeq(each, reaches)
                  IN  [j \in DOMAIN long |-> long[j][k]]
      depth == 1 + (IF a.calls = <<>> THEN 0 ELSE Max(Range(a.calls)))
  IN  IF a.parallel THEN FlattenSeq([k \in 1..depth |-> Layer(k)]) ELSE FlattenSeq(each)

\* Gemini, and endpoints that leave the index out, send each call whole.
WholeCalls(a) == [i \in DOMAIN a.calls |-> WireEvent("call", NoIndex, Parts(a.calls[i]))]

WireEvents(client, a) ==
  [i \in 1..a.text |-> WireEvent("text", 0, <<>>)]
    \o (IF client = "gemini" \/ (client = "openai" /\ ~a.parallel) THEN WholeCalls(a) ELSE InParts(client, a))
    \o <<WireEvent(a.finish, 0, <<>>)>>

StreamEvents == WireEvents(msClient, msAnswer)
BodyLength == 3 * Len(StreamEvents)

-----------------------------------------------------------------------------
(* What the clients make of the events: text, calls by index, stop reason. *)

PutArgs(acc, i, args) == [acc EXCEPT !.calls = (i :> args) @@ acc.calls]
ArgsAt(acc, i) == IF i \in DOMAIN acc.calls THEN acc.calls[i] ELSE <<>>
NextIndex(acc) == Cardinality(DOMAIN acc.calls)

\* A delta goes to the call at its index, or to a new one.
AddToCall(acc, e) ==
  LET i == IF e.index = NoIndex THEN NextIndex(acc) ELSE e.index
  IN  PutArgs(acc, i, ArgsAt(acc, i) \o e.args)

OpenAIStop(finish) == IF finish = "length" THEN "length" ELSE "stop"
AnthropicStop(finish) == IF finish = "length" THEN "length" ELSE "stop"

OnOpenAI(acc, e) ==
  CASE e.kind = "text" -> [acc EXCEPT !.text = @ + 1]
    [] e.kind \in {"call", "args"} -> AddToCall(acc, e)
    [] e.kind \in {"end", "length"} -> [acc EXCEPT !.stop = OpenAIStop(e.kind)]
    [] OTHER -> acc

OnAnthropic(acc, e) ==
  CASE e.kind = "text" -> [acc EXCEPT !.text = @ + 1]
    [] e.kind = "call" -> PutArgs(acc, e.index, <<>>)
    [] e.kind = "args" -> AddToCall(acc, e)
    [] e.kind \in {"end", "length"} -> [acc EXCEPT !.stop = AnthropicStop(e.kind)]
    [] OTHER -> acc

\* The last event repeats the whole output; arguments that came in parts win.
MergeOutput(acc) ==
  LET At(i) == CallIndex("responses", msAnswer, i)
      sent == {At(i) : i \in DOMAIN msAnswer.calls}
  IN  [acc EXCEPT !.calls =
         [x \in DOMAIN acc.calls \cup sent |->
            IF x \notin sent \/ ArgsAt(acc, x) # <<>> THEN acc.calls[x]
            ELSE LET i == CHOOSE i \in DOMAIN msAnswer.calls : At(i) = x IN Parts(msAnswer.calls[i])]]

OnResponses(acc, e) ==
  CASE e.kind = "text" -> [acc EXCEPT !.text = @ + 1]
    [] e.kind = "call" -> PutArgs(acc, e.index, <<>>)
    [] e.kind = "args" -> AddToCall(acc, e)
    [] e.kind = "end" -> MergeOutput(acc)
    [] e.kind = "length" -> MergeOutput([acc EXCEPT !.stop = "length"])
    [] OTHER -> [acc EXCEPT !.stop = "error"]

OnGemini(acc, e) ==
  CASE e.kind = "text" -> [acc EXCEPT !.text = @ + 1]
    [] e.kind = "call" -> PutArgs(acc, NextIndex(acc), e.args)
    [] e.kind = "length" -> [acc EXCEPT !.stop = "length"]
    [] e.kind = "failed" -> [acc EXCEPT !.stop = "error"]
    [] OTHER -> acc

\* Calls go by index; a response with calls stops for them, whatever was said.
Finalize(acc) ==
  LET order == SetToSortSeq(DOMAIN acc.calls, <)
  IN  [text  |-> acc.text,
       calls |-> [k \in DOMAIN order |-> acc.calls[order[k]]],
       stop  |-> IF order # <<>> THEN "tool_use" ELSE acc.stop]

Streamed(seen) ==
  LET On(acc, n) == CASE msClient = "openai" -> OnOpenAI(acc, StreamEvents[n])
                      [] msClient = "anthropic" -> OnAnthropic(acc, StreamEvents[n])
                      [] msClient = "responses" -> OnResponses(acc, StreamEvents[n])
                      [] msClient = "gemini" -> OnGemini(acc, StreamEvents[n])
  IN  Finalize(FoldLeft(On, NothingRead, seen))

\* The same answer as one JSON document.
JsonAnswer(stop) ==
  LET a == msAnswer
  IN  [text  |-> a.text,
       calls |-> [i \in DOMAIN a.calls |-> Parts(a.calls[i])],
       stop  |-> IF a.calls # <<>> THEN "tool_use" ELSE stop]

ParseOpenAI == JsonAnswer(OpenAIStop(msAnswer.finish))
ParseAnthropic == JsonAnswer(AnthropicStop(msAnswer.finish))
ParseResponses ==
  JsonAnswer(CASE msAnswer.finish = "length" -> "length"
               [] msAnswer.finish = "failed" -> "error"
               [] OTHER -> "stop")
ParseGemini == JsonAnswer(IF msAnswer.finish = "length" THEN "length" ELSE "stop")

ParsedJson ==
  CASE msClient = "openai" -> ParseOpenAI
    [] msClient = "anthropic" -> ParseAnthropic
    [] msClient = "responses" -> ParseResponses
    [] msClient = "gemini" -> ParseGemini

-----------------------------------------------------------------------------
StreamInit ==
  /\ msClient \in StreamClient /\ msAnswer \in StreamAnswer
  /\ msPc = "idle" /\ msAttempt = 0
  /\ msLinked = FALSE /\ msCut = "none" /\ msAborted = FALSE
  /\ msGot = 0 /\ msKept = 0 /\ msSeen = <<>>
  /\ msResult = Outcome("none")

\* The caller's signal may be aborted already when the controller is linked.
BeginRequest ==
  /\ msPc = "idle"
  /\ msPc' = "credential"
  /\ msLinked' = TRUE
  /\ \E late \in BOOLEAN :
       msAborted' = late /\ msCut' = IF late THEN "caller" ELSE "none"
  /\ UNCHANGED <<msClient, msAnswer, msAttempt, msBody, msResult>>

AbortRequest ==
  /\ msPc \notin {"idle", "done"} /\ ~msAborted
  /\ msAborted' = TRUE
  /\ msCut' = IF msLinked /\ msCut = "none" THEN "caller" ELSE msCut
  /\ UNCHANGED <<msClient, msAnswer, msPc, msAttempt, msLinked, msBody, msResult>>

RequestTimesOut ==
  /\ msLinked /\ msCut = "none"
  /\ msCut' = "timeout"
  /\ UNCHANGED <<msClient, msAnswer, msPc, msAttempt, msLinked, msAborted, msBody, msResult>>

SettleRequest(result) ==
  /\ msPc' = "done" /\ msAttempt' = 0 /\ msLinked' = FALSE
  /\ msResult' = result

GiveAnswer(answer) == SettleRequest([kind |-> "response", answer |-> answer])

\* Only the OpenAI client awaits its stream; the others return its promise, so
\* that their finally has run and their catch is past.
ClientAwaits == msPc # "stream" \/ msClient = "openai"

\* The catch: an HTTP error is thrown, an abort of the caller is a response.
ThrowError(error) ==
  SettleRequest(Outcome(IF ClientAwaits /\ msCut # "none" /\ error # "http"
                 THEN IF msAborted THEN "aborted" ELSE "timeout"
                 ELSE error))

-----------------------------------------------------------------------------
(* Until the body *)

ResolveCredential ==
  /\ msPc = "credential"
  /\ \/ msPc' = "fetch" /\ UNCHANGED <<msAttempt, msLinked, msResult>>
     \/ ThrowError("credential")
  /\ UNCHANGED <<msClient, msAnswer, msCut, msAborted, msBody>>

\* A signal that is aborted rejects the fetch, the delay and the reading.
CutRequest ==
  /\ msPc \in {"fetch", "delay", "error", "json", "stream"} /\ msCut # "none"
  /\ ThrowError("abort")
  /\ UNCHANGED <<msClient, msAnswer, msCut, msAborted, msBody>>

RetryFetch ==
  /\ msAttempt < StreamRetries
  /\ msAttempt' = msAttempt + 1 /\ msPc' = "delay"
  /\ UNCHANGED <<msLinked, msResult>>

DelayEnds ==
  /\ msPc = "delay" /\ msCut = "none"
  /\ msPc' = "fetch"
  /\ UNCHANGED <<msClient, msAnswer, msAttempt, msLinked, msCut, msAborted, msBody, msResult>>

\* A status or a failing network, worth a retry or not; the last one is thrown.
FetchFails ==
  /\ msPc = "fetch" /\ msCut = "none"
  /\ \/ RetryFetch
     \/ msPc' = "error" /\ msAttempt' = 0 /\ UNCHANGED <<msLinked, msResult>>
     \/ ThrowError("network")
  /\ UNCHANGED <<msClient, msAnswer, msCut, msAborted, msBody>>

\* Mutant: the OpenAI client does not await its stream either.
OpenBodyUnawaited(body) ==
  /\ msPc' = body /\ msAttempt' = 0
  /\ msLinked' = (body = "json")

\* The head of an answer: the reading begins, or the stream's promise is
\* returned and the controller disposed of.
OpenBody(body) ==
  /\ msPc' = body /\ msAttempt' = 0
  /\ msLinked' = (body = "json" \/ msClient = "openai")

FetchAnswers ==
  /\ msPc = "fetch" /\ msCut = "none"
  /\ \/ (\E body \in {"json", "stream"} : OpenBody(body)) /\ UNCHANGED msResult
     \/ ThrowError("no body")
  /\ UNCHANGED <<msClient, msAnswer, msCut, msAborted, msBody>>

ReadError ==
  /\ msPc = "error" /\ msCut = "none"
  /\ ThrowError("http")
  /\ UNCHANGED <<msClient, msAnswer, msCut, msAborted, msBody>>

\* A document that is not what it should be, and a fingerprint other than the
\* pinned one (OpenAI), are thrown.
ReadJson ==
  /\ msPc = "json" /\ msCut = "none"
  /\ GiveAnswer(ParsedJson) \/ ThrowError("invalid")
  /\ UNCHANGED <<msClient, msAnswer, msCut, msAborted, msBody>>

-----------------------------------------------------------------------------
(* The stream *)

\* The events that are whole in a part of the body.
WholeEvents(from, to) ==
  LET whole(e) == 3 * (e - 1) >= from /\ 3 * e <= to
  IN  SelectSeq([e \in DOMAIN StreamEvents |-> e], whole)

\* Mutant: what a chunk leaves of an event is forgotten.
SplitBufferForgetting(got) ==
  /\ msGot' = got /\ msKept' = got
  /\ msSeen' = msSeen \o WholeEvents(msKept, got)

\* consumeSse: the events the buffer holds whole are taken out of it, the rest
\* waits for the next chunk.
SplitBuffer(got) ==
  /\ msGot' = got /\ msKept' = 3 * (got \div 3)
  /\ msSeen' = msSeen \o WholeEvents(msKept, got)

ReadChunk ==
  /\ msPc = "stream" /\ msCut = "none"
  /\ \E got \in msGot + 1..BodyLength : SplitBuffer(got)
  /\ UNCHANGED <<msClient, msAnswer, msPc, msAttempt, msLinked, msCut, msAborted, msResult>>

\* The body ends: the last event may lack its blank line; half a data line is
\* no JSON, or no data line.
EndOfStream ==
  /\ msPc = "stream" /\ msCut = "none"
  /\ LET rest == msGot - msKept
     IN  \/ rest = 2 /\ msSeen' = Append(msSeen, msKept \div 3 + 1) /\ GiveAnswer(Streamed(msSeen'))
         \/ rest # 2 /\ UNCHANGED msSeen /\ GiveAnswer(Streamed(msSeen))
         \/ (rest = 1 \/ msClient = "openai") /\ UNCHANGED msSeen /\ ThrowError("invalid")
  /\ UNCHANGED <<msClient, msAnswer, msCut, msAborted, msGot, msKept>>

StreamBreaks ==
  /\ msPc = "stream" /\ msCut = "none"
  /\ ThrowError("network")
  /\ UNCHANGED <<msClient, msAnswer, msCut, msAborted, msBody>>

-----------------------------------------------------------------------------
\* Steps of the client and its timers; the rest is up to the provider.
StreamProceed == ResolveCredential \/ CutRequest \/ DelayEnds \/ RequestTimesOut

StreamNext ==
  \/ BeginRequest \/ AbortRequest \/ StreamProceed
  \/ FetchFails \/ FetchAnswers \/ ReadError \/ ReadJson
  \/ ReadChunk \/ EndOfStream \/ StreamBreaks

\* Nothing is assumed of the provider or the caller.
StreamSpec == StreamInit /\ [][StreamNext]_msVars /\ WF_msVars(StreamProceed)

-----------------------------------------------------------------------------
BodyComplete == msGot \in {0, BodyLength - 1, BodyLength} /\ msAnswer.finish # "failed"

\* A response holds what the provider sent and in its order, however the body
\* was cut into chunks: all of it when the body was read to its end, and else no
\* more than its beginning.  It is the same streamed or not
\* (model-clients.ts:592-616, native-provider-clients.ts:508-562).
AnswerIsSent ==
  LET r == msResult.answer
      sent == [i \in DOMAIN msAnswer.calls |-> Parts(msAnswer.calls[i])]
  IN  msResult.kind = "response" =>
        /\ r.text <= msAnswer.text /\ Len(r.calls) <= Len(sent)
        /\ \A i \in DOMAIN r.calls : IsPrefix(r.calls[i], sent[i])
        /\ (msSeen # <<>> /\ BodyComplete => r = ParsedJson)

\* A request returns, whatever the provider does or does not: the time-out
\* covers credential, retries, head, JSON and error bodies of every client, and
\* the stream of the one that awaits it (model-clients.ts:98-138).
RequestReturns ==
  []<>(msPc \in {"idle", "done"} \/ (msPc = "stream" /\ msClient # "openai"))

\* "Abort and time-out semantics, alike in the four protocols": the caller's
\* abort makes a response with stop reason aborted.
AbortEnds == msAborted ~> msPc = "done"
=============================================================================
