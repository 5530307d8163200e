------------------------------- MODULE AgentTurn -------------------------------
(***************************************************************************)
(* CodingAgent.submit() and runTool() of agent-runtime/src/agent.ts with   *)
(* its SteeringQueue: the loop of model rounds that answers one prompt,    *)
(* while the user steers it, takes steering back or aborts it.             *)
(*                                                                         *)
(* Modelled: every append to the session in its order, the three places    *)
(* where steering is delivered, both delivery modes, the interruption of   *)
(* the model call, compaction, the rejection of truncated output, the      *)
(* doom-loop stop and the bound on rounds.  A step runs from one await to  *)
(* the next; the user acts between any two.                                *)
(*                                                                         *)
(* Abstracted: a message is its role and what its place in the transcript  *)
(* depends on; what is compacted is chosen freely (the code goes by token  *)
(* counts); the calls of a round run in one step, for nothing else reads   *)
(* what they do; a fingerprint is whether it repeats the last one.  Not    *)
(* modelled: SpecEngine.clarify, which may rewrite the prompt before the   *)
(* turn, usage, and the event stream.                                      *)
(***************************************************************************)
EXTENDS ModelWire, SequencesExt

CONSTANTS
  MaxRounds,      \* agent.maxRounds
  MaxQueue,       \* steeringMaximum, 32 by default
  MaxCalls,       \* tool calls in one response, 16 in the code
  DoomThreshold,  \* DOOM_LOOP_THRESHOLD
  MaxPrompts,     \* bound: prompts
  MaxTools,       \* bound: tools the user runs
  MaxItems,       \* bound: steering items
  MaxCompactions  \* bound: compactions

VARIABLES
  delivery,    \* steeringDelivery
  transcript,  \* the messages of the session's active branch
  cut,         \* how many of them the compaction stands for
  queue,       \* SteeringQueue.items
  accepted,    \* items steer() took; an item's number is its id
  removed,     \* items unsteer() took back
  pc,          \* where submit() is
  next,        \* where it goes when the drained items are written
  drained,     \* items taken from the queue, not yet written
  round,       \* the round of the loop
  aborted,     \* the turn's AbortController
  cutShort,    \* the model call's AbortController
  calls,       \* calls of the last response
  stopped,     \* the response's stop reason, in the end why the turn stops
  truncated,   \* the response's calls were cut off by the token limit
  written,     \* results written for those calls
  doomed,      \* doomLoopCount
  threw,       \* a turn has thrown between a response's calls and their results
  prompts,     \* prompts so far
  tools,       \* tools the user ran so far
  compactions  \* compactions so far

answerVars == <<calls, truncated, written>>
loopVars == <<next, drained, round, answerVars, stopped, doomed>>
userVars == <<accepted, removed, prompts, tools>>
vars == <<delivery, transcript, cut, queue, accepted, removed, pc, next, drained,
          round, aborted, cutShort, calls, stopped, truncated, written, doomed, threw,
          prompts, tools, compactions>>

Mode == {"append", "interrupt", "follow-up"}

-----------------------------------------------------------------------------
(* Messages.  `item' is the steering item a user message delivers, 0 for a *)
(* prompt; `calls' the number of tool calls of an assistant message, and   *)
(* `call' the one a tool message answers.                                  *)

User(item, mode) == [role |-> "user", item |-> item, mode |-> mode]
Prompt == User(0, "prompt")
Assistant(n) == [role |-> "assistant", calls |-> n]
Result(k) == [role |-> "tool", call |-> k]

-----------------------------------------------------------------------------
(* SteeringQueue *)

\* What a sequence has at some of its places, in order.
Sifted(s, places) ==
  LET Rank(i) == Cardinality({j \in places : j <= i})
  IN  [n \in 1..Cardinality(places) |-> s[CHOOSE i \in places : Rank(i) = n]]

\* drain and drainOne: the items of some modes, or the first of them, leave the
\* queue.
Take(modes) ==
  LET wanted == {i \in DOMAIN queue : queue[i].mode \in modes}
      first == {i \in wanted : \A j \in wanted : i <= j}
      due == IF delivery = "one-at-a-time" THEN first ELSE wanted
  IN  drained' = Sifted(queue, due) /\ queue' = Sifted(queue, DOMAIN queue \ due)

-----------------------------------------------------------------------------
Init ==
  /\ delivery \in {"all", "one-at-a-time"}
  /\ transcript = <<>> /\ cut = 0
  /\ queue = <<>> /\ accepted = 0 /\ removed = {}
  /\ pc = "idle" /\ next = "idle"
  /\ drained = <<>>
  /\ round = 0
  /\ aborted = FALSE /\ cutShort = FALSE
  /\ calls = 0 /\ stopped = "stop" /\ truncated = FALSE /\ written = 0
  /\ doomed = 0 /\ threw = FALSE
  /\ prompts = 0 /\ tools = 0 /\ compactions = 0

Write(message) == transcript' = Append(transcript, message)

\* The finally block of submit() and runTool().
Leave ==
  /\ pc' = "idle" /\ next' = "idle"
  /\ drained' = <<>>
  /\ round' = 0
  /\ aborted' = FALSE /\ cutShort' = FALSE
  /\ calls' = 0 /\ stopped' = "stop" /\ truncated' = FALSE /\ written' = 0
  /\ doomed' = 0

-----------------------------------------------------------------------------
(* The user *)

\* submit(): one turn at a time.
Submit ==
  /\ pc = "idle" /\ prompts < MaxPrompts
  /\ prompts' = prompts + 1
  /\ pc' = "prompt"
  /\ UNCHANGED <<delivery, threw, transcript, cut, queue, accepted, removed, loopVars,
                 tools, aborted, cutShort, compactions>>

\* steer(): an interruption also ends the model call, if one is running.
Steer ==
  /\ pc # "idle"
  /\ accepted < MaxItems /\ Len(queue) < MaxQueue
  /\ \E mode \in Mode :
       /\ queue' = Append(queue, [id |-> accepted + 1, mode |-> mode])
       /\ cutShort' = (cutShort \/ (mode = "interrupt" /\ pc = "complete"))
  /\ accepted' = accepted + 1
  /\ UNCHANGED <<delivery, threw, transcript, cut, removed, pc, loopVars, aborted, prompts,
                 tools, compactions>>

\* unsteer(): any item that is still queued.
Unsteer ==
  /\ \E i \in DOMAIN queue :
       /\ removed' = removed \cup {queue[i].id}
       /\ queue' = Sifted(queue, DOMAIN queue \ {i})
  /\ UNCHANGED <<delivery, threw, transcript, cut, accepted, pc, loopVars, aborted,
                 cutShort, prompts, tools, compactions>>

\* abort(): reaches the model call through its parent controller.
Abort ==
  /\ pc # "idle" /\ ~aborted
  /\ aborted' = TRUE
  /\ cutShort' = (cutShort \/ pc = "complete")
  /\ UNCHANGED <<delivery, threw, transcript, cut, queue, accepted, removed, pc, loopVars,
                 prompts, tools, compactions>>

-----------------------------------------------------------------------------
(* The loop of rounds *)

RoundLeft == round <= MaxRounds

\* `continue', and the end of the loop's body.  Of the response, the end of the
\* loop reads only whether it was an error.
NextRound ==
  /\ pc' = "top"
  /\ calls' = 0 /\ truncated' = FALSE /\ written' = 0
  /\ stopped' = IF stopped = "error" THEN "error" ELSE "stop"
  /\ round' = round + 1

WritePrompt ==
  /\ pc = "prompt"
  /\ Write(Prompt)
  /\ round' = 1
  /\ pc' = "top"
  /\ UNCHANGED <<delivery, threw, cut, queue, userVars, next, drained, aborted, cutShort,
                 answerVars, stopped, doomed, compactions>>

\* The loop is over: its bound is reached, or the turn was aborted.
LeaveLoop ==
  /\ pc = "top"
  /\ ~RoundLeft \/ aborted
  /\ stopped' = IF stopped = "error" THEN "error"
                ELSE IF aborted THEN "aborted" ELSE "max_rounds"
  /\ pc' = "close"
  /\ UNCHANGED <<delivery, threw, transcript, cut, queue, userVars, next, drained, round,
                 aborted, cutShort, answerVars, doomed, compactions>>

\* A round begins with the steering that waits for one.
StartRound ==
  /\ pc = "top"
  /\ RoundLeft /\ ~aborted
  /\ Take({"append", "interrupt"})
  /\ pc' = "deliver" /\ next' = "compact"
  /\ UNCHANGED <<delivery, threw, transcript, cut, userVars, round, aborted, cutShort,
                 answerVars, stopped, doomed, compactions>>

\* applySteering: one message per item; a follow-up, or an interruption, then
\* opens a new round.
DeliverItem ==
  /\ pc = "deliver" /\ drained # <<>>
  /\ Write(User(drained[1].id,
                IF drained[1].mode = "follow-up" THEN "follow-up" ELSE "steer"))
  /\ drained' = Tail(drained)
  /\ UNCHANGED <<delivery, threw, cut, queue, userVars, pc, next, round, aborted, cutShort,
                 answerVars, stopped, doomed, compactions>>

Delivered ==
  /\ pc = "deliver" /\ drained = <<>>
  /\ IF next = "top" THEN NextRound ELSE pc' = next /\ UNCHANGED <<answerVars, round, stopped>>
  /\ UNCHANGED <<delivery, threw, transcript, cut, queue, userVars, next, drained, aborted,
                 cutShort, doomed, compactions>>

\* Mutant: the split is left where the token count puts it.
SplitAnywhere(split) == split

\* adjustSplitForToolPairs: a split does not part results from their call.
Split(split) ==
  Max({s \in 0..split : s = 0 \/ transcript[s + 1].role # "tool"})

\* autoCompact: the messages before some split are summarized.
Compact ==
  /\ pc = "compact"
  /\ compactions < MaxCompactions
  /\ \E split \in 1..Len(transcript) - 1 :
       Split(split) > 0 /\ cut' = Split(split)
  /\ compactions' = compactions + 1
  /\ pc' = "complete"
  /\ cutShort' = aborted
  /\ UNCHANGED <<delivery, threw, transcript, queue, userVars, loopVars, aborted>>

CallModel ==
  /\ pc = "compact"
  /\ pc' = "complete"
  /\ cutShort' = aborted
  /\ UNCHANGED <<delivery, threw, transcript, cut, queue, userVars, loopVars, aborted,
                 compactions>>

Interrupted == cutShort /\ ~aborted /\ queue # <<>>

\* Mutant: the call is made again, with the controller that was aborted.
DropResponseRetrying ==
  /\ pc = "complete" /\ Interrupted
  /\ Take({"append", "interrupt"})
  /\ pc' = "deliver" /\ next' = "complete"
  /\ UNCHANGED <<delivery, threw, transcript, cut, userVars, round, aborted, cutShort,
                 answerVars, stopped, doomed, compactions>>

\* The call was cut short by steering: whatever it returned is dropped.
DropResponse ==
  /\ pc = "complete" /\ Interrupted
  /\ Take({"append", "interrupt"})
  /\ pc' = "deliver" /\ next' = "top"
  /\ UNCHANGED <<delivery, threw, transcript, cut, userVars, round, aborted, cutShort, answerVars,
                 stopped, doomed, compactions>>

\* The clients of the providers, and extractPromptToolCalls for calls that are
\* written in the text: a response with native calls always says that it stops
\* for them.
StopReason(n, native, cutOff) ==
  IF n > 0 /\ native THEN "tool_use" ELSE IF cutOff THEN "length" ELSE "stop"

\* The response is recorded.  A call cut short answers with nothing, or had
\* its answer already; a client that fails softly answers "error".
Respond ==
  /\ pc = "complete" /\ ~Interrupted
  /\ \/ \E n \in 0..MaxCalls, native, cutOff \in BOOLEAN :
          /\ Write(Assistant(n))
          /\ calls' = n
          /\ stopped' = StopReason(n, native, cutOff)
          /\ truncated' = (cutOff /\ n > 0)
     \/ /\ Write(Assistant(0))
        /\ calls' = 0 /\ stopped' = "error" /\ truncated' = FALSE
  /\ pc' = "check"
  /\ UNCHANGED <<delivery, threw, cut, queue, userVars, next, drained, round, aborted,
                 cutShort, written, doomed, compactions>>

\* The model's client throws, and submit() with it.
ModelFails ==
  /\ pc = "complete" /\ ~Interrupted
  /\ Leave
  /\ UNCHANGED <<delivery, threw, transcript, cut, queue, userVars, compactions>>

OnlyFollowUps == \A i \in 1..Len(queue) : queue[i].mode = "follow-up"

\* No calls, and nothing is queued: the turn is over.
NothingLeft ==
  /\ pc = "check" /\ calls = 0 /\ queue = <<>>
  /\ pc' = "finish"
  /\ UNCHANGED <<delivery, threw, transcript, cut, queue, userVars, loopVars, aborted,
                 cutShort, compactions>>

\* No calls, and only follow-ups are queued: they are delivered.
FollowUp ==
  /\ pc = "check" /\ calls = 0 /\ queue # <<>> /\ OnlyFollowUps
  /\ Take({"follow-up"})
  /\ pc' = "deliver" /\ next' = "top"
  /\ doomed' = 0
  /\ UNCHANGED <<delivery, threw, transcript, cut, userVars, round, aborted, cutShort, answerVars,
                 stopped, compactions>>

\* No calls, but steering waits for the next round.
SteeringLeft ==
  /\ pc = "check" /\ calls = 0 /\ ~OnlyFollowUps
  /\ NextRound
  /\ doomed' = 0
  /\ UNCHANGED <<delivery, threw, transcript, cut, queue, userVars, next, drained, aborted,
                 cutShort, compactions>>

\* Calls in a truncated output are rejected, the others run.
HandleCalls ==
  /\ pc = "check" /\ calls > 0
  /\ pc' = IF stopped = "length" THEN "reject" ELSE "execute"
  /\ UNCHANGED <<delivery, threw, transcript, cut, queue, userVars, loopVars, aborted,
                 cutShort, compactions>>

\* A rejected call is answered too.
RejectCall ==
  /\ pc = "reject"
  /\ Write(Result(written + 1))
  /\ IF written + 1 < calls
     THEN written' = written + 1 /\ UNCHANGED <<pc, calls, truncated, round, stopped>>
     ELSE NextRound
  /\ UNCHANGED <<delivery, threw, cut, queue, userVars, next, drained, aborted, cutShort,
                 doomed, compactions>>

\* executeCalls: in the end all of them failed, as the last time or not, or
\* some did not.
Execute ==
  /\ pc = "execute"
  /\ doomed' \in {0, 1} \cup (IF doomed > 0 THEN {doomed + 1} ELSE {})
  /\ pc' = "record"
  /\ UNCHANGED <<delivery, threw, transcript, cut, queue, userVars, next, drained, round,
                 aborted, cutShort, answerVars, stopped, compactions>>

\* A tool's hooks or the event sink throw: submit() throws, no result is written.
ExecuteFails ==
  /\ pc = "execute"
  /\ threw' = TRUE
  /\ Leave
  /\ UNCHANGED <<delivery, transcript, cut, queue, userVars, compactions>>

\* The results are written in the order of the calls; then the doom loop is
\* looked for.
RecordResult ==
  /\ pc = "record"
  /\ Write(Result(written + 1))
  /\ \/ /\ written + 1 < calls
        /\ written' = written + 1
        /\ UNCHANGED <<pc, calls, truncated, round, stopped>>
     \/ /\ written + 1 = calls /\ doomed < DoomThreshold
        /\ NextRound
     \/ /\ written + 1 = calls /\ doomed >= DoomThreshold
        /\ stopped' = "error"
        /\ pc' = "close"
        /\ UNCHANGED <<answerVars, round>>
  /\ UNCHANGED <<delivery, threw, cut, queue, userVars, next, drained, aborted, cutShort,
                 doomed, compactions>>

\* The message that says why the loop ended.
Close ==
  /\ pc = "close"
  /\ Write(Assistant(0))
  /\ pc' = "finish"
  /\ UNCHANGED <<delivery, threw, cut, queue, userVars, loopVars, aborted, cutShort,
                 compactions>>

\* finish(): the last events are emitted, then the turn is left.
Finish ==
  /\ pc = "finish"
  /\ Leave
  /\ UNCHANGED <<delivery, threw, transcript, cut, queue, userVars, compactions>>

-----------------------------------------------------------------------------
(* runTool(): a tool the user runs leaves a call and a result behind. *)

RunTool ==
  /\ pc = "idle" /\ tools < MaxTools
  /\ tools' = tools + 1
  /\ pc' = "userTool"
  /\ UNCHANGED <<delivery, threw, transcript, cut, queue, accepted, removed, loopVars,
                 prompts, aborted, cutShort, compactions>>

WriteUserTool ==
  /\ pc = "userTool"
  /\ Write(Prompt)
  /\ pc' = "userCall"
  /\ UNCHANGED <<delivery, threw, cut, queue, userVars, loopVars, aborted, cutShort,
                 compactions>>

WriteUserCall ==
  /\ pc = "userCall"
  /\ Write(Assistant(1))
  /\ pc' = "userResult"
  /\ UNCHANGED <<delivery, threw, cut, queue, userVars, loopVars, aborted, cutShort,
                 compactions>>

\* The result, or the error, of the tool.
WriteUserResult ==
  /\ pc = "userResult"
  /\ Write(Result(1))
  /\ Leave
  /\ UNCHANGED <<delivery, threw, cut, queue, userVars, compactions>>

-----------------------------------------------------------------------------
\* What the agent does on its own.
Proceed ==
  \/ WritePrompt \/ LeaveLoop \/ StartRound \/ DeliverItem \/ Delivered
  \/ Compact \/ CallModel \/ DropResponse \/ Respond \/ ModelFails
  \/ NothingLeft \/ FollowUp \/ SteeringLeft \/ HandleCalls \/ RejectCall
  \/ Execute \/ ExecuteFails \/ RecordResult \/ Close \/ Finish
  \/ WriteUserTool \/ WriteUserCall \/ WriteUserResult

Next == Submit \/ RunTool \/ Steer \/ Unsteer \/ Abort \/ Proceed

Spec == Init /\ [][Next]_vars

\* The model's client has a timeout, and every other await is on a local call.
FairSpec == Spec /\ WF_vars(Proceed)

-----------------------------------------------------------------------------
(* Properties *)

Point ==
  { "idle", "prompt", "top", "deliver", "compact", "complete", "check",
    "reject", "execute", "record", "close", "finish", "userTool", "userCall",
    "userResult" }

Message ==
  [role : {"user"}, item : 0..MaxItems, mode : {"prompt", "steer", "follow-up"}]
    \cup [role : {"assistant"}, calls : 0..MaxCalls]
    \cup [role : {"tool"}, call : 1..MaxCalls]

TypeOK ==
  /\ Range(transcript) \subseteq Message
  /\ cut \in 0..Len(transcript)
  /\ Range(queue) \cup Range(drained) \subseteq [id : 1..MaxItems, mode : Mode]
  /\ Len(queue) <= MaxQueue
  /\ accepted \in 0..MaxItems /\ removed \subseteq 1..MaxItems
  /\ pc \in Point /\ next \in {"idle", "compact", "top"}
  /\ round \in 0..MaxRounds + 1
  /\ {aborted, cutShort} \subseteq BOOLEAN
  /\ calls \in 0..MaxCalls /\ written \in 0..MaxCalls
  /\ truncated \in BOOLEAN /\ threw \in BOOLEAN
  /\ stopped \in {"stop", "tool_use", "length", "aborted", "max_rounds", "error"}
  /\ doomed \in 0..DoomThreshold

Sent == SubSeq(transcript, cut + 1, Len(transcript))

\* What the model is sent is well formed in each dialect, however calls, rejections,
\* compactions, interruptions and user tools came before, if no turn threw
\* while its calls ran: providers refuse a request that is not
\* (agent.ts:853-855, context.ts:364-368).
SentPaired ==
  pc = "complete" /\ ~threw => \A dialect \in Dialect : Accepted(dialect, Sent)

\* The messages that deliver an item of the queue.
Delivering ==
  {i \in DOMAIN transcript : transcript[i].role = "user" /\ transcript[i].item > 0}

\* Every item steer() took is in one place: queued, taken back, about to be
\* written, or in the transcript, and there once.  None is lost in the
\* interruption of a model call or the end of a turn (agent.ts:489-512,
\* 1177-1198).
SteeringAccounted ==
  LET ids(s) == {s[i].id : i \in DOMAIN s}
  IN  /\ 1..accepted = ids(queue) \cup ids(drained) \cup removed
                          \cup {transcript[i].item : i \in Delivering}
      /\ accepted = Len(queue) + Len(drained) + Cardinality(removed) + Cardinality(Delivering)

IsFollowUp(message) == message.role = "user" /\ message.mode = "follow-up"

\* A follow-up waits until the model has nothing more to do: the message before
\* it is an answer without calls, or another follow-up.
FollowsUp(i) ==
  i > 1 /\ (transcript[i - 1] = Assistant(0) \/ IsFollowUp(transcript[i - 1]))

\* Steering reaches the model in the order in which it was given, and a
\* follow-up only when the model is done: those are in order among themselves
\* (steering.ts:32-47, agent.ts:542-549).
SteeringInOrder ==
  /\ \A i, j \in Delivering :
       i < j /\ IsFollowUp(transcript[i]) = IsFollowUp(transcript[j])
       => transcript[i].item < transcript[j].item
  /\ \A i \in DOMAIN transcript : IsFollowUp(transcript[i]) => FollowsUp(i)

\* Nothing the user steers with is lost, doubled or out of its turn.
SteeringSound == SteeringAccounted /\ SteeringInOrder

\* What goes into the transcript, by whom and when, and what of it is sent.
TranscriptSound == SentPaired /\ SteeringSound

\* A prompt is done with, whatever the user does meanwhile.
TurnEnds == []<>(pc = "idle")

-----------------------------------------------------------------------------
(* What the documents say and the code does not do. *)

\* No call runs whose arguments the token limit may have cut off
\* (agent.ts:564-570, test/truncation-rejection.test.ts:53-98).
TruncatedNeverRuns == pc \in {"execute", "record"} => ~truncated
=============================================================================
