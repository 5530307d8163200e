------------------------------- MODULE ModelWire -------------------------------
(***************************************************************************)
(* How the model clients put a transcript into a request: the four         *)
(* dialects lay out an assistant's tool calls and their results in their   *)
(* own ways (toOpenAIMessages, toAnthropicMessages, toResponsesInput,      *)
(* toGeminiContents).  A message is a record with a role; an assistant's   *)
(* has the number of its calls, a tool's the number of the one it answers. *)
(* An item of a request is the calls it holds and the results it holds.    *)
(* Its place is the number of the message it begins with, and how many     *)
(* items of that message come before it.                                   *)
(***************************************************************************)
EXTENDS Integers, Sequences, FiniteSets

Dialect == {"openai", "anthropic", "responses", "gemini"}

Item(role, uses, results) == [role |-> role, uses |-> uses, results |-> results]
CallsOf(m) == IF m.role = "assistant" THEN [k \in 1..m.calls |-> k] ELSE <<>>
ResultsOf(m) == IF m.role = "tool" THEN <<m.call>> ELSE <<>>

\* One item for each message.
ToOpenAI(messages) ==
  [p \in (DOMAIN messages) \X {0} |->
     LET m == messages[p[1]] IN Item(m.role, CallsOf(m), ResultsOf(m))]

ToGemini(messages) ==
  [p \in (DOMAIN messages) \X {0} |->
     LET m == messages[p[1]]
     IN  Item(IF m.role = "assistant" THEN "model" ELSE "user", CallsOf(m), ResultsOf(m))]

\* The calls of an assistant are items of their own after its text.
ToResponses(messages) ==
  LET Places(i) == {i} \X (0..Len(CallsOf(messages[i])))
  IN  [p \in UNION {Places(i) : i \in DOMAIN messages} |->
         LET m == messages[p[1]]
         IN  IF p[2] = 0 THEN Item(m.role, <<>>, ResultsOf(m)) ELSE Item("call", <<p[2]>>, <<>>)]

\* Results that follow one another are one message of the user.
ToAnthropic(messages) ==
  LET IsTool(i) == i \in DOMAIN messages /\ messages[i].role = "tool"
      heads == {i \in DOMAIN messages : ~(IsTool(i) /\ IsTool(i - 1))}
      Run(i) == {j \in DOMAIN messages : j >= i /\ \A h \in i..j : IsTool(h)}
      Results(i) == [n \in 1..Cardinality(Run(i)) |-> messages[i + n - 1].call]
  IN  [p \in heads \X {0} |->
         LET m == messages[p[1]]
         IN  Item(IF m.role = "tool" THEN "user" ELSE m.role, CallsOf(m), Results(p[1]))]

Wire(dialect, messages) ==
  CASE dialect = "openai" -> ToOpenAI(messages)
    [] dialect = "anthropic" -> ToAnthropic(messages)
    [] dialect = "responses" -> ToResponses(messages)
    [] dialect = "gemini" -> ToGemini(messages)

-----------------------------------------------------------------------------
(* What the providers require, known from the comments of agent.ts and     *)
(* context.ts: a call is answered, once, before anything else is said; in  *)
(* Anthropic's dialect all calls of a message by the message after it.     *)

Precedes(p, q) == p[1] < q[1] \/ (p[1] = q[1] /\ p[2] < q[2])

Answered(items) ==
  LET \* Whoever speaks says something before calling.
      Says(p) == items[p].results = <<>> /\ items[p].role # "call"
      SaidBetween(p, q) == \E h \in DOMAIN items : Precedes(p, h) /\ Precedes(h, q) /\ Says(h)
      uses == UNION {{p} \X DOMAIN items[p].uses : p \in DOMAIN items}
      results == UNION {{q} \X DOMAIN items[q].results : q \in DOMAIN items}
      Answers(u, r) == /\ items[u[1]].uses[u[2]] = items[r[1]].results[r[2]]
                       /\ Precedes(u[1], r[1]) /\ ~SaidBetween(u[1], r[1])
      One(S) == \E x \in S : S = {x}
  IN  /\ \A u \in uses : One({r \in results : Answers(u, r)})
      /\ \A r \in results : One({u \in uses : Answers(u, r)})

AnsweredAtOnce(items) ==
  LET Follows(p, q) == Precedes(p, q) /\ ~\E h \in DOMAIN items : Precedes(p, h) /\ Precedes(h, q)
      Answers(p, q) == Follows(p, q) /\ items[p].uses = items[q].results
  IN  /\ \A p \in DOMAIN items : items[p].uses # <<>> => \E q \in DOMAIN items : Answers(p, q)
      /\ \A q \in DOMAIN items : items[q].results # <<>> => \E p \in DOMAIN items : Answers(p, q)

Accepted(dialect, messages) ==
  LET items == Wire(dialect, messages)
  IN  IF dialect = "anthropic" THEN AnsweredAtOnce(items) ELSE Answered(items)
=============================================================================
