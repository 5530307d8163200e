---------------------------- MODULE MCModelStream ----------------------------
(* Answers of text only, of calls without text, of calls that interleave,  *)
(* with and without arguments.                                             *)
EXTENDS ModelStream

AnswerOf(text, calls, parallel, finish) ==
  [text |-> text, calls |-> calls, parallel |-> parallel, finish |-> finish]
MCStreamAnswers ==
  {AnswerOf(2, <<>>, FALSE, "length"), AnswerOf(1, <<>>, FALSE, "failed"),
   AnswerOf(0, <<2, 0>>, FALSE, "end"), AnswerOf(1, <<2, 2>>, TRUE, "end"),
   AnswerOf(1, <<1>>, TRUE, "failed")}
=============================================================================
