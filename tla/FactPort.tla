------------------------------- MODULE FactPort -------------------------------
(***************************************************************************)
(* What FocusKernel relies on from a store behind FactPort                 *)
(* (contracts/src/ports.ts): a log that grows at its end, where an append  *)
(* that was acknowledged stays readable, at the seq it was given, through  *)
(* any crash.                                                              *)
(***************************************************************************)
EXTENDS Integers, Sequences

VARIABLES
  readable,  \* what loadEvents returns: the numbers of the appends, in order
  acked      \* [seq, call] of every event whose append returned

vars == <<readable, acked>>

Init == readable = <<>> /\ acked = {}

\* Events of one new append become readable at the end of the log.
Extend ==
  /\ Len(readable') > Len(readable)
  /\ SubSeq(readable', 1, Len(readable)) = readable
  /\ \A i \in 1..Len(readable), j \in Len(readable) + 1..Len(readable') :
       /\ readable'[j] # readable[i]
       /\ readable'[j] = readable'[Len(readable) + 1]
  /\ UNCHANGED acked

\* An append returns; its events are where the acknowledgement says.
Acknowledge ==
  /\ acked \subseteq acked'
  /\ \A e \in acked' \ acked :
       e.seq \in 1..Len(readable) /\ readable[e.seq] = e.call
  /\ UNCHANGED readable

\* A crash may take back events whose append did not return, from the end.
Forget ==
  /\ \E n \in 0..Len(readable) :
       /\ \A e \in acked : e.seq <= n
       /\ readable' = SubSeq(readable, 1, n)
  /\ UNCHANGED acked

Next == Extend \/ Acknowledge \/ Forget

Spec == Init /\ [][Next]_vars
=============================================================================
