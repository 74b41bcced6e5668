----------------------------- MODULE StreamPipe -----------------------------
(***************************************************************************)
(* What one direction of a tunnel promises to the two programs at its      *)
(* ends: a lossless, ordered byte pipe per stream.  The receiver gets a    *)
(* prefix of what was sent; it is told that the stream ended only after    *)
(* the sender ended it and every byte has arrived, unless the pipe broke.  *)
(***************************************************************************)
EXTENDS Naturals

CONSTANT Streams

VARIABLES
  sent,      \* bytes the sender has put into the pipe
  received,  \* bytes the receiver has got out of it
  ended,     \* the sender has closed its end
  eof,       \* the receiver was told that nothing more will come
  broken     \* the pipe was cut

pipeVars == <<sent, received, ended, eof, broken>>

Init ==
  /\ sent = [s \in Streams |-> 0]
  /\ received = [s \in Streams |-> 0]
  /\ ended = [s \in Streams |-> FALSE]
  /\ eof = [s \in Streams |-> FALSE]
  /\ broken = [s \in Streams |-> FALSE]

Send(s) ==
  /\ ~ended[s]
  /\ sent'[s] > sent[s]
  /\ sent' = [sent EXCEPT ![s] = sent'[s]]
  /\ UNCHANGED <<received, ended>>

End(s) ==
  /\ ended' = [ended EXCEPT ![s] = TRUE]
  /\ UNCHANGED <<sent, received>>

Receive(s) ==
  /\ ~eof[s]
  /\ \E n \in 1 .. (sent[s] - received[s]) :
       received' = [received EXCEPT ![s] = @ + n]
  /\ UNCHANGED <<sent, ended>>

\* At any step the pipe may break, a connection taking all its streams down at
\* once, and a receiver may be told the end.
Stays == UNCHANGED <<sent, received, ended>>
Breaks == \A s \in Streams : broken[s] => broken'[s]
Ends == \A s \in Streams : eof'[s] # eof[s] =>
  eof'[s] /\ (broken'[s] \/ (ended[s] /\ received[s] = sent[s]))

Next ==
  /\ Stays \/ \E s \in Streams : Send(s) \/ End(s) \/ Receive(s)
  /\ Breaks /\ broken' \in [Streams -> BOOLEAN]
  /\ Ends /\ eof' \in [Streams -> BOOLEAN]

Spec == Init /\ [][Next]_pipeVars

=============================================================================
