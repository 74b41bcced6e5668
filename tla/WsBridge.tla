------------------------------ MODULE WsBridge ------------------------------
(***************************************************************************)
(* One tunnel of the TCP transport once it is up: at each end a            *)
(* copy_bidirectional between a local socket and a WsByteStream (ws.rs),   *)
(* and between the ends the frames of the WebSocket.  The end "client" is  *)
(* the task of client.rs, "server" the task handle_request spawns.         *)
(*                                                                         *)
(* WebSocket has no half-close: the end of one direction is a Close frame, *)
(* after which the receiver of the frame can send nothing more.            *)
(***************************************************************************)
EXTENDS Naturals, Sequences

CONSTANTS
  COPY_BUF,   \* the buffer of a copy, in bytes
  NetCap,     \* frames between the ends before a write is pending
  MaxBytes,   \* bound: bytes the program at an end sends, per end
  Failures    \* what may go wrong: subset of BridgeFailures and others

End == {"client", "server"}
Other(e) == IF e = "client" THEN "server" ELSE "client"
BridgeFailures == {"local", "net"}

ASSUME BridgeAssumption ==
  /\ COPY_BUF \in Nat \ {0}
  /\ NetCap \in Nat \ {0}
  /\ MaxBytes \in [End -> Nat]

VARIABLES
  pc,       \* where the task of an end is
  up,       \* local socket to WebSocket: "copy", "eof" (read), "done"
  down,     \* WebSocket to local socket: the same
  read,     \* bytes the copy has read from the local socket
  wrote,    \* bytes the copy has written to it
  out,      \* tungstenite: data frames written and not flushed
  ws,       \* tungstenite: state of the closing handshake
  read_buf, \* WsByteStream: what is left of the last frame
  held,     \* copy: bytes read from the WebSocket and not yet written
  net,      \* frames and the end of the transport on their way from an end
  fault     \* something failed that no end of the tunnel caused

bridgeVars == <<pc, up, down, read, wrote, out, ws, read_buf, held, net, fault>>

\* A frame is the number of its bytes; 0 is a Close frame, End of stream Fin.
Close == 0
Fin == COPY_BUF + 1
Frame == 0 .. COPY_BUF + 1

Over == {"done", "failed"}

BridgeInit ==
  /\ up = [e \in End |-> "copy"]
  /\ down = [e \in End |-> "copy"]
  /\ read = [e \in End |-> 0]
  /\ wrote = [e \in End |-> 0]
  /\ out = [e \in End |-> <<>>]
  /\ ws = [e \in End |-> "Active"]
  /\ read_buf = [e \in End |-> 0]
  /\ held = [e \in End |-> 0]
  /\ net = [e \in End |-> <<>>]
  /\ fault = FALSE

-----------------------------------------------------------------------------

Room(e) == Len(net[e]) < NetCap

\* The task returns: the socket and the WebSocket are dropped, without a Close
\* frame and without what was not flushed.
Drop(e, how) ==
  /\ pc' = [pc EXCEPT ![e] = how]
  /\ net' = [net EXCEPT ![e] = Append(@, Fin)]

\* poll_read of the local socket and the poll_write it leads to: one Binary
\* frame.  tungstenite refuses data once a Close frame was sent or received,
\* and that ends the copy of both directions.
CopyUp(e) ==
  /\ up[e] = "copy"
  /\ Len(out[e]) < NetCap
  /\ \E n \in 1 .. COPY_BUF :
       /\ read[e] + n <= MaxBytes[e]
       /\ read' = [read EXCEPT ![e] = @ + n]
       /\ IF ws[e] = "Active"
          THEN out' = [out EXCEPT ![e] = Append(@, n)] /\ UNCHANGED <<pc, net>>
          ELSE Drop(e, "failed") /\ UNCHANGED out
  /\ UNCHANGED <<up, down, wrote, ws, read_buf, held, fault>>

\* poll_flush after data, frame by frame; the reply to a Close frame goes out
\* behind the last one.
FlushFrame(e) ==
  /\ out[e] # <<>>
  /\ Room(e)
  /\ out' = [out EXCEPT ![e] = Tail(@)]
  /\ IF Tail(out[e]) = <<>> /\ ws[e] = "ClosedByPeer"
     THEN /\ net' = [net EXCEPT ![e] = @ \o <<Head(out[e]), Close>>]
          /\ ws' = [ws EXCEPT ![e] = "Closed"]
     ELSE /\ net' = [net EXCEPT ![e] = Append(@, Head(out[e]))]
          /\ UNCHANGED ws
  /\ UNCHANGED <<pc, up, down, read, wrote, read_buf, held, fault>>

\* Mutant: no flush while the local socket has nothing more to read.
FlushOutAtEnd(e) == up[e] = "eof" /\ FlushFrame(e)

FlushOut(e) == up[e] # "done" /\ FlushFrame(e)

\* The local program ends its side.
ReadEof(e) ==
  /\ up[e] = "copy"
  /\ up' = [up EXCEPT ![e] = "eof"]
  /\ UNCHANGED <<pc, down, read, wrote, out, ws, read_buf, held, net, fault>>

\* Mutant: the Close frame is not answered.
ShutdownWsSilently(e) ==
  /\ up[e] = "eof"
  /\ out[e] = <<>>
  /\ ws[e] = "Active" => Room(e)
  /\ up' = [up EXCEPT ![e] = "done"]
  /\ net' = [net EXCEPT ![e] = IF ws[e] = "Active" THEN Append(@, Close) ELSE @]
  /\ ws' = [ws EXCEPT ![e] = IF @ = "Active" THEN "ClosedByUs" ELSE "Closed"]
  /\ UNCHANGED <<pc, down, read, wrote, out, read_buf, held, fault>>

\* Mutant: poll_close without the flush of what was written before.
ShutdownWsUnflushed(e) ==
  /\ up[e] = "eof"
  /\ ws[e] = "Active" /\ Room(e)
  /\ up' = [up EXCEPT ![e] = "done"]
  /\ net' = [net EXCEPT ![e] = Append(@, Close)]
  /\ ws' = [ws EXCEPT ![e] = "ClosedByUs"]
  /\ UNCHANGED <<pc, down, read, wrote, out, read_buf, held, fault>>

\* poll_shutdown once everything is flushed: poll_close sends a Close frame,
\* or the reply to one, and does not wait for the answer.
ShutdownWs(e) ==
  /\ up[e] = "eof"
  /\ out[e] = <<>>
  /\ ws[e] \in {"Active", "ClosedByPeer"} => Room(e)
  /\ up' = [up EXCEPT ![e] = "done"]
  /\ net' = [net EXCEPT ![e] = IF ws[e] \in {"Active", "ClosedByPeer"}
                                   THEN Append(@, Close) ELSE @]
  /\ ws' = [ws EXCEPT ![e] = CASE @ = "Active" -> "ClosedByUs"
                                     [] @ = "ClosedByPeer" -> "Closed"
                                     [] OTHER -> @]
  /\ UNCHANGED <<pc, down, read, wrote, out, read_buf, held, fault>>

\* Mutant: the rest of the frame goes into a copy buffer it does not fit.
ReadRestAll(e) ==
  /\ read_buf[e] > 0
  /\ held' = [held EXCEPT ![e] = @ + read_buf[e]]
  /\ read_buf' = [read_buf EXCEPT ![e] = 0]
  /\ UNCHANGED <<pc, up, down, read, wrote, out, ws, net, fault>>

\* poll_read of the WebSocket into the room the copy buffer has: the rest of
\* the last frame, or the next one.
ReadRest(e) ==
  LET n == IF read_buf[e] < COPY_BUF - held[e] THEN read_buf[e] ELSE COPY_BUF - held[e] IN
  /\ read_buf[e] > 0
  /\ held' = [held EXCEPT ![e] = @ + n]
  /\ read_buf' = [read_buf EXCEPT ![e] = @ - n]
  /\ UNCHANGED <<pc, up, down, read, wrote, out, ws, net, fault>>

TakeFrame(e) ==
  LET o == Other(e)  f == Head(net[o]) IN
  /\ IF f = Fin
     THEN /\ Drop(e, "failed")   \* ResetWithoutClosingHandshake
          /\ UNCHANGED <<down, ws, read_buf>>
     ELSE /\ net' = [net EXCEPT ![o] = Tail(@)]
          /\ UNCHANGED pc
          /\ IF f = Close
             THEN /\ down' = [down EXCEPT ![e] = "eof"]
                  /\ ws' = [ws EXCEPT ![e] = IF @ = "Active"
                                           THEN "ClosedByPeer" ELSE "CloseAcknowledged"]
                  /\ UNCHANGED read_buf
             ELSE /\ read_buf' = [read_buf EXCEPT ![e] = f]
                  /\ UNCHANGED <<down, ws>>
  /\ UNCHANGED <<up, read, wrote, out, held, fault>>

\* The next frame, when nothing is left of the last.
ReadFrame(e) == read_buf[e] = 0 /\ net[Other(e)] # <<>> /\ TakeFrame(e)

PollRead(e) ==
  /\ down[e] = "copy"
  /\ held[e] < COPY_BUF
  /\ ReadRest(e) \/ ReadFrame(e)

\* poll_write of the local socket takes any part.
WriteTcp(e) ==
  /\ \E n \in 1 .. held[e] :
       /\ held' = [held EXCEPT ![e] = @ - n]
       /\ wrote' = [wrote EXCEPT ![e] = @ + n]
  /\ UNCHANGED <<pc, up, down, read, out, ws, read_buf, net, fault>>

\* The direction is over: the local socket's write side is shut down.
ShutdownTcp(e) ==
  /\ down[e] = "eof"
  /\ held[e] = 0
  /\ down' = [down EXCEPT ![e] = "done"]
  /\ UNCHANGED <<pc, up, read, wrote, out, ws, read_buf, held, net, fault>>

\* copy_bidirectional returns when both directions are done.
CopyDone(e) ==
  /\ up[e] = "done" /\ down[e] = "done"
  /\ Drop(e, "done")
  /\ UNCHANGED <<up, down, read, wrote, out, ws, read_buf, held, fault>>

\* A flush to an end that has gone.
SendFails(e) ==
  /\ pc[Other(e)] \in Over
  /\ \/ out[e] # <<>>
     \/ up[e] = "eof" /\ ws[e] \in {"Active", "ClosedByPeer"}
  /\ Drop(e, "failed")
  /\ UNCHANGED <<up, down, read, wrote, out, ws, read_buf, held, fault>>

\* The local socket fails, or the transport between the ends does.
CopyError(e) ==
  /\ Failures \cap BridgeFailures # {}
  /\ Drop(e, "failed")
  /\ fault' = TRUE
  /\ UNCHANGED <<up, down, read, wrote, out, ws, read_buf, held>>

Copy(e) ==
  /\ pc[e] = "copy"
  /\ \/ CopyUp(e) \/ FlushOut(e) \/ ReadEof(e) \/ ShutdownWs(e)
     \/ PollRead(e) \/ WriteTcp(e) \/ ShutdownTcp(e) \/ CopyDone(e)
     \/ SendFails(e) \/ CopyError(e)

=============================================================================
