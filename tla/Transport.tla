------------------------------ MODULE Transport ------------------------------
(***************************************************************************)
(* The channel pair and the two loops every transport shares               *)
(* (crates/sdk/src/transport/mod.rs; stdio.rs and ws.rs give them the      *)
(* frames).  The writer task drains the bounded outbound channel into the  *)
(* peer, the reader task fills the bounded inbound channel from it; both   *)
(* hold a sender of the inbound channel, and the client's inbound loop     *)
(* holds its receiver.                                                     *)
(*                                                                         *)
(* A frame of the inbound channel is a value or ErrFrame, an Err(_) that   *)
(* the client treats alike whatever its cause.  Taking a message and       *)
(* writing it, or reading a frame and queueing it, is one step: the frame  *)
(* in hand would only be one more slot of the channel.                     *)
(***************************************************************************)
EXTENDS Naturals, Sequences

CONSTANTS OutCap,   \* capacity of the outbound channel (256 in the code)
          InCap     \* capacity of the inbound channel (1024 in the code)

VARIABLES outbound,   \* queued messages, oldest first
          inbound,    \* queued frames, oldest first
          writer,     \* the writer task
          reader,     \* the reader task
          receiver    \* is the receiver of the inbound channel alive?

transportVars == <<outbound, inbound, writer, reader, receiver>>

ErrFrame == [kind |-> "error"]

TaskStates == {"running", "reporting", "stopped"}

TransportInit == /\ outbound = <<>>
                 /\ inbound = <<>>
                 /\ writer = "running"
                 /\ reader = "running"
                 /\ receiver = TRUE

-----------------------------------------------------------------------------
(* The outbound channel: its receiver is owned by the writer task.         *)

OutboundOpen == writer # "stopped"

\* sender.send(m).await completes: there is room.
QueueOutbound(m) == /\ OutboundOpen
                    /\ Len(outbound) < OutCap
                    /\ outbound' = Append(outbound, m)
                    /\ UNCHANGED <<inbound, writer, reader, receiver>>

\* inbound_tx.send(f).await completes: queued, or the receiver is gone.
PushInbound(f) == IF receiver THEN /\ Len(inbound) < InCap
                                   /\ inbound' = Append(inbound, f)
                              ELSE UNCHANGED inbound

\* The oldest message reaches the peer.
WriterSends == /\ writer = "running"
               /\ outbound # <<>>
               /\ outbound' = Tail(outbound)
               /\ UNCHANGED <<inbound, writer, reader, receiver>>

\* Serializing or sending it fails: it is lost and the loop ends.
WriterFails == /\ writer = "running"
               /\ outbound # <<>>
               /\ outbound' = Tail(outbound)
               /\ writer' = "reporting"
               /\ UNCHANGED <<inbound, reader, receiver>>

\* Variant: the task ends without reporting.
WriterEndsSilently == /\ writer = "reporting"
                      /\ writer' = "stopped"
                      /\ outbound' = <<>>
                      /\ UNCHANGED <<inbound, reader, receiver>>

\* The error is pushed onto the inbound channel; then the task ends, and the
\* outbound channel with it.
WriterReports == /\ writer = "reporting"
                 /\ PushInbound(ErrFrame)
                 /\ writer' = "stopped"
                 /\ outbound' = <<>>
                 /\ UNCHANGED <<reader, receiver>>

-----------------------------------------------------------------------------
(* The inbound channel.                                                    *)

\* A payload arrives: f is its value, or ErrFrame if it is no JSON.  The loop
\* ends when nobody receives any more.
ReaderForwards(f) == /\ reader = "running"
                     /\ PushInbound(f)
                     /\ reader' = IF receiver THEN "running" ELSE "stopped"
                     /\ UNCHANGED <<outbound, writer, receiver>>

\* RawFrame::Closed: end of file on stdio, a close frame or an error.
ReaderCloses == /\ reader = "running"
                /\ reader' = "reporting"
                /\ UNCHANGED <<outbound, inbound, writer, receiver>>

ReaderReports == /\ reader = "reporting"
                 /\ PushInbound(ErrFrame)
                 /\ reader' = "stopped"
                 /\ UNCHANGED <<outbound, writer, receiver>>

\* RawFrame::Eof: the websocket stream ended without a close.
ReaderEof == /\ reader = "running"
             /\ reader' = "stopped"
             /\ UNCHANGED <<outbound, inbound, writer, receiver>>

\* inbound.recv() yields a frame.
Receive == /\ receiver
           /\ inbound # <<>>
           /\ inbound' = Tail(inbound)
           /\ UNCHANGED <<outbound, writer, reader, receiver>>

\* inbound.recv() yields None: every sender is gone and nothing is queued.
InboundEnded == writer = "stopped" /\ reader = "stopped" /\ inbound = <<>>

\* The steps of the two tasks that are not caused by a frame.
WriterStep == WriterSends \/ WriterFails \/ WriterReports
ReaderEnds == ReaderCloses \/ ReaderReports \/ ReaderEof
=============================================================================
