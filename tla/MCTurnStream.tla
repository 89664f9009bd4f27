---------------------------- MODULE MCTurnStream ----------------------------
(***************************************************************************)
(* Instances of TurnStream for TLC: a call of run() or of run_streamed()   *)
(* next to a turn of another client, and two turns on one thread.          *)
(***************************************************************************)
EXTENDS TurnStream

CONSTANTS t1, t2, o1, th1, th2, u1, u2

SameThread == [t \in Turns |-> th1]

Event(k, th, t, u) == [kind |-> k, thread |-> th, turn |-> t, usage |-> u]

\* Items of our turns and of another client's; an item may leave out its turn or
\* both ids, an error the turn, the end of a turn its thread.  Usage updates,
\* parsed or not, and completions with or without their own usage.  The loss of
\* the transport announced by a handler's reply.
MixedEvents ==
  {Event("itemCompleted", th1, t1, NoUsage), Event("itemCompleted", NoId, NoId, NoUsage),
   Event("error", th1, NoId, NoUsage), Event("completed", th2, o1, NoUsage),
   Event("usage", th1, t1, u1), Event("usage", th1, NoId, NoUsage),
   Event("usage", th1, NoId, u2), Event("completed", th1, t1, u2),
   Event("completed", th1, t1, NoUsage), Event("failed", NoId, t2, NoUsage),
   TransportClosed}

\* Items that fill the channel, and the ends of two turns on one thread.
EndEvents == {Event("item", th1, t1, NoUsage), Event("completed", th1, t1, NoUsage),
              Event("failed", th1, t2, NoUsage)}
=============================================================================
