----------------------------- MODULE MCWsDaemon -----------------------------
(***************************************************************************)
(* An instance of WsDaemon for TLC: two calls, in one process or in two.   *)
(***************************************************************************)
EXTENDS WsDaemon

CONSTANTS s1, s2, p1, p2

At(host) == Url("ws", host, 4222)

Call(p, entry, listen, connect, mode, reuse) ==
  [process |-> p, entry |-> entry, listen |-> At(listen), connect |-> At(connect),
   mode |-> mode, reuse |-> reuse]

SampleCalls == {Call(p1, "ensure", "localhost", "localhost", "Daemon", TRUE),
                Call(p1, "start", "127.0.0.1", "localhost", "Blocking", TRUE),
                Call(p2, "start", "127.0.0.1", "127.0.0.1", "Daemon", TRUE),
                Call(p2, "start", "localhost", "127.0.0.1", "Blocking", FALSE)}
=============================================================================
