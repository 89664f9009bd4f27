------------------------------ MODULE RpcCalls ------------------------------
(***************************************************************************)
(* What CodexClient's request path promises, without ids, channels and     *)
(* tasks: a call is made once, the server serves it at most once, and it   *)
(* ends at most once, with its own answer or without one.                  *)
(***************************************************************************)
CONSTANT Calls

VARIABLES status,   \* where each call stands
          served    \* the calls that reached the server

callVars == <<status, served>>

Statuses == {"idle", "open", "answered", "failed"}

CallsInit == status = [c \in Calls |-> "idle"] /\ served = {}

Move(c, from, to) == status[c] = from /\ status' = [status EXCEPT ![c] = to]

Call(c) == Move(c, "idle", "open") /\ UNCHANGED served

\* The server may come to a request after its caller gave up on it.
Serve(c) == /\ status[c] # "idle"
            /\ c \notin served
            /\ served' = served \cup {c}
            /\ UNCHANGED status

\* The call ends with the answer the server gave to it.
Answered(c) == /\ c \in served
               /\ Move(c, "open", "answered")
               /\ UNCHANGED served

\* The call ends without an answer: refused, timed out, failed, dropped.
GivenUp(c) == Move(c, "open", "failed") /\ UNCHANGED served

CallsNext == \E c \in Calls : Call(c) \/ Serve(c) \/ Answered(c) \/ GivenUp(c)

CallsSpec == CallsInit /\ [][CallsNext]_callVars
=============================================================================
