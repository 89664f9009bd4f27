------------------------------ MODULE Handshake ------------------------------
(***************************************************************************)
(* The connection handshake of CodexClient (crates/sdk/src/client/mod.rs). *)
(*                                                                         *)
(* Concurrent callers share one atomic, handshake_state, and one async     *)
(* mutex, handshake_lock.  ensure_ready() takes the mutex; the explicit    *)
(* initialize() and initialized() do not, and neither do the raw request   *)
(* and notification.  Every load and store of the atomic is a step of its  *)
(* own, so the steps of two callers interleave as threads of the runtime.  *)
(*                                                                         *)
(* The RPC underneath is abstracted to what the handshake sees of it: a    *)
(* request is queued, the server accepts or refuses it, and its caller is  *)
(* told, or was not there any more (RpcClient models how).                 *)
(***************************************************************************)
EXTENDS Naturals, Sequences

CONSTANTS Callers,   \* the tasks that use clones of one client
          Nobody,    \* no task: it "holds" the free mutex
          Ops,       \* the operations the tasks call
          MaxCalls   \* bound: operations each task begins

HANDSHAKE_NEW == 0
HANDSHAKE_INITIALIZING == 1
HANDSHAKE_INITIALIZED == 2
HANDSHAKE_READY == 3

AllOps == {"ensure_ready", "initialize", "initialized", "request",
           "raw_initialize", "raw_initialized"}

\* The operations that send the initialize request.
InitOps == {"ensure_ready", "initialize", "raw_initialize"}

ASSUME NobodyAssumption == Nobody \notin Callers
ASSUME OpsAssumption == Ops \subseteq AllOps
ASSUME MaxCallsAssumption == MaxCalls \in Nat

Results == {"none", "ok", "failed", "cancelled",
            "NotReady", "NotInitialized", "AlreadyInitialized"}

Messages == {"initialize", "initialized", "request"}

Points == {"idle", "fast", "lock", "check", "mark", "gate", "send", "await",
           "accepted", "rejected", "notify", "notified"}

VARIABLES handshake_state,  \* the AtomicU8
          handshake_lock,   \* the task inside ensure_ready's critical section
          at,               \* where each task is in its operation
          op,               \* the operation each task runs, or ran last
          result,           \* what that operation returned
          calls,            \* operations begun by each task (bounded)
          wire,             \* history: what was queued for the server, in order
          inits             \* the initialize requests among them: the server's
                            \* answer, and the task that waits for it

vars == <<handshake_state, handshake_lock, at, op, result, calls, wire, inits>>

\* "received" is an acceptance that reached the task that waited for it; a
\* request nobody waits for any more can still be accepted.
Initialize == [answer : {"none", "accepted", "received", "refused"},
               waiter : Callers \cup {Nobody}]

-----------------------------------------------------------------------------
Init == /\ handshake_state = HANDSHAKE_NEW
        /\ handshake_lock = Nobody
        /\ at = [c \in Callers |-> "idle"]
        /\ op = [c \in Callers |-> "request"]
        /\ result = [c \in Callers |-> "none"]
        /\ calls = [c \in Callers |-> 0]
        /\ wire = <<>>
        /\ inits = <<>>

Goto(c, p) == at' = [at EXCEPT ![c] = p]

\* c's operation returns r; a guard on the mutex is dropped with it.
Return(c, r) == /\ Goto(c, "idle")
                /\ result' = [result EXCEPT ![c] = r]
                /\ handshake_lock' = IF handshake_lock = c THEN Nobody
                                                           ELSE handshake_lock
                /\ UNCHANGED <<op, calls>>

\* c's operation goes on at p.
Continue(c, p) == /\ Goto(c, p)
                  /\ UNCHANGED <<handshake_lock, op, result, calls>>

\* The first statement of each operation.
EntryPoint(o) == CASE o = "ensure_ready"    -> "fast"
                   [] o = "initialized"     -> "check"
                   [] o = "raw_initialized" -> "notify"
                   [] OTHER                 -> "gate"

Begin(c) == /\ at[c] = "idle"
            /\ calls[c] < MaxCalls
            /\ \E o \in Ops : /\ op' = [op EXCEPT ![c] = o]
                              /\ Goto(c, EntryPoint(o))
            /\ result' = [result EXCEPT ![c] = "none"]
            /\ calls' = [calls EXCEPT ![c] = @ + 1]
            /\ UNCHANGED <<handshake_state, handshake_lock, wire, inits>>

-----------------------------------------------------------------------------
(* ensure_ready_with                                                       *)

\* The load before the mutex: a ready connection returns at once.
FastPath(c) == /\ at[c] = "fast"
               /\ IF handshake_state = HANDSHAKE_READY THEN Return(c, "ok")
                                             ELSE Continue(c, "lock")
               /\ UNCHANGED <<handshake_state, wire, inits>>

\* Variant: no mutex, as if the state alone were enough.
AcquireShared(c) == /\ at[c] = "lock"
                    /\ UNCHANGED <<handshake_state, wire, inits>>
                    /\ IF handshake_state = HANDSHAKE_READY
                         THEN Return(c, "ok")
                         ELSE /\ Goto(c, "check")
                              /\ handshake_lock' = c
                              /\ UNCHANGED <<op, result, calls>>

\* The mutex is acquired and the state is read again under it.
Acquire(c) == /\ at[c] = "lock"
              /\ handshake_lock = Nobody
              /\ UNCHANGED <<handshake_state, wire, inits>>
              /\ IF handshake_state = HANDSHAKE_READY
                   THEN Return(c, "ok")
                   ELSE /\ Goto(c, "check")
                        /\ handshake_lock' = c
                        /\ UNCHANGED <<op, result, calls>>

\* Variant: initialize is repeated unless the whole handshake was completed.
CheckReady(c) ==
  /\ at[c] = "check"
  /\ op[c] = "ensure_ready"
  /\ Continue(c, IF handshake_state < HANDSHAKE_READY THEN "mark" ELSE "notify")
  /\ UNCHANGED <<handshake_state, wire, inits>>

\* Is the initialize request still to be made?
CheckInitialized(c) ==
  /\ at[c] = "check"
  /\ op[c] = "ensure_ready"
  /\ Continue(c, IF handshake_state < HANDSHAKE_INITIALIZED THEN "mark" ELSE "notify")
  /\ UNCHANGED <<handshake_state, wire, inits>>

MarkInitializing(c) == /\ at[c] = "mark"
                       /\ handshake_state' = HANDSHAKE_INITIALIZING
                       /\ Continue(c, "gate")
                       /\ UNCHANGED <<wire, inits>>

\* initialize succeeded: ensure_ready stores INITIALIZED and goes on to the
\* notification; the explicit call raises the state with fetch_max and
\* returns; the raw request returns and leaves the state alone.
InitializeOk(c) ==
  /\ at[c] = "accepted"
  /\ \/ /\ op[c] = "ensure_ready"
        /\ handshake_state' = HANDSHAKE_INITIALIZED
        /\ Continue(c, "notify")
     \/ /\ op[c] = "initialize"
        /\ handshake_state' = IF handshake_state < HANDSHAKE_INITIALIZED
                                THEN HANDSHAKE_INITIALIZED ELSE handshake_state
        /\ Return(c, "ok")
     \/ /\ op[c] = "raw_initialize"
        /\ Return(c, "ok")
        /\ UNCHANGED handshake_state
  /\ UNCHANGED <<wire, inits>>

\* initialize failed inside ensure_ready: the state is reset.
InitializeErr(c) == /\ at[c] = "rejected"
                    /\ handshake_state' = HANDSHAKE_NEW
                    /\ Return(c, "failed")
                    /\ UNCHANGED <<wire, inits>>

-----------------------------------------------------------------------------
(* request_value_internal and send_notification                            *)

\* Variant: requests pass as soon as initialize succeeded.
ReadyEarly == handshake_state >= HANDSHAKE_INITIALIZED

Ready == handshake_state >= HANDSHAKE_READY

\* The gate of a request: initialize is refused once the handshake request
\* succeeded, every other request until the connection is ready.
Gate(c) ==
  /\ at[c] = "gate"
  /\ \/ /\ op[c] \in InitOps
        /\ handshake_state < HANDSHAKE_INITIALIZED
        /\ Continue(c, "send")
     \/ /\ op[c] = "ensure_ready"
        /\ handshake_state >= HANDSHAKE_INITIALIZED
        /\ Continue(c, "rejected")
     \/ /\ op[c] \in {"initialize", "raw_initialize"}
        /\ handshake_state >= HANDSHAKE_INITIALIZED
        /\ Return(c, "AlreadyInitialized")
     \/ /\ op[c] = "request"
        /\ IF Ready THEN Continue(c, "send") ELSE Return(c, "NotReady")
  /\ UNCHANGED <<handshake_state, wire, inits>>

\* The request is queued; what a gated request does next is RpcClient's.
Send(c) ==
  /\ at[c] = "send"
  /\ UNCHANGED handshake_state
  /\ \/ /\ op[c] \in InitOps
        /\ wire' = Append(wire, "initialize")
        /\ inits' = Append(inits, [answer |-> "none", waiter |-> c])
        /\ Continue(c, "await")
     \/ /\ op[c] = "request"
        /\ wire' = Append(wire, "request")
        /\ Return(c, "ok")
        /\ UNCHANGED inits

\* The server accepts an initialize it was sent, also one whose caller has
\* given up.
ServerAccepts(k) ==
  /\ inits[k].answer = "none"
  /\ inits' = [inits EXCEPT ![k].answer = "accepted"]
  /\ UNCHANGED <<handshake_state, handshake_lock, at, op, result, calls, wire>>

\* c's request for initialize ends in an error.
Errs(c) == IF op[c] = "ensure_ready" THEN Continue(c, "rejected")
                                     ELSE Return(c, "failed")

\* The server's acceptance reaches the task that waits for it.
Answer(c) ==
  /\ at[c] = "await"
  /\ \E k \in DOMAIN inits :
       /\ inits[k] = [answer |-> "accepted", waiter |-> c]
       /\ inits' = [inits EXCEPT ![k] = [answer |-> "received", waiter |-> Nobody]]
  /\ Continue(c, "accepted")
  /\ UNCHANGED <<handshake_state, wire>>

\* The server refuses initialize, and the task that waits for it is told.
Refuse(c) ==
  /\ at[c] = "await"
  /\ \E k \in DOMAIN inits :
       /\ inits[k] = [answer |-> "none", waiter |-> c]
       /\ inits' = [inits EXCEPT ![k] = [answer |-> "refused", waiter |-> Nobody]]
  /\ Errs(c)
  /\ UNCHANGED <<handshake_state, wire>>

\* c waits no longer, whatever becomes of its request.
Leave(c) == inits' = [k \in DOMAIN inits |->
                        IF inits[k].waiter = c
                          THEN [inits[k] EXCEPT !.waiter = Nobody]
                          ELSE inits[k]]

\* Any other error: the request was not queued, timed out, lost its transport,
\* or its result has an unexpected shape.
Fail(c) == /\ at[c] \in {"send", "await"}
           /\ Errs(c)
           /\ Leave(c)
           /\ UNCHANGED <<handshake_state, wire>>

\* initialized(): the notification needs a successful initialize.
CheckNotification(c) ==
  /\ at[c] = "check"
  /\ op[c] = "initialized"
  /\ IF handshake_state < HANDSHAKE_INITIALIZED THEN Return(c, "NotInitialized")
                                      ELSE Continue(c, "notify")
  /\ UNCHANGED <<handshake_state, wire, inits>>

\* The initialized notification is queued, or cannot be.
Notify(c) ==
  /\ at[c] = "notify"
  /\ UNCHANGED <<handshake_state, inits>>
  /\ \/ /\ wire' = Append(wire, "initialized")
        /\ IF op[c] = "raw_initialized" THEN Return(c, "ok")
                                        ELSE Continue(c, "notified")
     \/ /\ UNCHANGED wire
        /\ Return(c, "failed")

\* Both paths end ready: ensure_ready by a store, initialized() by fetch_max.
MarkReady(c) == /\ at[c] = "notified"
                /\ handshake_state' = HANDSHAKE_READY
                /\ Return(c, "ok")
                /\ UNCHANGED <<wire, inits>>

\* Variant: a dropped future leaves the mutex locked.
CancelKeepsLock(c) == /\ at[c] \in {"lock", "send", "await", "notify"}
                      /\ Goto(c, "idle")
                      /\ result' = [result EXCEPT ![c] = "cancelled"]
                      /\ UNCHANGED <<handshake_lock, op, calls, handshake_state, wire>>
                      /\ Leave(c)

\* The future is dropped where it awaits: the mutex is released, the state
\* stays as it is.
Cancel(c) == /\ at[c] \in {"lock", "send", "await", "notify"}
             /\ Return(c, "cancelled")
             /\ Leave(c)
             /\ UNCHANGED <<handshake_state, wire>>

-----------------------------------------------------------------------------
\* The steps c's task takes by itself.
Step(c) == \/ FastPath(c)
           \/ Acquire(c)
           \/ CheckInitialized(c)
           \/ MarkInitializing(c)
           \/ InitializeOk(c)
           \/ InitializeErr(c)
           \/ Gate(c)
           \/ Send(c)
           \/ CheckNotification(c)
           \/ Notify(c)
           \/ MarkReady(c)

Next == \/ \E c \in Callers : \/ Begin(c)
                              \/ Step(c)
                              \/ Answer(c)
                              \/ Refuse(c)
                              \/ Fail(c)
                              \/ Cancel(c)
        \/ \E k \in DOMAIN inits : ServerAccepts(k)

Spec == Init /\ [][Next]_vars

\* The runtime polls every runnable task, the mutex is handed over in order
\* of arrival (tokio::sync::Mutex is fair), and the request's own timeout ends
\* an unanswered initialize (once it is queued: see RpcClient for a full queue).
Fairness == \A c \in Callers : /\ WF_vars(Step(c))
                               /\ SF_vars(Acquire(c))
                               /\ WF_vars(Fail(c))

FairSpec == Spec /\ Fairness

-----------------------------------------------------------------------------
TypeOK == /\ handshake_state \in HANDSHAKE_NEW..HANDSHAKE_READY
          /\ handshake_lock \in Callers \cup {Nobody}
          /\ at \in [Callers -> Points]
          /\ op \in [Callers -> AllOps]
          /\ result \in [Callers -> Results]
          /\ calls \in [Callers -> 0..MaxCalls]
          /\ wire \in Seq(Messages)
          /\ inits \in Seq(Initialize)

\* The points of ensure_ready at which its guard of the mutex is alive.
Guarded == {"check", "mark", "gate", "send", "await", "accepted", "rejected",
            "notify", "notified"}

InSection(c) == op[c] = "ensure_ready" /\ at[c] \in Guarded

\* The mutex is held exactly by the task inside the critical section of
\* ensure_ready, on every path: success, error return and dropped future.
LockHeldInSection ==
  \A c \in Callers : handshake_lock = c <=> InSection(c)

\* The first k messages contain a completed handshake.
HandshakeIn(w, k) ==
  \E i, j \in 1..k : i < j /\ w[i] = "initialize" /\ w[j] = "initialized"

\* README.md:224, "Requests are blocked client-side until you complete both
\* steps": whatever operations race, no other request is queued for the server
\* before an initialize and an initialized were.
RequestsFollowHandshake ==
  \A k \in 1..Len(wire) : wire[k] = "request" => HandshakeIn(wire, k - 1)

\* The documentation of handshake_state (client/mod.rs:39): it only advances,
\* except that a failed initialize inside ensure_ready resets it to NEW.
Monotone == \/ handshake_state' >= handshake_state
            \/ /\ handshake_state' = HANDSHAKE_NEW
               /\ \E c \in Callers : at[c] = "rejected" /\ at'[c] = "idle"
MonotoneState == [][Monotone]_vars

\* A connection that became ready stays ready: no later failure of another
\* task's ensure_ready takes it back.
ReadyStays ==
  [][handshake_state = HANDSHAKE_READY => handshake_state' = HANDSHAKE_READY]_vars

\* A task told that the connection is ready is never refused with NotReady
\* afterwards: while its ensure_ready is the last thing it ran, it is ready.
OkMeansReady ==
  \A c \in Callers :
    op[c] \in {"ensure_ready", "initialized"} /\ result[c] = "ok"
      => handshake_state = HANDSHAKE_READY

\* "exactly one caller performs each handshake step" (client/mod.rs:386), as
\* far as the client can know: another initialize is sent only when nobody waits
\* for an earlier one any more and no task was told that one was accepted.  An
\* initialize that timed out or whose future was dropped stays on the wire: the
\* server may have accepted it, and the client then repeats it.
SingleInitialize ==
  \A k \in 1..(Len(inits) - 1) : /\ inits[k].waiter = Nobody
                                  /\ inits[k].answer # "received"

\* Every ensure_ready call returns: no error, timeout or dropped future leaves
\* the mutex locked.
EnsureReadyReturns ==
  \A c \in Callers : at[c] = "fast" ~> at[c] = "idle"
=============================================================================
