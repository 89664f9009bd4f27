------------------------------ MODULE RpcClient ------------------------------
(***************************************************************************)
(* The request path of CodexClient (crates/sdk/src/client/mod.rs): callers *)
(* that register a oneshot sender under a fresh id, queue the request and  *)
(* wait with a timeout; the inbound loop that hands each response to the   *)
(* sender registered under its id, and runs the registered server-request  *)
(* handlers itself (client/server_requests.rs); over the Transport.        *)
(*                                                                         *)
(* The connection is ready (Handshake models the gate), so every call      *)
(* starts by taking its id.  A response carries the call the server        *)
(* answered, the client never looks at it: it is what a caller would see   *)
(* if ids were mixed up.  The peer answers what it was asked, when it      *)
(* likes, as often as it likes, or never.                                  *)
(***************************************************************************)
EXTENDS Naturals, Sequences

CONSTANTS Calls,          \* requests, each made once
          NoCall,         \* no request
          HandlersSet,    \* are server-request handlers registered?
          MaxId,          \* bound: ids handed out
          OutCap, InCap   \* channel capacities, see Transport

ASSUME CallsAssumption == NoCall \notin Calls
ASSUME HandlersAssumption == HandlersSet \in BOOLEAN
ASSUME MaxIdAssumption == MaxId \in Nat
ASSUME CapAssumption == OutCap \in Nat \ {0} /\ InCap \in Nat \ {0}

VARIABLES outbound, inbound, writer, reader, receiver,   \* Transport
          next_id,    \* the AtomicI64
          pending,    \* PendingMap: id -> the call whose oneshot it completes
          at,         \* where each call is
          id,         \* the id each call took
          oneshot,    \* what each call's oneshot channel holds
          outcome,    \* what each call returned
          loop,       \* the inbound loop
          nested,     \* the call the running handler waits for
          taken,      \* calls fail_all_pending took and has yet to fail
          served,     \* history: requests the peer received
          closed      \* was TransportClosed broadcast?

T == INSTANCE Transport

transportVars == <<outbound, inbound, writer, reader, receiver>>
callVars == <<next_id, at, id, outcome>>
loopVars == <<loop, nested, taken, closed>>
vars == <<transportVars, callVars, loopVars, pending, oneshot, served>>

Ids == 1..MaxId

Points == {"idle", "insert", "send", "wait", "cleanup", "done"}
LoopPoints == {"receiving", "failing", "handling", "replying", "stopped"}

Request(c)  == [kind |-> "request", id |-> id[c], call |-> c]
Response(m) == [kind |-> "response", id |-> m.id, call |-> m.call]
Reply    == [kind |-> "reply"]
ServerRequest == [kind |-> "serverRequest"]

\* A oneshot is empty, or holds an answer or the injected transport error.
Empty == [kind |-> "empty"]
TransportFailure == [kind |-> "transport"]
Answer(c) == [kind |-> "answer", call |-> c]

Requests  == [kind : {"request"}, id : Ids, call : Calls]
Responses == [kind : {"response"}, id : Ids, call : Calls]
Oneshots  == {Empty, TransportFailure} \cup {Answer(c) : c \in Calls}
Outcomes  == {[kind |-> k] : k \in {"none", "Timeout", "TransportSend",
                                    "cancelled", "transport"}}
             \cup {Answer(c) : c \in Calls}

Init == /\ T!TransportInit
        /\ next_id = 1
        /\ pending = [i \in Ids |-> NoCall]
        /\ at = [c \in Calls |-> "idle"]
        /\ id = [c \in Calls |-> 0]
        /\ oneshot = [c \in Calls |-> Empty]
        /\ outcome = [c \in Calls |-> [kind |-> "none"]]
        /\ loop = "receiving"
        /\ nested = NoCall
        /\ taken = {}
        /\ served = {}
        /\ closed = FALSE

-----------------------------------------------------------------------------
(* The callers: request_value_internal                                     *)

Goto(c, p) == at' = [at EXCEPT ![c] = p]

Return(c, o) == /\ Goto(c, "done")
                /\ outcome' = [outcome EXCEPT ![c] = [kind |-> o]]
                /\ UNCHANGED <<next_id, id>>

\* Variant: the id is read and not advanced.
TakeIdAgain(c) == /\ at[c] = "idle"
                  /\ id' = [id EXCEPT ![c] = next_id]
                  /\ Goto(c, "insert")
                  /\ UNCHANGED <<transportVars, next_id, outcome, pending, oneshot, served>>

TakeId(c) == /\ at[c] = "idle"
             /\ next_id <= MaxId
             /\ id' = [id EXCEPT ![c] = next_id]
             /\ next_id' = next_id + 1
             /\ Goto(c, "insert")
             /\ UNCHANGED <<transportVars, outcome, pending, oneshot, served>>

Begin(c) == /\ TakeId(c)
            /\ UNCHANGED loopVars

\* The oneshot sender is registered under the lock of the map.
Insert(c) == /\ at[c] = "insert"
             /\ pending' = [pending EXCEPT ![id[c]] = c]
             /\ Goto(c, "send")
             /\ UNCHANGED <<transportVars, next_id, id, outcome, loopVars,
                            oneshot, served>>

\* The request is queued once there is room; the timeout starts only now.
Send(c) == /\ at[c] = "send"
           /\ T!QueueOutbound(Request(c))
           /\ Goto(c, "wait")
           /\ UNCHANGED <<next_id, id, outcome, loopVars, pending, oneshot, served>>

\* The writer is gone: the send fails.
SendFails(c) == /\ at[c] = "send"
                /\ ~T!OutboundOpen
                /\ Goto(c, "cleanup")
                /\ outcome' = [outcome EXCEPT ![c] = [kind |-> "TransportSend"]]
                /\ UNCHANGED <<transportVars, next_id, id, loopVars, pending,
                               oneshot, served>>

\* The oneshot completes the call.
Complete(c) == /\ at[c] = "wait"
               /\ oneshot[c] # Empty
               /\ outcome' = [outcome EXCEPT ![c] = oneshot[c]]
               /\ Goto(c, "done")
               /\ UNCHANGED <<transportVars, next_id, id, loopVars, pending,
                              oneshot, served>>

\* Variant: the timer is driven by the inbound loop.
ElapseInLoop(c) == /\ at[c] = "wait"
                   /\ oneshot[c] = Empty
                   /\ loop # "stopped"
                   /\ Goto(c, "cleanup")
                   /\ outcome' = [outcome EXCEPT ![c] = [kind |-> "Timeout"]]
                   /\ UNCHANGED <<transportVars, next_id, id, loopVars, pending,
                                  oneshot, served>>

\* The timer fires first: the receiver is dropped, the entry not yet.
Elapse(c) == /\ at[c] = "wait"
             /\ oneshot[c] = Empty
             /\ Goto(c, "cleanup")
             /\ outcome' = [outcome EXCEPT ![c] = [kind |-> "Timeout"]]
             /\ UNCHANGED <<transportVars, next_id, id, loopVars, pending,
                            oneshot, served>>

\* Variant: the error is returned and the entry stays.
CleanupKeepsEntry(c) == /\ at[c] = "cleanup"
                        /\ Goto(c, "done")
                        /\ UNCHANGED <<transportVars, next_id, id, outcome, loopVars,
                                       pending, oneshot, served>>

\* The entry is removed and the error returned.
Cleanup(c) == /\ at[c] = "cleanup"
              /\ pending' = [pending EXCEPT ![id[c]] = NoCall]
              /\ Goto(c, "done")
              /\ UNCHANGED <<transportVars, next_id, id, outcome, loopVars,
                             oneshot, served>>

\* The caller drops the future where it awaits; its entry stays.
Cancel(c) == /\ at[c] \in {"insert", "send", "wait", "cleanup"}
             /\ Return(c, "cancelled")
             /\ UNCHANGED <<transportVars, loopVars, pending, oneshot, served>>

-----------------------------------------------------------------------------
(* The inbound loop: run_inbound_loop, process_incoming_value              *)

\* The receiver of c's oneshot is alive.
Listening(c) == at[c] \in {"send", "wait"}

\* Variant: responses are delivered while a handler runs.
DeliverAlways == /\ loop \in {"receiving", "handling"}
                 /\ T!Receive
                 /\ Head(inbound).kind = "response"
                 /\ LET i == Head(inbound).id
                        c == pending[i]
                    IN  /\ pending' = [pending EXCEPT ![i] = NoCall]
                        /\ oneshot' = IF c # NoCall /\ Listening(c)
                             THEN [oneshot EXCEPT ![c] = Answer(Head(inbound).call)]
                             ELSE oneshot
                 /\ UNCHANGED <<callVars, loopVars, served>>

\* A response completes the call registered under its id, if there is one.
Deliver == /\ loop = "receiving"
           /\ T!Receive
           /\ Head(inbound).kind = "response"
           /\ LET i == Head(inbound).id
                  c == pending[i]
              IN  /\ pending' = [pending EXCEPT ![i] = NoCall]
                  /\ oneshot' = IF c # NoCall /\ Listening(c)
                       THEN [oneshot EXCEPT ![c] = Answer(Head(inbound).call)]
                       ELSE oneshot
           /\ UNCHANGED <<callVars, loopVars, served>>

\* A server request runs its handler right here; without one it is an event,
\* which, like a notification, goes to the event channel (TurnStream).
ReceiveServerRequest ==
  /\ loop = "receiving"
  /\ T!Receive
  /\ Head(inbound).kind = "serverRequest"
  /\ loop' = IF HandlersSet THEN "handling" ELSE loop
  /\ UNCHANGED <<callVars, nested, taken, closed, pending, oneshot, served>>

\* The handler makes a request of its own and awaits it.
HandlerCall(c) == /\ loop = "handling"
                  /\ nested = NoCall
                  /\ TakeId(c)
                  /\ nested' = c
                  /\ UNCHANGED <<loop, taken, closed>>

HandlerReturns == /\ loop = "handling"
                  /\ nested # NoCall => at[nested] = "done"
                  /\ loop' = "replying"
                  /\ nested' = NoCall
                  /\ UNCHANGED <<transportVars, callVars, taken, closed, pending,
                                 oneshot, served>>

\* The handler's result is queued; a dead writer is announced instead.
HandlerReplies == /\ loop = "replying"
                  /\ \/ T!QueueOutbound(Reply) /\ UNCHANGED closed
                     \/ /\ ~T!OutboundOpen
                        /\ closed' = TRUE
                        /\ UNCHANGED transportVars
                  /\ loop' = "receiving"
                  /\ UNCHANGED <<callVars, nested, taken, pending, oneshot, served>>

\* An error frame, or one that is no JSON-RPC message: all entries are taken.
TakePending == /\ loop = "receiving"
               /\ T!Receive
               /\ Head(inbound) = T!ErrFrame
               /\ taken' = {pending[i] : i \in Ids} \ {NoCall}
               /\ pending' = [i \in Ids |-> NoCall]
               /\ loop' = "failing"
               /\ UNCHANGED <<callVars, nested, closed, oneshot, served>>

\* Variant: the loss is not announced.
FailTakenSilently ==
  /\ loop = "failing"
  /\ oneshot' = [c \in Calls |-> IF c \in taken /\ Listening(c)
                                   THEN TransportFailure ELSE oneshot[c]]
  /\ taken' = {}
  /\ loop' = "stopped"
  /\ receiver' = FALSE
  /\ inbound' = <<>>
  /\ UNCHANGED <<outbound, writer, reader, callVars, nested, pending, closed, served>>

\* Each is sent the transport error; the loop announces it and ends, and the
\* inbound channel with it.
FailTaken == /\ loop = "failing"
             /\ oneshot' = [c \in Calls |-> IF c \in taken /\ Listening(c)
                                             THEN TransportFailure ELSE oneshot[c]]
             /\ taken' = {}
             /\ closed' = TRUE
             /\ loop' = "stopped"
             /\ receiver' = FALSE
             /\ inbound' = <<>>
             /\ UNCHANGED <<outbound, writer, reader, callVars, nested, pending,
                            served>>

-----------------------------------------------------------------------------
(* The transport's tasks and the peer                                      *)

\* The peer receives the oldest message.
PeerReceives == /\ T!WriterSends
                /\ served' = served \cup {m \in {Head(outbound)} : m.kind = "request"}
                /\ UNCHANGED <<callVars, loopVars, pending, oneshot>>

\* It answers a request it received, asks for something, or sends garbage.
PeerSends == /\ \E f \in {Response(m) : m \in served}
                          \cup {ServerRequest, T!ErrFrame} : T!ReaderForwards(f)
             /\ UNCHANGED <<callVars, loopVars, pending, oneshot, served>>

TransportBreaks == /\ T!WriterFails \/ T!ReaderCloses \/ T!ReaderEof
                   /\ UNCHANGED <<callVars, loopVars, pending, oneshot, served>>

TransportReports == /\ T!WriterReports \/ T!ReaderReports
                    /\ UNCHANGED <<callVars, loopVars, pending, oneshot, served>>

-----------------------------------------------------------------------------
CallStep(c) == \/ Insert(c)
               \/ Send(c)
               \/ SendFails(c)
               \/ Complete(c)
               \/ Elapse(c)
               \/ Cleanup(c)

LoopStep == \/ Deliver
            \/ ReceiveServerRequest
            \/ HandlerReturns
            \/ HandlerReplies
            \/ TakePending
            \/ FailTaken

Next == \/ \E c \in Calls : Begin(c) \/ HandlerCall(c) \/ CallStep(c) \/ Cancel(c)
        \/ LoopStep
        \/ PeerReceives
        \/ PeerSends
        \/ TransportBreaks
        \/ TransportReports

Spec == Init /\ [][Next]_vars

\* The runtime runs every task, timers fire, handlers return, and whoever waits
\* for room in a channel gets it in order of arrival (tokio::sync::mpsc is fair).
\* Nothing is assumed of the peer: it may stop reading what the writer writes.
FairSpec == /\ Spec
            /\ \A c \in Calls : WF_vars(CallStep(c)) /\ SF_vars(Send(c))
            /\ WF_vars(LoopStep) /\ SF_vars(HandlerReplies)
            /\ SF_vars(TransportReports)

-----------------------------------------------------------------------------
TypeOK == /\ outbound \in Seq(Requests \cup {Reply})
          /\ inbound \in Seq(Responses \cup {ServerRequest, T!ErrFrame})
          /\ writer \in T!TaskStates /\ reader \in T!TaskStates
          /\ receiver \in BOOLEAN
          /\ next_id \in 1..(MaxId + 1)
          /\ pending \in [Ids -> Calls \cup {NoCall}]
          /\ at \in [Calls -> Points]
          /\ id \in [Calls -> 0..MaxId]
          /\ oneshot \in [Calls -> Oneshots]
          /\ outcome \in [Calls -> Outcomes]
          /\ loop \in LoopPoints
          /\ nested \in Calls \cup {NoCall}
          /\ taken \in SUBSET Calls
          /\ served \in SUBSET Requests
          /\ closed \in BOOLEAN

\* A call that waits is not forgotten: its sender is registered under its id, or
\* fail_all_pending is about to use it, or its value is there.  So the arm of
\* request_value_internal for a dropped sender is never taken; a call waits for
\* its timer only if the server is silent or the loop ended before it registered.
WaitingIsReachable ==
  \A c \in Calls : at[c] = "wait" /\ oneshot[c] = Empty
                     => pending[id[c]] = c \/ c \in taken

\* A call that returned left nothing in the map, however it ended, unless its
\* future was dropped.
NoStaleEntry ==
  \A i \in Ids : pending[i] # NoCall =>
    LET c == pending[i]
    IN  /\ id[c] = i
        /\ at[c] = "done" => outcome[c].kind = "cancelled"

\* The inbound loop is never left waiting on a channel that has ended, where it
\* would return without failing the pending calls or announcing the loss.
NoSilentEnd == loop = "receiving" => ~T!InboundEnded

\* A handler runs on the inbound loop, so the request it makes on its own client
\* and awaits cannot be answered: it times out, or cannot be sent.
HandlerCallsUnanswered ==
  nested # NoCall => outcome[nested].kind \notin {"answer", "transport"}

\* The request path keeps the promise of RpcCalls: each call ends once, and
\* with no answer but the one the server gave to that very call.
StatusOf(c) == CASE at[c] = "idle" -> "idle"
                 [] at[c] \in Points \ {"idle", "done"} -> "open"
                 [] at[c] = "done" /\ outcome[c] = Answer(c) -> "answered"
                 [] OTHER -> IF outcome[c].kind = "answer" THEN "crossed"
                                                          ELSE "failed"

ServedCalls == {m.call : m \in served}

Promise == INSTANCE RpcCalls WITH status <- [c \in Calls |-> StatusOf(c)],
                                  served <- ServedCalls

KeepsPromise == Promise!CallsSpec

\* README.md:223, "Every request has a timeout": a request ends, by an answer, an
\* error or its timeout, whatever the server does.
EveryRequestEnds == \A c \in Calls : at[c] = "insert" ~> at[c] = "done"

WaitsForRoom(c) ==
  at[c] = "send" /\ T!OutboundOpen /\ Len(outbound) = OutCap

\* What is left of it: the timer starts once the request is queued, so in the end
\* every request that was made is over, or waits for ever for room in the outbound
\* channel: the server reads no more, or the writer failed and cannot say so.
QueuedRequestsEnd ==
  <>[](\A c \in Calls : at[c] \in {"idle", "done"} \/ WaitsForRoom(c))

\* transport/mod.rs:33, "the error is pushed onto the inbound channel and the
\* loop stops": a writer that failed ends.
WriterStops == writer = "reporting" ~> writer = "stopped"

\* A transport failure is announced to the subscribers of the event channel,
\* unless the inbound loop waits for ever for a handler's request or reply to be
\* queued.
FailureIsAnnounced ==
  \/ (writer = "reporting" \/ reader = "reporting") ~> closed
  \/ <>[](loop \in {"handling", "replying"})
=============================================================================
