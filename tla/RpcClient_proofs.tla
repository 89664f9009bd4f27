-------------------------- MODULE RpcClient_proofs --------------------------
(***************************************************************************)
(* What the request path guarantees for every set of calls, every number   *)
(* of ids and every capacity of the channels.                              *)
(***************************************************************************)
EXTENDS RpcClient, TLAPS

USE CallsAssumption, HandlersAssumption, MaxIdAssumption

\* A call that started has an id of its own.
Numbered == /\ \A c \in Calls : at[c] # "idle" => id[c] \in 1..(next_id - 1)
            /\ \A c, d \in Calls : at[c] # "idle" /\ at[d] # "idle" /\ id[c] = id[d]
                                     => c = d

Typed == TypeOK /\ Numbered

\* The steps of a transport task that carry no message.
LEMMA ReportTyped ==
  ASSUME TypeOK, TransportBreaks \/ TransportReports
  PROVE  TypeOK'
<1> USE DEF TypeOK, callVars, loopVars, T!TaskStates
<1>1. CASE TransportBreaks
  <2>1. outbound # <<>> => Tail(outbound) \in Seq(Requests \cup {Reply})
    OBVIOUS
  <2>2. /\ outbound' \in Seq(Requests \cup {Reply})
        /\ writer' \in T!TaskStates /\ reader' \in T!TaskStates
        /\ UNCHANGED <<inbound, receiver>>
    BY <1>1, <2>1 DEF TransportBreaks, T!WriterFails, T!ReaderCloses, T!ReaderEof
  <2> QED
    BY <1>1, <2>2 DEF TransportBreaks
<1>2. CASE TransportReports
  <2>1. Append(inbound, T!ErrFrame) \in Seq(Responses \cup {ServerRequest, T!ErrFrame})
    OBVIOUS
  <2>2. inbound' \in Seq(Responses \cup {ServerRequest, T!ErrFrame})
    BY <1>2, <2>1 DEF TransportReports, T!WriterReports, T!ReaderReports, T!PushInbound
  <2>3. /\ outbound' \in Seq(Requests \cup {Reply})
        /\ writer' \in T!TaskStates /\ reader' \in T!TaskStates
        /\ UNCHANGED receiver
    <3>1. <<>> \in Seq(Requests \cup {Reply})
      OBVIOUS
    <3>2. CASE T!WriterReports
      BY <3>1, <3>2 DEF T!WriterReports
    <3>3. CASE T!ReaderReports
      BY <3>3 DEF T!ReaderReports
    <3> QED
      BY <1>2, <3>2, <3>3 DEF TransportReports
  <2> QED
    BY <1>2, <2>2, <2>3 DEF TransportReports
<1> QED
  BY <1>1, <1>2

\* Every value is one of its type, and ids are never reused.
LEMMA TypedInvariant == Spec => []Typed
<1>1. Init => Typed
  <2> SUFFICES ASSUME Init PROVE Typed
    OBVIOUS
  <2>1. /\ outbound \in Seq(Requests \cup {Reply})
        /\ inbound \in Seq(Responses \cup {ServerRequest, T!ErrFrame})
    BY DEF Init, T!TransportInit
  <2>2. oneshot \in [Calls -> Oneshots] /\ outcome \in [Calls -> Outcomes]
    BY DEF Init, Oneshots, Outcomes
  <2>3. Numbered
    BY DEF Init, Numbered
  <2>4. /\ writer \in T!TaskStates /\ reader \in T!TaskStates /\ receiver \in BOOLEAN
        /\ next_id \in 1..(MaxId + 1)
        /\ pending \in [Ids -> Calls \cup {NoCall}]
        /\ at \in [Calls -> Points]
        /\ id \in [Calls -> 0..MaxId]
    BY DEF Init, T!TransportInit, T!TaskStates, Ids, Points
  <2>5. /\ loop \in LoopPoints /\ nested \in Calls \cup {NoCall}
        /\ taken \in SUBSET Calls /\ served \in SUBSET Requests /\ closed \in BOOLEAN
    BY DEF Init, LoopPoints
  <2> QED
    BY <2>1, <2>2, <2>3, <2>4, <2>5 DEF Typed, TypeOK
<1>2. Typed /\ [Next]_vars => Typed'
  <2> SUFFICES ASSUME Typed, [Next]_vars
               PROVE  Typed'
    OBVIOUS
  <2> USE DEF Typed, Goto, Ids, Points, LoopPoints, transportVars, callVars,
              loopVars
  <2>1. ASSUME NEW c \in Calls, TakeId(c), UNCHANGED <<loop, taken, closed>>,
               nested' \in Calls \cup {NoCall}
        PROVE  Typed'
    <3>1. TypeOK'
      BY <2>1 DEF TypeOK, TakeId
    <3>2. Numbered'
      BY <2>1 DEF TypeOK, Numbered, TakeId
    <3> QED
      BY <3>1, <3>2
  <2>2. ASSUME NEW c \in Calls, CallStep(c) \/ Cancel(c)
        PROVE  Typed'
    <3>1. at[c] # "idle" /\ id[c] \in Ids
      BY <2>2 DEF TypeOK, Numbered, CallStep, Cancel, Insert, Send, SendFails, Complete,
                  Elapse, Cleanup
    <3>2. /\ UNCHANGED <<next_id, id>>
          /\ \E p \in Points \ {"idle"} : Goto(c, p)
      BY <2>2 DEF CallStep, Cancel, Insert, Send, SendFails, Complete, Elapse, Cleanup,
                  Return
    <3>3. Numbered'
      BY <3>1, <3>2 DEF TypeOK, Numbered
    <3>4. outbound' \in Seq(Requests \cup {Reply})
      <4>1. Request(c) \in Requests
        BY <3>1 DEF Request, Requests
      <4>2. Append(outbound, Request(c)) \in Seq(Requests \cup {Reply})
        BY <4>1 DEF TypeOK
      <4> QED
        BY <2>2, <4>2 DEF TypeOK, CallStep, Cancel, Insert, Send, SendFails, Complete,
                          Elapse, Cleanup, Return, T!QueueOutbound
    <3>5. outcome' \in [Calls -> Outcomes]
      <4>1. /\ [kind |-> "Timeout"] \in Outcomes
            /\ [kind |-> "TransportSend"] \in Outcomes
            /\ [kind |-> "cancelled"] \in Outcomes
        BY DEF Outcomes
      <4>2. CASE Complete(c)
        <5>1. oneshot[c] \in Outcomes
          BY <4>2 DEF Complete, TypeOK, Outcomes, Oneshots, Empty, TransportFailure
        <5> QED
          BY <4>2, <5>1 DEF Complete, TypeOK
      <4>3. CASE outcome' = outcome
        BY <4>3 DEF TypeOK
      <4>4. CASE SendFails(c) \/ Elapse(c) \/ Cancel(c)
        <5>1. PICK o \in Outcomes : outcome' = [outcome EXCEPT ![c] = o]
          BY <4>1, <4>4 DEF SendFails, Elapse, Cancel, Return
        <5> QED
          BY <5>1 DEF TypeOK
      <4> QED
        BY <2>2, <4>2, <4>3, <4>4 DEF CallStep, Insert, Send, Cleanup
    <3>6. pending' \in [Ids -> Calls \cup {NoCall}]
      BY <2>2, <3>1 DEF TypeOK, CallStep, Cancel, Insert, Send, SendFails, Complete,
                        Elapse, Cleanup, Return
    <3>7. /\ at' \in [Calls -> Points]
          /\ UNCHANGED <<inbound, writer, reader, receiver, loop, nested, taken, closed,
                         oneshot, served>>
      BY <2>2, <3>2 DEF TypeOK, CallStep, Cancel, Insert, Send, SendFails, Complete,
                        Elapse, Cleanup, Return, T!QueueOutbound
    <3>8. TypeOK'
      BY <3>2, <3>4, <3>5, <3>6, <3>7 DEF TypeOK
    <3> QED
      BY <3>3, <3>8
  <2>3. ASSUME UNCHANGED callVars, TypeOK'
        PROVE  Typed'
    BY <2>3 DEF Numbered
  <2>4. ASSUME Deliver PROVE TypeOK'
    <3>1. inbound # <<>> /\ Head(inbound) \in Responses
      <4>1. inbound # <<>> /\ Head(inbound).kind = "response"
        BY <2>4 DEF Deliver, T!Receive
      <4>2. Head(inbound) \in Responses \cup {ServerRequest, T!ErrFrame}
        BY <4>1 DEF TypeOK
      <4> QED
        BY <4>1, <4>2 DEF ServerRequest, T!ErrFrame
    <3>2. Answer(Head(inbound).call) \in Oneshots /\ Head(inbound).id \in Ids
      BY <3>1 DEF Responses, Oneshots
    <3>3. /\ pending' \in [Ids -> Calls \cup {NoCall}]
          /\ oneshot' \in [Calls -> Oneshots]
      BY <2>4, <3>2 DEF Deliver, TypeOK
    <3>4. /\ inbound' \in Seq(Responses \cup {ServerRequest, T!ErrFrame})
          /\ UNCHANGED <<outbound, writer, reader, receiver, callVars, loopVars, served>>
      BY <2>4, <3>1 DEF Deliver, T!Receive, TypeOK
    <3> QED
      BY <3>3, <3>4 DEF TypeOK
  <2>5. ASSUME ReceiveServerRequest PROVE TypeOK'
    BY <2>5 DEF ReceiveServerRequest, T!Receive, TypeOK
  <2>6. ASSUME HandlerReturns PROVE TypeOK'
    BY <2>6 DEF HandlerReturns, TypeOK
  <2>7. ASSUME HandlerReplies PROVE TypeOK'
    <3>1. Append(outbound, Reply) \in Seq(Requests \cup {Reply})
      BY DEF TypeOK
    <3> QED
      BY <2>7, <3>1 DEF HandlerReplies, T!QueueOutbound, TypeOK
  <2>8. ASSUME TakePending PROVE TypeOK'
    <3>1. taken' \in SUBSET Calls /\ pending' \in [Ids -> Calls \cup {NoCall}]
      BY <2>8 DEF TakePending, TypeOK
    <3> QED
      BY <2>8, <3>1 DEF TakePending, T!Receive, TypeOK
  <2>9. ASSUME FailTaken PROVE TypeOK'
    <3>1. oneshot' \in [Calls -> Oneshots]
      BY <2>9 DEF FailTaken, TypeOK, Oneshots
    <3>2. inbound' \in Seq(Responses \cup {ServerRequest, T!ErrFrame})
      BY <2>9 DEF FailTaken
    <3>3. receiver' \in BOOLEAN /\ closed' \in BOOLEAN
      BY <2>9 DEF FailTaken
    <3> QED
      BY <2>9, <3>1, <3>2, <3>3 DEF FailTaken, TypeOK
  <2>10. ASSUME PeerReceives PROVE TypeOK'
    <3>1. outbound # <<>> /\ Head(outbound) \in Requests \cup {Reply}
      BY <2>10 DEF PeerReceives, T!WriterSends, TypeOK
    <3>2. served' \in SUBSET Requests
      BY <2>10, <3>1 DEF PeerReceives, TypeOK, Reply
    <3>3. outbound' \in Seq(Requests \cup {Reply})
      BY <2>10, <3>1 DEF PeerReceives, T!WriterSends, TypeOK
    <3> QED
      BY <2>10, <3>2, <3>3 DEF PeerReceives, T!WriterSends, TypeOK
  <2>11. ASSUME PeerSends PROVE TypeOK'
    <3>1. \A m \in served : Response(m) \in Responses
      BY DEF TypeOK, Response, Requests, Responses
    <3>2. PICK f \in Responses \cup {ServerRequest, T!ErrFrame} : T!ReaderForwards(f)
      BY <2>11, <3>1 DEF PeerSends
    <3>3. inbound' \in Seq(Responses \cup {ServerRequest, T!ErrFrame})
      <4>1. Append(inbound, f) \in Seq(Responses \cup {ServerRequest, T!ErrFrame})
        BY DEF TypeOK
      <4> QED
        BY <3>2, <4>1 DEF T!ReaderForwards, T!PushInbound, TypeOK
    <3> QED
      BY <2>11, <3>2, <3>3 DEF PeerSends, T!ReaderForwards, TypeOK, T!TaskStates
  <2>12. ASSUME UNCHANGED vars PROVE Typed'
    BY <2>12 DEF vars, TypeOK, Numbered
  <2>13. ASSUME NEW c \in Calls, Begin(c) PROVE Typed'
    BY <2>1, <2>13 DEF Begin, TypeOK
  <2>14. ASSUME NEW c \in Calls, HandlerCall(c) PROVE Typed'
    BY <2>1, <2>14 DEF HandlerCall
  <2>15. ASSUME LoopStep \/ PeerReceives \/ PeerSends PROVE Typed'
    <3>1. TypeOK'
      BY <2>15, <2>4, <2>5, <2>6, <2>7, <2>8, <2>9, <2>10, <2>11 DEF LoopStep
    <3>2. UNCHANGED callVars
      BY <2>15 DEF LoopStep, Deliver, ReceiveServerRequest, HandlerReturns,
                   HandlerReplies, TakePending, FailTaken, PeerReceives, PeerSends
    <3> QED
      BY <2>3, <3>1, <3>2
  <2>16. ASSUME TransportBreaks \/ TransportReports PROVE Typed'
    BY <2>3, <2>16, ReportTyped DEF TransportBreaks, TransportReports
  <2> QED
    BY <2>2, <2>12, <2>13, <2>14, <2>15, <2>16 DEF Next
<1> QED
  BY <1>1, <1>2, PTL DEF Spec

\* Whatever the peer sends and however calls end, every value is one of its type;
\* in particular a response that names no registered id leaves no bad entry.
THEOREM TypeCorrect == Spec => []TypeOK
<1>1. Typed => TypeOK
  BY DEF Typed
<1> QED
  BY <1>1, TypedInvariant, PTL

-----------------------------------------------------------------------------
(* The pending map                                                         *)

\* An entry leads to a call that took that id and whose oneshot is unused; if
\* the call is over, then because its future was dropped.
Registered ==
  \A i \in Ids : pending[i] # NoCall =>
    /\ id[pending[i]] = i
    /\ at[pending[i]] \notin {"idle", "insert"}
    /\ oneshot[pending[i]] = Empty
    /\ at[pending[i]] = "done" => outcome[pending[i]].kind = "cancelled"

\* A call is taken out of the map before it is failed.
TakenOnce == /\ loop # "failing" => taken = {}
             /\ \A c \in taken : /\ at[c] \notin {"idle", "insert"}
                                 /\ pending[id[c]] # c

\* A registered call that listens is in the map, is taken, or has its value.
Reachable ==
  \A c \in Calls :
    /\ at[c] \in {"idle", "insert"} => oneshot[c] = Empty
    /\ Listening(c) /\ oneshot[c] = Empty => pending[id[c]] = c \/ c \in taken

MapInvariant == Registered /\ TakenOnce /\ Reachable

\* The actions leave the pending map consistent.
LEMMA MapStep ==
  ASSUME Typed, MapInvariant, [Next]_vars
  PROVE  MapInvariant'
<1> USE DEF Typed, TypeOK, Numbered, MapInvariant, Registered, TakenOnce, Reachable,
            Listening, Goto, callVars, loopVars
<1>1. ASSUME NEW c \in Calls, TakeId(c), UNCHANGED <<loop, taken, closed>>
      PROVE  MapInvariant'
  BY <1>1 DEF TakeId
<1>2. ASSUME NEW c \in Calls, Insert(c) PROVE MapInvariant'
  <2>1. id[c] \in Ids /\ \A d \in Calls \ {c} : at[d] # "idle" => id[d] # id[c]
    BY <1>2 DEF Insert, Ids
  <2>2. Registered'
    BY <1>2, <2>1 DEF Insert
  <2>3. TakenOnce'
    BY <1>2, <2>1 DEF Insert
  <2>4. Reachable'
    BY <1>2, <2>1 DEF Insert
  <2> QED
    BY <2>2, <2>3, <2>4
<1>3. ASSUME NEW c \in Calls, Send(c) PROVE MapInvariant'
  BY <1>3 DEF Send
<1>4. ASSUME NEW c \in Calls, SendFails(c) PROVE MapInvariant'
  BY <1>4 DEF SendFails
<1>5. ASSUME NEW c \in Calls, Complete(c) PROVE MapInvariant'
  BY <1>5 DEF Complete
<1>6. ASSUME NEW c \in Calls, Elapse(c) PROVE MapInvariant'
  BY <1>6 DEF Elapse
<1>7. ASSUME NEW c \in Calls, Cleanup(c) PROVE MapInvariant'
  <2>1. id[c] \in Ids /\ \A d \in Calls \ {c} : at[d] # "idle" => id[d] # id[c]
    BY <1>7 DEF Cleanup, Ids
  <2>2. Registered'
    BY <1>7, <2>1 DEF Cleanup
  <2>3. TakenOnce'
    BY <1>7, <2>1 DEF Cleanup
  <2>4. Reachable'
    BY <1>7, <2>1 DEF Cleanup
  <2> QED
    BY <2>2, <2>3, <2>4
<1>8. ASSUME NEW c \in Calls, Cancel(c) PROVE MapInvariant'
  BY <1>8 DEF Cancel, Return
<1>9. CASE Deliver
  <2>1. Head(inbound).id \in Ids
    <3>1. inbound # <<>> /\ Head(inbound).kind = "response"
      BY <1>9 DEF Deliver, T!Receive
    <3>2. Head(inbound) \in Responses \cup {ServerRequest, T!ErrFrame}
      BY <3>1
    <3> QED
      BY <3>1, <3>2 DEF Responses, ServerRequest, T!ErrFrame
  <2>2. Answer(Head(inbound).call) # Empty
    BY DEF Answer, Empty
  <2>3. Registered'
    BY <1>9, <2>1, <2>2 DEF Deliver
  <2>4. TakenOnce'
    BY <1>9, <2>1, <2>2 DEF Deliver
  <2>5. Reachable'
    BY <1>9, <2>1, <2>2 DEF Deliver
  <2> QED
    BY <2>3, <2>4, <2>5
<1>10. CASE TakePending
  <2>1. \A c \in Calls : Listening(c) => id[c] \in Ids
    BY DEF Ids
  <2>2. NoCall \notin Calls
    OBVIOUS
  <2>3. Registered'
    BY <1>10 DEF TakePending
  <2>4. TakenOnce'
    BY <1>10 DEF TakePending, Ids
  <2>5. Reachable'
    BY <1>10, <2>1, <2>2 DEF TakePending
  <2> QED
    BY <2>3, <2>4, <2>5
<1>11. CASE FailTaken
  <2>1. TransportFailure # Empty
    BY DEF TransportFailure, Empty
  <2>2. Registered'
    BY <1>11 DEF FailTaken
  <2>3. TakenOnce'
    BY <1>11 DEF FailTaken
  <2>4. Reachable'
    BY <1>11, <2>1 DEF FailTaken
  <2> QED
    BY <2>2, <2>3, <2>4
<1>12. ASSUME NEW c \in Calls, Begin(c) \/ HandlerCall(c) PROVE MapInvariant'
  BY <1>1, <1>12 DEF Begin, HandlerCall
<1>13. CASE ReceiveServerRequest \/ HandlerReturns \/ HandlerReplies
  BY <1>13 DEF ReceiveServerRequest, HandlerReturns, HandlerReplies
<1>14. CASE PeerReceives \/ PeerSends \/ TransportBreaks \/ TransportReports
  BY <1>14 DEF PeerReceives, PeerSends, TransportBreaks, TransportReports
<1>15. CASE UNCHANGED vars
  BY <1>15 DEF vars
<1> QED
  BY <1>2, <1>3, <1>4, <1>5, <1>6, <1>7, <1>8, <1>9, <1>10, <1>11, <1>12, <1>13, <1>14,
     <1>15 DEF Next, CallStep, LoopStep

\* The pending map is consistent in every reachable state.
LEMMA MapHolds == Spec => []MapInvariant
<1>1. Init => MapInvariant
  BY DEF Init, MapInvariant, Registered, TakenOnce, Reachable, Listening
<1>2. Typed /\ MapInvariant /\ [Next]_vars => MapInvariant'
  BY MapStep
<1> QED
  BY <1>1, <1>2, TypedInvariant, PTL DEF Spec

\* However the map is taken, cleared or cleaned up, a call that waits can still
\* be completed.
THEOREM WaitingReachable == Spec => []WaitingIsReachable
<1>1. MapInvariant => WaitingIsReachable
  BY DEF MapInvariant, Reachable, WaitingIsReachable, Listening
<1> QED
  BY <1>1, MapHolds, PTL

\* A call that returned, with a value or an error, left no entry in the map.
THEOREM ReturnedCallsLeaveNothing == Spec => []NoStaleEntry
<1>1. MapInvariant => NoStaleEntry
  BY DEF MapInvariant, Registered, NoStaleEntry
<1> QED
  BY <1>1, MapHolds, PTL

-----------------------------------------------------------------------------
(* Refinement of RpcCalls                                                  *)

\* A message that carries the id its call took.
Genuine(m) == at[m.call] # "idle" /\ m.id = id[m.call]

\* Queued requests, served requests and responses are all genuine.
Correlated ==
  /\ \A k \in 1..Len(outbound) : outbound[k].kind = "request" => Genuine(outbound[k])
  /\ \A m \in served : Genuine(m)
  /\ \A k \in 1..Len(inbound) :
       inbound[k].kind = "response" =>
         Genuine(inbound[k]) /\ inbound[k].call \in ServedCalls

\* A call holds no answer but its own, and has one only after it was served.
OwnAnswers ==
  \A c \in Calls :
    /\ oneshot[c].kind = "answer" => oneshot[c] = Answer(c) /\ c \in ServedCalls
    /\ outcome[c].kind = "answer" => outcome[c] = Answer(c) /\ at[c] = "done"

AnswerInvariant == Correlated /\ OwnAnswers

\* The kinds of the values the channels and the oneshots hold.
LEMMA Kinds == /\ TransportFailure.kind = "transport" /\ Empty.kind = "empty"
               /\ \A c : Answer(c).kind = "answer" /\ Answer(c).call = c
               /\ Reply.kind = "reply" /\ ServerRequest.kind = "serverRequest"
               /\ T!ErrFrame.kind = "error"
               /\ \A c \in Calls : /\ Request(c).kind = "request"
                                   /\ Request(c).call = c /\ Request(c).id = id[c]
BY DEF TransportFailure, Empty, Answer, Reply, ServerRequest, T!ErrFrame, Request

\* What a queue holds after its head is taken or a message is added.
LEMMA QueueFacts ==
  ASSUME NEW S, NEW q \in Seq(S)
  PROVE  /\ \A m \in S : /\ Append(q, m) \in Seq(S)
                         /\ Len(Append(q, m)) = Len(q) + 1
                         /\ \A k \in 1..Len(q) : Append(q, m)[k] = q[k]
                         /\ Append(q, m)[Len(q) + 1] = m
         /\ q # <<>> => /\ Head(q) = q[1] /\ 1 \in 1..Len(q)
                        /\ Len(Tail(q)) = Len(q) - 1
                        /\ \A k \in 1..Len(Tail(q)) :
                             Tail(q)[k] = q[k + 1] /\ k + 1 \in 1..Len(q)
OBVIOUS

\* Genuine messages stay genuine whatever the calls do.
LEMMA GenuineStays ==
  ASSUME Typed, NEW c \in Calls, TakeId(c) \/ CallStep(c) \/ Cancel(c)
  PROVE  \A m : m.call \in Calls /\ Genuine(m) => Genuine(m)'
<1> USE DEF Typed, TypeOK, Genuine, Goto
<1>1. CASE TakeId(c)
  BY <1>1 DEF TakeId
<1>2. CASE CallStep(c) \/ Cancel(c)
  <2>1. UNCHANGED id /\ \E p \in Points \ {"idle"} : Goto(c, p)
    BY <1>2 DEF CallStep, Cancel, Insert, Send, SendFails, Complete, Elapse, Cleanup,
                Return, Points
  <2> QED
    BY <2>1
<1> QED
  BY <1>1, <1>2

\* The messages in the channels and in the peer's hands have a call.
LEMMA MessagesHaveCalls ==
  ASSUME Typed
  PROVE  /\ \A k \in 1..Len(outbound) :
              outbound[k].kind = "request" => outbound[k] \in Requests
         /\ \A k \in 1..Len(inbound) :
              inbound[k].kind = "response" => inbound[k] \in Responses
         /\ \A m \in Requests \cup Responses : m.call \in Calls /\ m.id \in Ids
         /\ \A m \in served : m \in Requests
         /\ \A m \in Requests : m.kind = "request"
         /\ \A m \in Responses : m.kind = "response"
<1>1. /\ \A k \in 1..Len(outbound) : outbound[k] \in Requests \cup {Reply}
      /\ \A k \in 1..Len(inbound) : inbound[k] \in Responses \cup {ServerRequest, T!ErrFrame}
      /\ served \subseteq Requests
  BY DEF Typed, TypeOK
<1>2. \A m \in Requests \cup Responses : m.call \in Calls /\ m.id \in Ids
  BY DEF Requests, Responses
<1>3. /\ \A m \in Requests : m.kind = "request"
      /\ \A m \in Responses : m.kind = "response"
  BY DEF Requests, Responses
<1> QED
  BY <1>1, <1>2, <1>3, Kinds

\* The actions deliver no call an answer that is not its own.
LEMMA AnswerStep ==
  ASSUME Typed, MapInvariant, AnswerInvariant, [Next]_vars
  PROVE  AnswerInvariant'
<1> USE DEF AnswerInvariant
<1>1. ASSUME NEW c \in Calls, TakeId(c) \/ CallStep(c) \/ Cancel(c)
      PROVE  Correlated'
  <2>1. \A m : m.call \in Calls /\ Genuine(m) => Genuine(m)'
    BY <1>1, GenuineStays
  <2>2. UNCHANGED <<inbound, served>>
    BY <1>1 DEF TakeId, CallStep, Cancel, Insert, Send, SendFails, Complete, Elapse,
                Cleanup, transportVars, T!QueueOutbound
  <2>3. CASE UNCHANGED outbound
    BY <2>1, <2>2, <2>3, MessagesHaveCalls DEF Correlated, ServedCalls
  <2>4. CASE Send(c)
    <3>1. outbound' = Append(outbound, Request(c)) /\ UNCHANGED id /\ at'[c] = "wait"
      BY <2>4 DEF Send, T!QueueOutbound, Goto, Typed, TypeOK
    <3>2. Genuine(Request(c))'
      BY <3>1 DEF Genuine, Request
    <3>3. \A k \in 1..Len(outbound)' :
            outbound'[k].kind = "request" => Genuine(outbound[k])'
      <4>1. /\ Len(outbound)' = Len(outbound) + 1 /\ Len(outbound) \in Nat
            /\ \A k \in 1..Len(outbound) : outbound'[k] = outbound[k]
            /\ outbound'[Len(outbound) + 1] = Request(c)
        <5>1. outbound \in Seq(Requests \cup {Reply} \cup {Request(c)})
          BY DEF Typed, TypeOK
        <5> QED
          BY <3>1, <5>1
      <4>2. UNCHANGED Request(c)
        BY <3>1 DEF Request
      <4>3. ASSUME NEW k \in 1..Len(outbound)', outbound'[k].kind = "request"
            PROVE  Genuine(outbound[k])'
        <5>1. CASE k \in 1..Len(outbound)
          BY <2>1, <4>1, <4>3, <5>1, MessagesHaveCalls DEF Correlated, Genuine
        <5>2. CASE k = Len(outbound) + 1
          BY <3>2, <4>1, <4>2, <5>2 DEF Genuine
        <5> QED
          BY <4>1, <5>1, <5>2
      <4> QED
        BY <4>3
    <3> QED
      BY <2>1, <2>2, <3>3, MessagesHaveCalls DEF Correlated, ServedCalls
  <2> QED
    BY <1>1, <2>3, <2>4 DEF TakeId, CallStep, Cancel, Insert, SendFails, Complete, Elapse,
                            Cleanup, transportVars
<1>2. ASSUME NEW c \in Calls, TakeId(c) \/ CallStep(c) \/ Cancel(c)
      PROVE  OwnAnswers'
  <2> USE DEF OwnAnswers, Typed, TypeOK, Goto
  <2>1. UNCHANGED <<oneshot, served>>
    BY <1>2 DEF TakeId, CallStep, Cancel, Insert, Send, SendFails, Complete, Elapse,
                Cleanup
  <2>2. \A d \in Calls :
          outcome'[d].kind = "answer" => outcome'[d] = Answer(d) /\ at'[d] = "done"
    <3>1. CASE TakeId(c) \/ Insert(c) \/ Send(c)
      BY <3>1 DEF TakeId, Insert, Send
    <3>2. CASE SendFails(c) \/ Elapse(c)
      <4>1. PICK o \in {[kind |-> "Timeout"], [kind |-> "TransportSend"]} :
              outcome' = [outcome EXCEPT ![c] = o] /\ at' = [at EXCEPT ![c] = "cleanup"]
        BY <3>2 DEF SendFails, Elapse
      <4>2. o.kind # "answer" /\ at[c] # "done"
        BY <3>2 DEF SendFails, Elapse
      <4> QED
        BY <4>1, <4>2
    <3>3. CASE Complete(c)
      BY <3>3 DEF Complete
    <3>4. CASE Cleanup(c)
      BY <3>4 DEF Cleanup
    <3>5. CASE Cancel(c)
      BY <3>5 DEF Cancel, Return
    <3> QED
      BY <1>2, <3>1, <3>2, <3>3, <3>4, <3>5 DEF CallStep
  <2> QED
    BY <2>1, <2>2 DEF ServedCalls
<1>3. ASSUME UNCHANGED <<at, id, outcome>>, oneshot' = oneshot,
             PeerReceives \/ PeerSends
      PROVE  AnswerInvariant'
  <2> USE DEF Correlated, OwnAnswers
  <2>1. ServedCalls \subseteq ServedCalls'
    BY <1>3 DEF PeerReceives, PeerSends, ServedCalls
  <2>2. OwnAnswers'
    BY <1>3, <2>1
  <2>3. CASE PeerReceives
    <3>1. /\ outbound \in Seq(Requests \cup {Reply}) /\ outbound # <<>>
          /\ outbound' = Tail(outbound) /\ UNCHANGED inbound
          /\ served' = served \cup {m \in {Head(outbound)} : m.kind = "request"}
      BY <2>3 DEF PeerReceives, T!WriterSends, Typed, TypeOK
    <3>2. /\ Head(outbound) = outbound[1] /\ 1 \in 1..Len(outbound)
          /\ \A k \in 1..Len(outbound') :
               outbound'[k] = outbound[k + 1] /\ k + 1 \in 1..Len(outbound)
      BY <3>1, QueueFacts
    <3>3. Correlated'
      BY <1>3, <2>1, <3>1, <3>2 DEF Genuine
    <3> QED
      BY <2>2, <3>3
  <2>4. CASE PeerSends
    <3>1. UNCHANGED <<outbound, served>>
      BY <2>4 DEF PeerSends, T!ReaderForwards
    <3>2. PICK f \in {Response(m) : m \in served} \cup {ServerRequest, T!ErrFrame} :
            T!ReaderForwards(f)
      BY <2>4 DEF PeerSends
    <3>3. f.kind = "response" => Genuine(f) /\ f.call \in ServedCalls
      BY Kinds DEF Genuine, Response, ServedCalls
    <3>4. f \in Responses \cup {ServerRequest, T!ErrFrame}
      BY MessagesHaveCalls DEF Response, Responses
    <3>5. CASE UNCHANGED inbound
      BY <1>3, <2>2, <3>1, <3>5 DEF Genuine, ServedCalls
    <3>6. CASE inbound' = Append(inbound, f)
      <4>1. inbound \in Seq(Responses \cup {ServerRequest, T!ErrFrame})
        BY DEF Typed, TypeOK
      <4>2. /\ Len(inbound)' = Len(inbound) + 1 /\ Len(inbound) \in Nat
            /\ \A k \in 1..Len(inbound) : inbound'[k] = inbound[k]
            /\ inbound'[Len(inbound) + 1] = f
        BY <3>4, <3>6, <4>1
      <4>3. Correlated'
        BY <1>3, <3>1, <3>3, <4>2 DEF Genuine, ServedCalls
      <4> QED
        BY <2>2, <4>3
    <3> QED
      BY <3>2, <3>5, <3>6 DEF T!ReaderForwards, T!PushInbound
  <2> QED
    BY <1>3, <2>3, <2>4
<1>4. ASSUME UNCHANGED <<at, id, outcome, served>>,
             \A k \in 1..Len(outbound') :
               outbound'[k].kind = "request" =>
                 \E j \in 1..Len(outbound) : outbound'[k] = outbound[j],
             \A k \in 1..Len(inbound') :
               inbound'[k].kind = "response" =>
                 \E j \in 1..Len(inbound) : inbound'[k] = inbound[j],
             OwnAnswers'
      PROVE  AnswerInvariant'
  BY <1>4 DEF Correlated, Genuine, ServedCalls
<1>5. ASSUME T!Receive
      PROVE  /\ UNCHANGED outbound
             /\ \A k \in 1..Len(inbound') : \E j \in 1..Len(inbound) : inbound'[k] = inbound[j]
  <2>1. /\ inbound \in Seq(Responses \cup {ServerRequest, T!ErrFrame}) /\ inbound # <<>>
        /\ inbound' = Tail(inbound) /\ UNCHANGED outbound
    BY <1>5 DEF T!Receive, Typed, TypeOK
  <2> QED
    BY <2>1, QueueFacts
<1>6. CASE Deliver
  <2>1. inbound # <<>> /\ Head(inbound).kind = "response"
    BY <1>6 DEF Deliver, T!Receive
  <2>2. Head(inbound) = inbound[1] /\ 1 \in 1..Len(inbound)
    BY <2>1, QueueFacts DEF Typed, TypeOK
  <2>3. /\ Genuine(Head(inbound)) /\ Head(inbound).call \in ServedCalls
        /\ Head(inbound).call \in Calls /\ Head(inbound).id \in Ids
    BY <2>1, <2>2, MessagesHaveCalls DEF Correlated
  <2>4. pending[Head(inbound).id] # NoCall
          => pending[Head(inbound).id] = Head(inbound).call
    BY <2>3 DEF MapInvariant, Registered, Genuine, Typed, TypeOK, Numbered
  <2>5. /\ UNCHANGED <<at, id, outcome, served>>
        /\ \/ UNCHANGED oneshot
           \/ LET c == Head(inbound).call
              IN  oneshot' = [oneshot EXCEPT ![c] = Answer(c)]
    BY <1>6, <2>4 DEF Deliver, callVars
  <2>6. OwnAnswers'
    BY <2>3, <2>5, Kinds, SMTT(30) DEF OwnAnswers, Typed, TypeOK, ServedCalls
  <2> QED
    BY <1>4, <1>5, <1>6, <2>5, <2>6 DEF Deliver
<1>7. CASE FailTaken
  <2>1. OwnAnswers'
    BY <1>7, Kinds DEF FailTaken, OwnAnswers, callVars, ServedCalls
  <2>2. \A k \in 1..Len(inbound') : FALSE
    BY <1>7 DEF FailTaken
  <2> QED
    BY <1>4, <1>7, <2>1, <2>2 DEF FailTaken, callVars
<1>8. CASE HandlerReplies
  <2>1. OwnAnswers'
    BY <1>8 DEF HandlerReplies, OwnAnswers, callVars, ServedCalls
  <2>2. /\ UNCHANGED inbound
        /\ \/ UNCHANGED outbound
           \/ outbound' = Append(outbound, Reply)
    BY <1>8 DEF HandlerReplies, T!QueueOutbound, transportVars
  <2>3. outbound \in Seq(Requests \cup {Reply})
    BY DEF Typed, TypeOK
  <2>4. \A k \in 1..Len(outbound') :
          outbound'[k].kind = "request" =>
            \E j \in 1..Len(outbound) : outbound'[k] = outbound[j]
    BY <2>2, <2>3, Kinds
  <2> QED
    BY <1>4, <1>8, <2>1, <2>2, <2>4 DEF HandlerReplies, callVars
<1>9. CASE TransportBreaks \/ TransportReports
  <2>1. OwnAnswers'
    BY <1>9 DEF TransportBreaks, TransportReports, OwnAnswers, callVars, ServedCalls
  <2>2. /\ outbound \in Seq(Requests \cup {Reply})
        /\ inbound \in Seq(Responses \cup {ServerRequest, T!ErrFrame})
    BY DEF Typed, TypeOK
  <2>3. \A k \in 1..Len(outbound') : \E j \in 1..Len(outbound) : outbound'[k] = outbound[j]
    <3>1. \/ UNCHANGED outbound
          \/ outbound' = <<>>
          \/ outbound # <<>> /\ outbound' = Tail(outbound)
      BY <1>9 DEF TransportBreaks, TransportReports, T!WriterFails, T!ReaderCloses,
                  T!ReaderEof, T!WriterReports, T!ReaderReports
    <3> QED
      BY <2>2, <3>1, QueueFacts, SMTT(30)
  <2>4. \A k \in 1..Len(inbound') :
          inbound'[k].kind = "response" =>
            \E j \in 1..Len(inbound) : inbound'[k] = inbound[j]
    <3>1. \/ UNCHANGED inbound
          \/ inbound' = Append(inbound, T!ErrFrame)
      BY <1>9 DEF TransportBreaks, TransportReports, T!WriterFails, T!ReaderCloses,
                  T!ReaderEof, T!WriterReports, T!ReaderReports, T!PushInbound
    <3> QED
      BY <2>2, <3>1, Kinds
  <2> QED
    BY <1>4, <1>9, <2>1, <2>3, <2>4 DEF TransportBreaks, TransportReports, callVars
<1>10. CASE ReceiveServerRequest \/ TakePending
  BY <1>4, <1>5, <1>10 DEF ReceiveServerRequest, TakePending, OwnAnswers, callVars,
                           ServedCalls
<1>11. CASE HandlerReturns \/ UNCHANGED vars
  BY <1>4, <1>11 DEF HandlerReturns, OwnAnswers, vars, transportVars, callVars, ServedCalls
<1>12. ASSUME NEW c \in Calls, Begin(c) \/ HandlerCall(c) \/ CallStep(c) \/ Cancel(c)
       PROVE  AnswerInvariant'
  BY <1>1, <1>2, <1>12 DEF Begin, HandlerCall
<1>13. CASE PeerReceives \/ PeerSends
  BY <1>3, <1>13 DEF PeerReceives, PeerSends, callVars
<1> QED
  BY <1>6, <1>7, <1>8, <1>9, <1>10, <1>11, <1>12, <1>13 DEF Next, LoopStep

\* Answers stay with their calls in every reachable state.
LEMMA AnswersHold == Spec => [](Typed /\ MapInvariant /\ AnswerInvariant)
<1>1. Init => AnswerInvariant
  BY Kinds DEF Init, AnswerInvariant, Correlated, OwnAnswers, T!TransportInit
<1>2. Typed /\ MapInvariant /\ AnswerInvariant /\ [Next]_vars => AnswerInvariant'
  BY AnswerStep
<1> QED
  BY <1>1, <1>2, TypedInvariant, MapHolds, PTL DEF Spec

\* What the refinement mapping makes of the state of a call.
Mapped(c) == IF at[c] = "idle" THEN "idle"
             ELSE IF at[c] # "done" THEN "open"
             ELSE IF outcome[c].kind = "answer" THEN "answered" ELSE "failed"

\* The refinement mapping is the function Mapped, in a state ...
LEMMA StatusIsMapped ==
  ASSUME at \in [Calls -> Points], OwnAnswers, NEW c \in Calls
  PROVE  StatusOf(c) = Mapped(c)
BY Kinds DEF StatusOf, Mapped, OwnAnswers, Points

\* ... and in the next state.
LEMMA StatusIsMappedNext ==
  ASSUME at' \in [Calls -> Points], OwnAnswers', NEW c \in Calls
  PROVE  StatusOf(c)' = Mapped(c)'
BY Kinds DEF StatusOf, Mapped, OwnAnswers, Points

\* Every step of the request path is a step of RpcCalls or leaves it alone.
LEMMA StepRefines ==
  ASSUME Typed, MapInvariant, AnswerInvariant, Typed', AnswerInvariant', [Next]_vars
  PROVE  [Promise!CallsNext]_(Promise!callVars)
<1>1. /\ \A c \in Calls : StatusOf(c) = Mapped(c)
      /\ \A c \in Calls : StatusOf(c)' = Mapped(c)'
  BY StatusIsMapped, StatusIsMappedNext DEF Typed, TypeOK, AnswerInvariant
<1>2. ASSUME NEW c \in Calls, NEW f, NEW t, Mapped(c) = f, Mapped(c)' = t,
             \A d \in Calls \ {c} : Mapped(d)' = Mapped(d), UNCHANGED served
      PROVE  Promise!Move(c, f, t) /\ UNCHANGED ServedCalls
  BY <1>1, <1>2 DEF Promise!Move, ServedCalls
<1>3. ASSUME \A c \in Calls : Mapped(c)' = Mapped(c), UNCHANGED ServedCalls
      PROVE  UNCHANGED Promise!callVars
  BY <1>1, <1>3 DEF Promise!callVars
<1>4. ASSUME UNCHANGED <<at, outcome, served>>
      PROVE  UNCHANGED Promise!callVars
  BY <1>3, <1>4 DEF Mapped, ServedCalls
<1>5. ASSUME NEW c \in Calls, TakeId(c)
      PROVE  Promise!CallsNext
  <2>1. Promise!Call(c)
    BY <1>2, <1>5 DEF Promise!Call, Mapped, TakeId, Goto, Typed, TypeOK
  <2> QED
    BY <2>1 DEF Promise!CallsNext
<1>6. ASSUME NEW c \in Calls, Insert(c) \/ Send(c) \/ SendFails(c) \/ Elapse(c)
      PROVE  UNCHANGED Promise!callVars
  <2>1. \A d \in Calls : Mapped(d)' = Mapped(d)
    BY <1>6 DEF Mapped, Insert, Send, SendFails, Elapse, Goto, Typed, TypeOK
  <2>2. UNCHANGED ServedCalls
    BY <1>6 DEF Insert, Send, SendFails, Elapse, ServedCalls
  <2> QED
    BY <1>3, <2>1, <2>2
<1>7. ASSUME NEW c \in Calls, Complete(c)
      PROVE  Promise!CallsNext
  <2>1. /\ at[c] = "wait" /\ at' = [at EXCEPT ![c] = "done"]
        /\ outcome' = [outcome EXCEPT ![c] = oneshot[c]]
        /\ UNCHANGED served
    BY <1>7 DEF Complete, Goto
  <2>2. CASE oneshot[c].kind = "answer"
    <3>1. c \in ServedCalls
      BY <2>2 DEF AnswerInvariant, OwnAnswers
    <3>2. Promise!Move(c, "open", "answered") /\ UNCHANGED ServedCalls
      <4>1. Mapped(c) = "open" /\ Mapped(c)' = "answered"
        BY <2>1, <2>2 DEF Mapped, Typed, TypeOK
      <4>2. \A d \in Calls \ {c} : Mapped(d)' = Mapped(d)
        BY <2>1 DEF Mapped, Typed, TypeOK
      <4> QED
        BY <1>2, <2>1, <4>1, <4>2
    <3> QED
      BY <3>1, <3>2 DEF Promise!Answered, Promise!CallsNext
  <2>3. CASE oneshot[c].kind # "answer"
    <3>1. Promise!Move(c, "open", "failed") /\ UNCHANGED ServedCalls
      <4>1. Mapped(c) = "open" /\ Mapped(c)' = "failed"
        BY <2>1, <2>3 DEF Mapped, Typed, TypeOK
      <4>2. \A d \in Calls \ {c} : Mapped(d)' = Mapped(d)
        BY <2>1 DEF Mapped, Typed, TypeOK
      <4> QED
        BY <1>2, <2>1, <4>1, <4>2
    <3> QED
      BY <3>1 DEF Promise!GivenUp, Promise!CallsNext
  <2> QED
    BY <2>2, <2>3
<1>8. ASSUME NEW c \in Calls, Cleanup(c) \/ Cancel(c)
      PROVE  Promise!CallsNext
  <2>1. /\ at[c] \notin {"idle", "done"} /\ at' = [at EXCEPT ![c] = "done"]
        /\ \A d \in Calls \ {c} : outcome'[d] = outcome[d]
        /\ UNCHANGED served
    BY <1>8 DEF Cleanup, Cancel, Return, Goto, Typed, TypeOK
  <2>2. outcome'[c].kind # "answer"
    BY <1>8 DEF Cleanup, Cancel, Return, Typed, TypeOK, AnswerInvariant, OwnAnswers
  <2>3. Promise!Move(c, "open", "failed") /\ UNCHANGED ServedCalls
    BY <1>2, <2>1, <2>2 DEF Mapped, Typed, TypeOK
  <2> QED
    BY <2>3 DEF Promise!GivenUp, Promise!CallsNext
<1>9. CASE PeerReceives
  <2>1. /\ outbound \in Seq(Requests \cup {Reply}) /\ outbound # <<>>
        /\ served' = served \cup {m \in {Head(outbound)} : m.kind = "request"}
        /\ UNCHANGED <<at, id, outcome>>
    BY <1>9 DEF PeerReceives, T!WriterSends, Typed, TypeOK, callVars
  <2>2. CASE served' = served
    BY <1>4, <2>1, <2>2
  <2>3. CASE served' # served
    <3> DEFINE c == Head(outbound).call
    <3>1. Head(outbound) = outbound[1] /\ 1 \in 1..Len(outbound)
      BY <2>1, QueueFacts
    <3>2. Head(outbound).kind = "request" /\ served' = served \cup {Head(outbound)}
      BY <2>1, <2>3
    <3>3. c \in Calls /\ at[c] # "idle"
      BY <3>1, <3>2, MessagesHaveCalls DEF AnswerInvariant, Correlated, Genuine
    <3>4. ServedCalls' = ServedCalls \cup {c}
      BY <3>2 DEF ServedCalls
    <3>5. UNCHANGED [d \in Calls |-> StatusOf(d)]
      BY <1>1, <2>1 DEF Mapped
    <3>6. CASE c \in ServedCalls
      <4>1. UNCHANGED ServedCalls
        BY <3>4, <3>6
      <4> QED
        BY <3>5, <4>1 DEF Promise!callVars
    <3>7. CASE c \notin ServedCalls
      <4>1. Promise!Serve(c)
        BY <1>1, <3>3, <3>4, <3>5, <3>7 DEF Promise!Serve, Mapped
      <4> QED
        BY <3>3, <4>1 DEF Promise!CallsNext
    <3> QED
      BY <3>6, <3>7
  <2> QED
    BY <2>2, <2>3
<1>10. CASE LoopStep \/ PeerSends \/ TransportBreaks \/ TransportReports \/ UNCHANGED vars
  <2>1. UNCHANGED <<at, outcome, served>>
    BY <1>10 DEF LoopStep, Deliver, ReceiveServerRequest, HandlerReturns, HandlerReplies,
                 TakePending, FailTaken, PeerSends, TransportBreaks, TransportReports,
                 callVars, vars
  <2> QED
    BY <1>4, <2>1
<1> QED
  BY <1>5, <1>6, <1>7, <1>8, <1>9, <1>10 DEF Next, Begin, HandlerCall, CallStep

\* Whatever ids, channels, timers and dropped futures do, a call ends at most once
\* and with no answer but the one the server gave to it.
THEOREM Refinement == Spec => KeepsPromise
<1>1. Init => Promise!CallsInit
  <2> SUFFICES ASSUME Init PROVE Promise!CallsInit
    OBVIOUS
  <2>1. \A c \in Calls : StatusOf(c) = "idle"
    BY DEF Init, StatusOf
  <2>2. ServedCalls = {}
    BY DEF Init, ServedCalls
  <2> QED
    BY <2>1, <2>2 DEF Promise!CallsInit
<1>2. /\ Typed /\ MapInvariant /\ AnswerInvariant
      /\ (Typed /\ MapInvariant /\ AnswerInvariant)'
      /\ [Next]_vars
      => [Promise!CallsNext]_(Promise!callVars)
  BY StepRefines
<1> QED
  BY <1>1, <1>2, AnswersHold, PTL DEF Spec, KeepsPromise, Promise!CallsSpec

-----------------------------------------------------------------------------
(* Handlers and the end of the inbound loop                                *)

\* While the call a handler made is under way, the loop runs that handler, so that
\* nothing fills the call's oneshot.
HandlerOccupiesLoop ==
  /\ \A c \in Calls : at[c] = "idle" => oneshot[c] = Empty /\ outcome[c].kind = "none"
  /\ nested # NoCall =>
       /\ loop = "handling"
       /\ at[nested] # "idle"
       /\ oneshot[nested] = Empty
       /\ outcome[nested].kind \notin {"answer", "transport"}

\* While a handler's call waits, the loop that would deliver its answer is busy.
THEOREM HandlerCallsTimeOut == Spec => []HandlerCallsUnanswered
<1> USE DEF HandlerOccupiesLoop
<1>1. Init => HandlerOccupiesLoop
  <2>1. Init => \A c \in Calls : /\ at[c] = "idle" /\ oneshot[c] = Empty
                                 /\ outcome[c] = [kind |-> "none"]
    BY DEF Init
  <2>2. [kind |-> "none"].kind = "none"
    OBVIOUS
  <2>3. Init => nested = NoCall
    BY DEF Init
  <2> QED
    BY <2>1, <2>2, <2>3
<1>2. Typed /\ MapInvariant /\ HandlerOccupiesLoop /\ [Next]_vars => HandlerOccupiesLoop'
  <2> SUFFICES ASSUME Typed, MapInvariant, HandlerOccupiesLoop, [Next]_vars
               PROVE  HandlerOccupiesLoop'
    OBVIOUS
  <2> USE DEF Typed, TypeOK, Goto, callVars, loopVars
  <2>1. ASSUME NEW c \in Calls, Begin(c) PROVE HandlerOccupiesLoop'
    BY <2>1 DEF Begin, TakeId
  <2>2. ASSUME NEW c \in Calls, HandlerCall(c) PROVE HandlerOccupiesLoop'
    BY <2>2, CallsAssumption DEF HandlerCall, TakeId
  <2>3. ASSUME NEW c \in Calls, Insert(c) \/ Send(c) \/ Cleanup(c)
        PROVE  HandlerOccupiesLoop'
    BY <2>3 DEF Insert, Send, Cleanup
  <2>4. ASSUME NEW c \in Calls, SendFails(c) \/ Elapse(c) \/ Cancel(c)
        PROVE  HandlerOccupiesLoop'
    <3>1. /\ outcome'[c].kind \notin {"answer", "transport"}
          /\ \A d \in Calls : d # c => outcome'[d] = outcome[d]
      <4>1. PICK o \in {[kind |-> "Timeout"], [kind |-> "TransportSend"],
                        [kind |-> "cancelled"]} :
              outcome' = [outcome EXCEPT ![c] = o]
        BY <2>4 DEF SendFails, Elapse, Cancel, Return
      <4> QED
        BY <4>1
    <3>2. /\ \E q \in {"cleanup", "done"} : at' = [at EXCEPT ![c] = q]
          /\ at[c] # "idle" /\ at[c] # "done"
          /\ UNCHANGED <<loop, nested, oneshot>>
      BY <2>4 DEF SendFails, Elapse, Cancel, Return
    <3> QED
      BY <3>1, <3>2
  <2>5. ASSUME NEW c \in Calls, Complete(c) PROVE HandlerOccupiesLoop'
    BY <2>5 DEF Complete
  <2>6. CASE Deliver \/ FailTaken
    <3>1. nested = NoCall /\ UNCHANGED <<nested, at, outcome>>
      BY <2>6 DEF Deliver, FailTaken
    <3>2. \A c \in Calls : at[c] = "idle" => oneshot'[c] = oneshot[c]
      BY <2>6 DEF Deliver, FailTaken, Listening
    <3> QED
      BY <3>1, <3>2
  <2>7. CASE ReceiveServerRequest \/ HandlerReturns \/ HandlerReplies \/ TakePending
    BY <2>7 DEF ReceiveServerRequest, HandlerReturns, HandlerReplies, TakePending
  <2>8. CASE \/ PeerReceives \/ PeerSends \/ TransportBreaks \/ TransportReports
             \/ UNCHANGED vars
    BY <2>8 DEF PeerReceives, PeerSends, TransportBreaks, TransportReports, vars
  <2> QED
    BY <2>1, <2>2, <2>3, <2>4, <2>5, <2>6, <2>7, <2>8 DEF Next, CallStep, LoopStep
<1>3. HandlerOccupiesLoop => HandlerCallsUnanswered
  BY DEF HandlerCallsUnanswered
<1> QED
  BY <1>1, <1>2, <1>3, TypedInvariant, MapHolds, PTL DEF Spec

\* A writer that ended left its error in the inbound channel, and the loop ends
\* as soon as it takes one.
ErrorAhead ==
  /\ receiver <=> loop # "stopped"
  /\ writer = "stopped" /\ loop \notin {"failing", "stopped"}
       => \E k \in 1..Len(inbound) : inbound[k] = T!ErrFrame

\* The inbound loop never waits on an inbound channel that has ended.
THEOREM NeverSilent == Spec => []NoSilentEnd
<1>1. Init => ErrorAhead
  BY DEF Init, ErrorAhead, T!TransportInit
<1>2. Typed /\ ErrorAhead /\ [Next]_vars => ErrorAhead'
  <2> SUFFICES ASSUME Typed, ErrorAhead, [Next]_vars
               PROVE  ErrorAhead'
    OBVIOUS
  <2> USE DEF ErrorAhead, callVars, loopVars, transportVars
  <2>1. inbound \in Seq(Responses \cup {ServerRequest, T!ErrFrame})
    BY DEF Typed, TypeOK
  <2>2. ASSUME UNCHANGED <<inbound, writer, receiver, loop>> PROVE ErrorAhead'
    BY <2>2
  <2>3. ASSUME NEW c \in Calls, Begin(c) \/ HandlerCall(c) \/ CallStep(c) \/ Cancel(c)
        PROVE  ErrorAhead'
    BY <2>2, <2>3 DEF Begin, HandlerCall, TakeId, CallStep, Cancel, Insert, Send,
                      SendFails, Complete, Elapse, Cleanup, T!QueueOutbound
  <2>4. ASSUME T!Receive, Head(inbound) # T!ErrFrame,
               loop' \notin {"failing", "stopped"}, loop \notin {"failing", "stopped"}
        PROVE  ErrorAhead'
    <3>1. /\ inbound # <<>> /\ inbound' = Tail(inbound)
          /\ UNCHANGED <<writer, receiver>>
      BY <2>4 DEF T!Receive
    <3>2. /\ Head(inbound) = inbound[1] /\ Len(Tail(inbound)) = Len(inbound) - 1
          /\ \A k \in 1..Len(Tail(inbound)) : Tail(inbound)[k] = inbound[k + 1]
          /\ Len(inbound) \in Nat
      BY <2>1, <3>1
    <3>3. ASSUME NEW k \in 1..Len(inbound), inbound[k] = T!ErrFrame
          PROVE  \E j \in 1..Len(inbound') : inbound'[j] = T!ErrFrame
      <4>1. k # 1
        BY <2>4, <3>2, <3>3
      <4>2. k - 1 \in 1..Len(Tail(inbound)) /\ Tail(inbound)[k - 1] = T!ErrFrame
        BY <3>2, <3>3, <4>1
      <4> QED
        BY <3>1, <4>2
    <3> QED
      BY <2>4, <3>1, <3>3
  <2>5. CASE Deliver \/ ReceiveServerRequest
    BY <2>4, <2>5 DEF Deliver, ReceiveServerRequest, T!ErrFrame
  <2>6. CASE HandlerReturns \/ HandlerReplies
    BY <2>6 DEF HandlerReturns, HandlerReplies, T!QueueOutbound
  <2>7. CASE TakePending \/ FailTaken
    BY <2>7 DEF TakePending, FailTaken, T!Receive
  <2>8. ASSUME NEW f \in Responses \cup {ServerRequest, T!ErrFrame}, T!PushInbound(f)
        PROVE  \/ ~receiver
               \/ /\ \A k \in 1..Len(inbound) :
                       inbound'[k] = inbound[k] /\ k \in 1..Len(inbound')
                  /\ \E k \in 1..Len(inbound') : inbound'[k] = f
    <3>1. CASE receiver
      <4>1. inbound' = Append(inbound, f)
        BY <2>8, <3>1 DEF T!PushInbound
      <4>2. /\ Len(inbound') = Len(inbound) + 1 /\ Len(inbound) \in Nat
            /\ \A k \in 1..Len(inbound) : inbound'[k] = inbound[k]
            /\ inbound'[Len(inbound) + 1] = f
        BY <2>1, <2>8, <4>1
      <4> QED
        BY <4>2
    <3> QED
      BY <3>1
  <2>9. CASE PeerSends
    <3>1. PICK f \in Responses \cup {ServerRequest, T!ErrFrame} : T!ReaderForwards(f)
      BY <2>9, MessagesHaveCalls DEF PeerSends, Response, Responses
    <3> QED
      BY <2>8, <2>9, <3>1 DEF PeerSends, T!ReaderForwards
  <2>10. CASE TransportReports
    BY <2>8, <2>10 DEF TransportReports, T!WriterReports, T!ReaderReports
  <2>11. CASE TransportBreaks
    BY <2>11 DEF TransportBreaks, T!WriterFails, T!ReaderCloses, T!ReaderEof
  <2>12. CASE PeerReceives \/ UNCHANGED vars
    BY <2>2, <2>12 DEF PeerReceives, T!WriterSends, vars
  <2> QED
    BY <2>3, <2>5, <2>6, <2>7, <2>9, <2>10, <2>11, <2>12 DEF Next, LoopStep
<1>3. Typed /\ ErrorAhead => NoSilentEnd
  BY DEF Typed, TypeOK, ErrorAhead, NoSilentEnd, T!InboundEnded
<1> QED
  BY <1>1, <1>2, <1>3, TypedInvariant, PTL DEF Spec
=============================================================================
