----------------------------- MODULE TurnStream -----------------------------
(***************************************************************************)
(* Turns of the high-level API (crates/sdk/src/api.rs): run_streamed()     *)
(* subscribes to the client's broadcast channel, starts a turn, and spawns *)
(* a task, pump_turn_events, that filters the broadcast events of that     *)
(* turn into a bounded stream; StreamedTurn is its receiver and run() one  *)
(* consumer of it.                                                         *)
(*                                                                         *)
(* The broadcast channel keeps the last EventCap events: a pump that falls *)
(* further behind (its own stream is full while the consumer is slow) is   *)
(* moved to the oldest event kept.  Events carry the thread and the turn   *)
(* they are about, or leave either out.  An item of a stream stands for    *)
(* the event at position pos; the turn/start request is RpcClient's.       *)
(***************************************************************************)
EXTENDS Naturals, Sequences, FiniteSets

CONSTANTS Turns,       \* calls of run_streamed, and the ids of their turns
          Runs,        \* those made by run()
          Threads,
          ThreadOf,    \* the thread of each turn
          NoId,        \* an id the event leaves out
          Usages,      \* token usages
          NoUsage,     \* no usage, or one that does not parse
          Published,   \* the events the server publishes in this instance
          EventCap,    \* capacity of the broadcast channel (1024 in the code)
          StreamCap,   \* capacity of a stream (256 in the code)
          OtherTurns,  \* turns other clients started
          MaxStarted,  \* bound: calls of run_streamed
          MaxEvents    \* bound: events published

Kinds == {"item", "itemCompleted", "error", "usage", "completed", "failed",
          "closed", "serverRequest"}

Events == [kind : Kinds, thread : Threads \cup {NoId}, turn : Turns \cup OtherTurns \cup {NoId},
           usage : Usages \cup {NoUsage}]

ASSUME TurnsAssumption == Runs \subseteq Turns /\ ThreadOf \in [Turns -> Threads]
ASSUME NoIdAssumption == NoId \notin Turns \cup Threads /\ OtherTurns \cap Turns = {}
ASSUME PublishedAssumption == Published \subseteq Events
ASSUME StreamCapAssumption ==
  EventCap \in Nat \ {0} /\ StreamCap \in Nat \ {0} /\ MaxEvents \in Nat

VARIABLES events,    \* what was broadcast, oldest first
          ended,     \* has the inbound loop ended? (nothing is broadcast then)
          at,        \* where each call of run_streamed is
          since,     \* first event the call's subscription sees
          cursor,    \* next event its receiver reads
          pump,      \* its pump task
          hand,      \* what the pump is about to send
          latest,    \* latest_usage of the pump
          lagged,    \* history: did the receiver skip events?
          stream,    \* the bounded stream
          received,  \* history: what the consumer took from it
          result     \* what the consumer made of it

busVars == <<events, ended>>
pumpVars == <<cursor, pump, hand, latest, lagged>>
vars == <<busVars, at, since, pumpVars, stream, received, result>>

Item(k, e, u) == [kind |-> e.kind, pos |-> k, usage |-> u]
TurnStarted == [kind |-> "turnStarted", pos |-> 0, usage |-> NoUsage]

Init == /\ events = <<>>
        /\ ended = FALSE
        /\ at = [t \in Turns |-> "idle"]
        /\ since = [t \in Turns |-> 1]
        /\ cursor = [t \in Turns |-> 1]
        /\ pump = [t \in Turns |-> "off"]
        /\ hand = [t \in Turns |-> <<>>]
        /\ latest = [t \in Turns |-> NoUsage]
        /\ lagged = [t \in Turns |-> FALSE]
        /\ stream = [t \in Turns |-> <<>>]
        /\ received = [t \in Turns |-> <<>>]
        /\ result = [t \in Turns |-> "none"]

-----------------------------------------------------------------------------
(* The broadcast channel                                                   *)

\* An event about a turn is published once the server was asked to start it,
\* the end of a turn at most once.
Publishable(e) == /\ e.turn \in Turns => at[e.turn] # "idle"
                  /\ e.kind \in {"completed", "failed"} =>
                       /\ e.turn # NoId
                       /\ \A k \in 1..Len(events) :
                            events[k].turn = e.turn
                              => events[k].kind \notin {"completed", "failed"}

Publish == /\ ~ended
           /\ Len(events) < MaxEvents
           /\ \E e \in Published : /\ Publishable(e)
                                   /\ events' = Append(events, e)
           /\ UNCHANGED <<ended, at, since, pumpVars, stream, received, result>>

TransportClosed == [kind |-> "closed", thread |-> NoId, turn |-> NoId,
                    usage |-> NoUsage]

\* Variant: the loop ends without announcing it.
CloseSilently == /\ ~ended
                 /\ ended' = TRUE
                 /\ UNCHANGED <<events, at, since, pumpVars, stream, received, result>>

\* The inbound loop announces the loss of the transport and ends.  (A handler's
\* reply that finds no writer announces it too, and the loop goes on: an event
\* of kind "closed" among Published.)
CloseTransport == /\ ~ended
                  /\ ended' = TRUE
                  /\ events' = Append(events, TransportClosed)
                  /\ UNCHANGED <<at, since, pumpVars, stream, received, result>>

-----------------------------------------------------------------------------
(* run_streamed                                                            *)

Goto(t, p) == at' = [at EXCEPT ![t] = p]

\* It subscribes, then sends turn/start.
Subscribe(t) == /\ at[t] = "idle"
                /\ Cardinality({u \in Turns : at[u] # "idle"}) < MaxStarted
                /\ Goto(t, "starting")
                /\ since' = [since EXCEPT ![t] = Len(events) + 1]
                /\ cursor' = [cursor EXCEPT ![t] = Len(events) + 1]
                /\ UNCHANGED <<busVars, pump, hand, latest, lagged, stream,
                               received, result>>

\* The inbound loop delivers the response.
StartAccepted(t) == /\ at[t] = "starting"
                    /\ ~ended
                    /\ Goto(t, "accepted")
                    /\ UNCHANGED <<busVars, since, pumpVars, stream, received, result>>

\* turn/start fails: the subscription is dropped with the error.
StartFails(t) == /\ at[t] = "starting"
                 /\ Goto(t, "refused")
                 /\ UNCHANGED <<busVars, since, pumpVars, stream, received, result>>

\* Variant: the subscription is made once the turn was accepted.
SpawnPumpLate(t) == /\ at[t] = "accepted"
                    /\ Goto(t, "streaming")
                    /\ stream' = [stream EXCEPT ![t] = <<TurnStarted>>]
                    /\ pump' = [pump EXCEPT ![t] = "receiving"]
                    /\ cursor' = [cursor EXCEPT ![t] = Len(events) + 1]
                    /\ UNCHANGED <<busVars, since, hand, latest, lagged, received, result>>

\* The stream is created with its first item and the pump is spawned.
SpawnPump(t) == /\ at[t] = "accepted"
                /\ Goto(t, "streaming")
                /\ stream' = [stream EXCEPT ![t] = <<TurnStarted>>]
                /\ pump' = [pump EXCEPT ![t] = "receiving"]
                /\ UNCHANGED <<busVars, since, cursor, hand, latest, lagged,
                               received, result>>

-----------------------------------------------------------------------------
(* pump_turn_events                                                        *)

\* matches_target_from_extra: an id the event leaves out matches.
Matches(t, e) == e.thread \in {ThreadOf[t], NoId} /\ e.turn \in {t, NoId}

Forwards(t, e) ==
  \/ e.kind \in {"item", "itemCompleted", "error"} /\ Matches(t, e)
  \/ e.kind \in {"completed", "failed"} /\ e.turn = t /\ Matches(t, e)
  \/ e.kind = "closed"

EndKinds == {"completed", "failed", "closed"}

\* Variant: the last update takes precedence.
ReportedUpdate(t, e) == IF latest[t] = NoUsage THEN e.usage ELSE latest[t]

\* The usage a completed turn reports.
Reported(t, e) == IF e.usage = NoUsage THEN latest[t] ELSE e.usage

Oldest == IF Len(events) > EventCap THEN Len(events) - EventCap + 1 ELSE 1

Reading(t) == pump[t] = "receiving" /\ cursor[t] <= Len(events)

\* RecvError::Lagged: what was overwritten is skipped.
PumpLags(t) == /\ Reading(t)
               /\ cursor[t] < Oldest
               /\ cursor' = [cursor EXCEPT ![t] = Oldest]
               /\ lagged' = [lagged EXCEPT ![t] = TRUE]
               /\ UNCHANGED <<busVars, at, since, pump, hand, latest, stream,
                              received, result>>

PumpReceives(t) ==
  /\ Reading(t)
  /\ cursor[t] >= Oldest
  /\ cursor' = [cursor EXCEPT ![t] = @ + 1]
  /\ LET e == events[cursor[t]]
     IN  /\ latest' = IF e.kind = "usage" /\ Matches(t, e)
                        THEN [latest EXCEPT ![t] = e.usage] ELSE latest
         /\ IF Forwards(t, e)
              THEN /\ hand' = [hand EXCEPT ![t] =
                         <<Item(cursor[t], e, IF e.kind = "completed"
                                                THEN Reported(t, e) ELSE NoUsage)>>]
                   /\ pump' = [pump EXCEPT ![t] = "sending"]
              ELSE UNCHANGED <<hand, pump>>
  /\ UNCHANGED <<busVars, at, since, lagged, stream, received, result>>

\* Variant: a failed turn does not end the pump.
PumpSendsOn(t) ==
  /\ pump[t] = "sending"
  /\ Len(stream[t]) < StreamCap
  /\ stream' = [stream EXCEPT ![t] = @ \o hand[t]]
  /\ hand' = [hand EXCEPT ![t] = <<>>]
  /\ pump' = [pump EXCEPT ![t] = IF Head(hand[t]).kind \in EndKinds \ {"failed"}
                                   THEN "ended" ELSE "receiving"]
  /\ UNCHANGED <<busVars, at, since, cursor, latest, lagged, received, result>>

\* The item is queued once there is room; an end of the turn ends the pump.
PumpSends(t) ==
  /\ pump[t] = "sending"
  /\ Len(stream[t]) < StreamCap
  /\ stream' = [stream EXCEPT ![t] = @ \o hand[t]]
  /\ hand' = [hand EXCEPT ![t] = <<>>]
  /\ pump' = [pump EXCEPT ![t] = IF Head(hand[t]).kind \in EndKinds
                                   THEN "ended" ELSE "receiving"]
  /\ UNCHANGED <<busVars, at, since, cursor, latest, lagged, received, result>>

-----------------------------------------------------------------------------
(* The consumer: an application that drains a StreamedTurn, or run()       *)

\* What run() makes of an item; only these end it.
RunResult(i) == CASE i.kind = "completed"           -> "ok"
                  [] i.kind \in {"failed", "error"} -> "failed"
                  [] i.kind = "closed"              -> "closed"
                  [] OTHER                          -> "none"

\* Dropping the StreamedTurn aborts the pump.
DropStream(t) == /\ Goto(t, "dropped")
                 /\ pump' = [pump EXCEPT ![t] = "ended"]
                 /\ hand' = [hand EXCEPT ![t] = <<>>]

Consume(t) ==
  /\ at[t] = "streaming"
  /\ stream[t] # <<>>
  /\ received' = [received EXCEPT ![t] = Append(@, Head(stream[t]))]
  /\ stream' = [stream EXCEPT ![t] = Tail(@)]
  /\ IF t \in Runs /\ RunResult(Head(stream[t])) # "none"
       THEN /\ result' = [result EXCEPT ![t] = RunResult(Head(stream[t]))]
            /\ DropStream(t)
       ELSE UNCHANGED <<result, at, pump, hand>>
  /\ UNCHANGED <<busVars, since, cursor, latest, lagged>>

\* next_event() yields None: the pump ended and its stream is drained.  To run()
\* that is a closed transport.
StreamEnds(t) == /\ at[t] = "streaming"
                 /\ pump[t] = "ended"
                 /\ stream[t] = <<>>
                 /\ Goto(t, "drained")
                 /\ result' = IF t \in Runs THEN [result EXCEPT ![t] = "closed"]
                                            ELSE result
                 /\ UNCHANGED <<busVars, since, pumpVars, stream, received>>

\* The application stops listening.
Abandon(t) == /\ at[t] = "streaming"
              /\ DropStream(t)
              /\ UNCHANGED <<busVars, since, cursor, latest, lagged, stream,
                             received, result>>

-----------------------------------------------------------------------------
TurnStep(t) == \/ SpawnPump(t)
               \/ PumpLags(t)
               \/ PumpReceives(t)
               \/ PumpSends(t)
               \/ Consume(t)
               \/ StreamEnds(t)

Next == \/ Publish
        \/ CloseTransport
        \/ \E t \in Turns : \/ Subscribe(t)
                            \/ StartAccepted(t)
                            \/ StartFails(t)
                            \/ TurnStep(t)
                            \/ Abandon(t)

Spec == Init /\ [][Next]_vars

\* The runtime runs every pump, and the consumer drains its stream.
FairSpec == /\ Spec
            /\ \A t \in Turns : /\ WF_vars(SpawnPump(t))
                                /\ WF_vars(PumpLags(t) \/ PumpReceives(t))
                                /\ WF_vars(PumpSends(t))
                                /\ WF_vars(Consume(t) \/ StreamEnds(t))

-----------------------------------------------------------------------------
Points == {"idle", "starting", "accepted", "refused", "streaming", "drained", "dropped"}

Items == [kind : Kinds \cup {"turnStarted"}, pos : 0..(MaxEvents + 1),
          usage : Usages \cup {NoUsage}]

TypeOK == /\ events \in Seq(Events) /\ ended \in BOOLEAN
          /\ at \in [Turns -> Points]
          /\ since \in [Turns -> 1..(MaxEvents + 2)]
          /\ cursor \in [Turns -> 1..(MaxEvents + 2)]
          /\ pump \in [Turns -> {"off", "receiving", "sending", "ended"}]
          /\ latest \in [Turns -> Usages \cup {NoUsage}]
          /\ lagged \in [Turns -> BOOLEAN]
          /\ result \in [Turns -> {"none", "ok", "failed", "closed"}]
          /\ hand \in [Turns -> Seq(Items)]
          /\ stream \in [Turns -> Seq(Items)]
          /\ received \in [Turns -> Seq(Items)]
          /\ \A t \in Turns : /\ Len(stream[t]) <= StreamCap
                              /\ Len(hand[t]) = IF pump[t] = "sending" THEN 1 ELSE 0

\* All that went into t's stream, and what is about to.
Sent(t) == received[t] \o stream[t] \o hand[t]

Live(t) == at[t] \in {"starting", "accepted", "streaming", "drained"}

\* A pump that kept up with the broadcast channel misses no event about its turn,
\* not even those published before the response to turn/start was handled.
NothingMissing ==
  \A t \in Turns : Live(t) /\ ~lagged[t] =>
    \A k \in 1..(cursor[t] - 1) :
      events[k].turn = t /\ Forwards(t, events[k])
        => \E j \in 1..Len(Sent(t)) : Sent(t)[j].pos = k

\* A stream opens with TurnStarted, keeps the order of the events, and holds
\* nothing after the end of its turn.
WellFormedStream ==
  \A t \in Turns :
    LET s == Sent(t)
    IN  \A j \in 1..Len(s) :
          /\ j = 1 => s[j] = TurnStarted
          /\ j > 1 => s[j].pos > s[j - 1].pos
          /\ j < Len(s) => s[j].kind \notin EndKinds

\* No stream ends in silence: the last item before its None is the end of its turn or
\* the announced loss of the transport, and a pump that receives once the channel has
\* gone silent for good has that announcement still ahead of it.
NoSilentStream ==
  \A t \in Turns :
    /\ at[t] = "drained" =>
         \E k \in 1..Len(events) : /\ Forwards(t, events[k]) /\ events[k].kind \in EndKinds
                                   /\ received[t][Len(received[t])].pos = k
    /\ ended /\ pump[t] = "receiving" => cursor[t] <= Len(events)

\* run() returns Ok only after every completed item of the turn, if its pump
\* kept up.
RunOkIsComplete ==
  \A t \in Runs : result[t] = "ok" /\ ~lagged[t] =>
    LET end == received[t][Len(received[t])].pos
    IN  /\ events[end].kind = "completed" /\ events[end].turn = t
        /\ \A k \in 1..end : events[k].kind = "itemCompleted" /\ events[k].turn = t
                               /\ Matches(t, events[k])
             => \E j \in 1..Len(received[t]) : received[t][j].pos = k

\* The usage a completed turn reports is its own, or that of the last update about
\* the turn since the subscription.
UsageIsLatest ==
  \A t \in Turns : ~lagged[t] =>
    \A j \in 1..Len(Sent(t)) :
      LET i == Sent(t)[j]
          updates == {k \in since[t]..(i.pos - 1) :
                        events[k].kind = "usage" /\ Matches(t, events[k])}
          last == CHOOSE k \in updates : \A l \in updates : l <= k
      IN  i.kind = "completed" =>
            i.usage = IF events[i.pos].usage # NoUsage THEN events[i.pos].usage
                      ELSE IF updates = {} THEN NoUsage ELSE events[last].usage

Over(t) == at[t] \in {"drained", "dropped"}

Ended(t) == \E k \in 1..Len(events) : /\ events[k].kind \in {"completed", "failed"}
                                      /\ Forwards(t, events[k])

\* api.rs:509, a caller drains the stream "until its terminal event arrives": the
\* stream of a turn the server ended ends too.
TerminalArrives == \A t \in Turns : at[t] = "streaming" /\ Ended(t) ~> Over(t)

\* It does, while the consumer drains it, if its pump never fell behind.
PromptTerminalArrives ==
  \A t \in Turns : at[t] = "streaming" /\ Ended(t) ~> Over(t) \/ lagged[t]

\* When the transport is lost every stream ends, even of a pump that lags.
LossEndsStreams == \A t \in Turns : ended /\ at[t] = "streaming" ~> Over(t)
=============================================================================
