------------------------- MODULE TurnStream_proofs -------------------------
(***************************************************************************)
(* What a turn's stream guarantees for every set of turns, every traffic   *)
(* of events and every capacity of the two channels.                       *)
(***************************************************************************)
EXTENDS TurnStream, SequenceTheorems, NumberFacts, TLAPS

\* A pump has read no further than the events there are, of which one, the last,
\* announces the end.
Bounded == /\ Len(events) <= IF ended THEN MaxEvents + 1 ELSE MaxEvents
           /\ \A t \in Turns : cursor[t] <= Len(events) + 1

\* Only a call whose turn was accepted and whose stream exists has a pump.
PumpHasStream ==
  \A t \in Turns : at[t] \in {"idle", "starting", "accepted", "refused"} => pump[t] = "off"

Typed == TypeOK /\ Bounded /\ PumpHasStream

\* What pumps and streams hold is typed.
ChannelsTyped ==
  /\ hand \in [Turns -> Seq(Items)]
  /\ stream \in [Turns -> Seq(Items)]
  /\ received \in [Turns -> Seq(Items)]
  /\ \A t \in Turns : /\ Len(stream[t]) <= StreamCap
                      /\ Len(hand[t]) = IF pump[t] = "sending" THEN 1 ELSE 0

PumpStates == {"off", "receiving", "sending", "ended"}

\* What is sent, queued and taken for one turn may change in any typed way.
LEMMA ChannelsKept ==
  ASSUME ChannelsTyped, pump \in [Turns -> PumpStates],
         NEW t \in Turns, NEW p \in PumpStates, NEW h \in Seq(Items),
         NEW s \in Seq(Items), NEW r \in Seq(Items),
         pump' = [pump EXCEPT ![t] = p], hand' = [hand EXCEPT ![t] = h],
         stream' = [stream EXCEPT ![t] = s], received' = [received EXCEPT ![t] = r],
         Len(s) <= StreamCap, Len(h) = IF p = "sending" THEN 1 ELSE 0
  PROVE  ChannelsTyped'
<1>1. /\ hand' \in [Turns -> Seq(Items)] /\ stream' \in [Turns -> Seq(Items)]
      /\ received' \in [Turns -> Seq(Items)]
  BY DEF ChannelsTyped
<1>2. ASSUME NEW u \in Turns
      PROVE  Len(stream'[u]) <= StreamCap /\ Len(hand'[u]) = IF pump'[u] = "sending" THEN 1 ELSE 0
  <2>1. CASE u = t
    BY <2>1 DEF ChannelsTyped
  <2>2. CASE u # t
    <3>1. stream'[u] = stream[u] /\ hand'[u] = hand[u] /\ pump'[u] = pump[u]
      BY <2>2 DEF ChannelsTyped
    <3> QED
      BY <3>1 DEF ChannelsTyped
  <2> QED
    BY <2>1, <2>2
<1> QED
  BY <1>1, <1>2 DEF ChannelsTyped

\* The channels of a turn hold items, and the hand one item while it is sending.
LEMMA ChannelsFunctions ==
  ASSUME ChannelsTyped, NEW t \in Turns
  PROVE  /\ hand = [hand EXCEPT ![t] = hand[t]] /\ hand[t] \in Seq(Items)
         /\ stream = [stream EXCEPT ![t] = stream[t]] /\ stream[t] \in Seq(Items)
         /\ received = [received EXCEPT ![t] = received[t]] /\ received[t] \in Seq(Items)
         /\ Len(stream[t]) <= StreamCap
         /\ Len(hand[t]) = IF pump[t] = "sending" THEN 1 ELSE 0
BY DEF ChannelsTyped

\* The empty sequence of items.
LEMMA EmptyIsTyped == <<>> \in Seq(Items) /\ Len(<<>>) = 0
OBVIOUS

\* What a queue holds when the item in hand joins it.
LEMMA QueuedIsTyped ==
  ASSUME NEW s \in Seq(Items), NEW h \in Seq(Items), Len(h) = 1
  PROVE  s \o h \in Seq(Items) /\ Len(s \o h) = Len(s) + 1
<1>1. s \o h \in Seq(Items)
  BY ConcatProperties, Zenon
<1>2. Len(s \o h) = Len(s) + Len(h)
  BY ConcatProperties, Zenon
<1> QED
  BY <1>1, <1>2

\* One item is a sequence of items.
LEMMA OneIsTyped ==
  ASSUME NEW i \in Items PROVE <<i>> \in Seq(Items) /\ Len(<<i>>) = 1
OBVIOUS

\* TurnStarted opens a stream, and is an item.
LEMMA FirstItemTyped == TurnStarted \in Items
BY StreamCapAssumption DEF TurnStarted, Items

\* An event forwarded is an item.
LEMMA ItemTyped ==
  ASSUME NEW k \in 0..(MaxEvents + 1), NEW e \in Events,
         NEW u \in Usages \cup {NoUsage}
  PROVE  Item(k, e, u) \in Items
BY DEF Item, Items, Events

\* The loss of the transport is an event.
LEMMA ClosedIsEvent == TransportClosed \in Events
BY DEF TransportClosed, Events, Kinds

\* Every value the calls, their pumps and their streams take is one of its type.
LEMMA TypedInvariant == Spec => []Typed
<1> USE StreamCapAssumption
<1>1. Init => Typed
  <2> SUFFICES ASSUME Init PROVE Typed
    OBVIOUS
  <2>1. events \in Seq(Events) /\ Len(events) = 0
    BY DEF Init
  <2>2. /\ hand \in [Turns -> Seq(Items)] /\ stream \in [Turns -> Seq(Items)]
        /\ received \in [Turns -> Seq(Items)]
        /\ \A t \in Turns : Len(stream[t]) = 0 /\ Len(hand[t]) = 0 /\ pump[t] = "off"
    BY EmptyIsTyped DEF Init
  <2>3. /\ ended = FALSE /\ at \in [Turns -> Points] /\ since \in [Turns -> 1..(MaxEvents + 2)]
        /\ cursor \in [Turns -> 1..(MaxEvents + 2)] /\ pump \in [Turns -> PumpStates]
        /\ latest \in [Turns -> Usages \cup {NoUsage}]
        /\ lagged \in [Turns -> BOOLEAN]
        /\ result \in [Turns -> {"none", "ok", "failed", "closed"}]
    BY DEF Init, Points, PumpStates
  <2>4. TypeOK
    <3>1. \A t \in Turns : /\ Len(stream[t]) <= StreamCap
                         /\ Len(hand[t]) = IF pump[t] = "sending" THEN 1 ELSE 0
      BY <2>2
    <3> QED
      BY <2>1, <2>2, <2>3, <3>1 DEF TypeOK, PumpStates
  <2>5. Bounded
    BY <2>1 DEF Init, Bounded
  <2> QED
    BY <2>2, <2>4, <2>5 DEF Typed, PumpHasStream
<1>2. Typed /\ [Next]_vars => Typed'
  <2> SUFFICES ASSUME Typed, [Next]_vars PROVE Typed'
    OBVIOUS
  <2>c. ChannelsTyped /\ pump \in [Turns -> PumpStates]
    BY DEF Typed, TypeOK, ChannelsTyped, PumpStates
  <2>u. ASSUME UNCHANGED <<hand, stream, received, pump>> PROVE ChannelsTyped'
    BY <2>u, <2>c DEF ChannelsTyped
  <2>k. ASSUME ChannelsTyped', Bounded', PumpHasStream',
               events' \in Seq(Events), ended' \in BOOLEAN, at' \in [Turns -> Points],
               since' \in [Turns -> 1..(MaxEvents + 2)],
               cursor' \in [Turns -> 1..(MaxEvents + 2)], pump' \in [Turns -> PumpStates],
               latest' \in [Turns -> Usages \cup {NoUsage}], lagged' \in [Turns -> BOOLEAN],
               result' \in [Turns -> {"none", "ok", "failed", "closed"}]
        PROVE  Typed'
    BY <2>k DEF Typed, TypeOK, ChannelsTyped, PumpStates
  <2>t. /\ events \in Seq(Events) /\ ended \in BOOLEAN /\ at \in [Turns -> Points]
        /\ since \in [Turns -> 1..(MaxEvents + 2)]
        /\ cursor \in [Turns -> 1..(MaxEvents + 2)] /\ pump \in [Turns -> PumpStates]
        /\ latest \in [Turns -> Usages \cup {NoUsage}] /\ lagged \in [Turns -> BOOLEAN]
        /\ result \in [Turns -> {"none", "ok", "failed", "closed"}]
        /\ Len(events) \in Nat
        /\ Bounded /\ PumpHasStream
    BY DEF Typed, TypeOK, PumpStates
  <2>1. ASSUME Publish \/ CloseTransport PROVE Typed'
    <3>1. PICK e \in Events : events' = Append(events, e)
      BY <2>1, ClosedIsEvent, PublishedAssumption DEF Publish, CloseTransport
    <3>2. events' \in Seq(Events) /\ Len(events') = Len(events) + 1
      BY <3>1, <2>t
    <3>3. /\ UNCHANGED <<at, since, pumpVars, stream, received, result>>
          /\ ended' \in BOOLEAN /\ ~ended
          /\ ended' \/ Len(events) < MaxEvents
      BY <2>1, <2>t DEF Publish, CloseTransport
    <3>4. Bounded'
      BY <2>t, <3>2, <3>3 DEF Bounded, pumpVars
    <3> QED
      BY <2>k, <2>u, <2>t, <3>2, <3>3, <3>4 DEF PumpHasStream, pumpVars
  <2>3. ASSUME NEW t \in Turns, Subscribe(t) PROVE Typed'
    <3>1. Len(events) + 1 \in 1..(MaxEvents + 2)
      BY <2>t DEF Bounded
    <3>2. Bounded'
      BY <2>3, <2>t, <3>1 DEF Subscribe, Bounded, busVars
    <3>3. PumpHasStream'
      BY <2>3, <2>t DEF Subscribe, PumpHasStream, Goto, Points
    <3> QED
      BY <2>3, <2>k, <2>u, <2>t, <3>1, <3>2, <3>3 DEF Subscribe, Goto, busVars, Points
  <2>4. ASSUME NEW t \in Turns, StartAccepted(t) \/ StartFails(t) PROVE Typed'
    <3>1. PICK p \in {"accepted", "refused"} : at[t] = "starting" /\ at' = [at EXCEPT ![t] = p]
      BY <2>4 DEF StartAccepted, StartFails, Goto
    <3>2. UNCHANGED <<busVars, since, pumpVars, stream, received, result>>
      BY <2>4 DEF StartAccepted, StartFails
    <3>3. Bounded' /\ PumpHasStream'
      BY <2>t, <3>1, <3>2 DEF Bounded, PumpHasStream, busVars, pumpVars
    <3> QED
      BY <2>k, <2>u, <2>t, <3>1, <3>2, <3>3 DEF busVars, pumpVars, Points
  <2>5. ASSUME NEW t \in Turns, SpawnPump(t) PROVE Typed'
    <3>1. PICK s \in Seq(Items) : Len(s) = 1 /\ stream' = [stream EXCEPT ![t] = s]
      BY <2>5, FirstItemTyped, OneIsTyped DEF SpawnPump
    <3>2. pump[t] = "off"
      BY <2>5, <2>t DEF SpawnPump, PumpHasStream
    <3>3. UNCHANGED <<busVars, since, cursor, hand, latest, lagged, received, result>>
      BY <2>5 DEF SpawnPump
    <3>4. ChannelsTyped'
      <4>1. pump' = [pump EXCEPT ![t] = "receiving"] /\ "receiving" \in PumpStates
        BY <2>5 DEF SpawnPump, PumpStates
      <4>2. Len(hand[t]) = 0 /\ Len(s) <= StreamCap
        BY <2>c, <3>1, <3>2, ChannelsFunctions
      <4>3. /\ hand' = [hand EXCEPT ![t] = hand[t]] /\ hand[t] \in Seq(Items)
            /\ received' = [received EXCEPT ![t] = received[t]] /\ received[t] \in Seq(Items)
        BY <2>c, <3>3, ChannelsFunctions
      <4>4. Len(hand[t]) = IF "receiving" = "sending" THEN 1 ELSE 0
        BY <4>2
      <4> QED
        BY <2>c, <3>1, <4>1, <4>2, <4>3, <4>4, ChannelsKept
    <3>5. Bounded' /\ PumpHasStream'
      BY <2>5, <2>t, <3>3 DEF SpawnPump, Goto, Bounded, PumpHasStream, busVars
    <3> QED
      BY <2>5, <2>k, <2>t, <3>3, <3>4, <3>5 DEF SpawnPump, Goto, busVars, Points, PumpStates
  <2>6. ASSUME NEW t \in Turns, PumpLags(t) PROVE Typed'
    <3>1. Oldest \in 1..(MaxEvents + 2) /\ Oldest <= Len(events) + 1
      BY <2>6, <2>t DEF PumpLags, Oldest, Reading, Bounded
    <3>2. Bounded'
      BY <2>6, <2>t, <3>1 DEF PumpLags, Bounded, busVars
    <3> QED
      BY <2>6, <2>k, <2>u, <2>t, <3>1, <3>2 DEF PumpLags, PumpHasStream, busVars
  <2>7. ASSUME NEW t \in Turns, PumpReceives(t) PROVE Typed'
    <3> DEFINE e == events[cursor[t]]
    <3>1. /\ cursor[t] \in 1..Len(events) /\ cursor[t] \in 0..(MaxEvents + 1)
          /\ e \in Events /\ pump[t] = "receiving"
      BY <2>7, <2>t DEF PumpReceives, Reading, Bounded
    <3>2. UNCHANGED <<busVars, at, since, lagged, stream, received, result>>
      BY <2>7 DEF PumpReceives
    <3>3. cursor' = [cursor EXCEPT ![t] = cursor[t] + 1]
      BY <2>7 DEF PumpReceives
    <3>4. Bounded' /\ cursor' \in [Turns -> 1..(MaxEvents + 2)]
      BY <3>1, <3>2, <3>3, <2>t DEF Bounded, busVars
    <3>5. latest' \in [Turns -> Usages \cup {NoUsage}]
      BY <2>7, <2>t, <3>1 DEF PumpReceives, Events
    <3>6. PICK p \in PumpStates, h \in Seq(Items) :
            /\ hand' = [hand EXCEPT ![t] = h] /\ pump' = [pump EXCEPT ![t] = p]
            /\ p # "off" /\ Len(h) = IF p = "sending" THEN 1 ELSE 0
      <4> DEFINE u == IF e.kind = "completed" THEN Reported(t, e) ELSE NoUsage
                 i == Item(cursor[t], e, u)
      <4>1. u \in Usages \cup {NoUsage}
        BY <2>t, <3>1 DEF Reported, Events
      <4>2. <<i>> \in Seq(Items) /\ Len(<<i>>) = 1
        BY <3>1, <4>1, ItemTyped, OneIsTyped
      <4>3. CASE Forwards(t, e)
        <5>1. hand' = [hand EXCEPT ![t] = <<i>>] /\ pump' = [pump EXCEPT ![t] = "sending"]
          BY <2>7, <4>3 DEF PumpReceives
        <5> QED
          BY <4>2, <5>1 DEF PumpStates
      <4>4. CASE ~Forwards(t, e)
        <5>1. UNCHANGED <<hand, pump>>
          BY <2>7, <4>4 DEF PumpReceives
        <5>2. pump' = [pump EXCEPT ![t] = "receiving"] /\ "receiving" \in PumpStates
          BY <3>1, <5>1, <2>t DEF PumpStates
        <5> QED
          BY <2>c, <3>1, <5>1, <5>2, ChannelsFunctions
      <4> QED
        BY <4>3, <4>4
    <3>7. ChannelsTyped'
      BY <2>c, <3>2, <3>6, ChannelsKept, ChannelsFunctions
    <3>8. PumpHasStream' /\ pump' \in [Turns -> PumpStates]
      BY <2>t, <3>1, <3>2, <3>6 DEF PumpHasStream
    <3> QED
      BY <2>k, <2>t, <3>2, <3>4, <3>5, <3>7, <3>8 DEF busVars
  <2>8. ASSUME NEW t \in Turns, PumpSends(t) PROVE Typed'
    <3>1. PICK p \in {"ended", "receiving"} : pump' = [pump EXCEPT ![t] = p]
      BY <2>8 DEF PumpSends
    <3>2. PICK s \in Seq(Items) : Len(s) = Len(stream[t]) + 1 /\ stream' = [stream EXCEPT ![t] = s]
      <4> DEFINE s == stream[t] \o hand[t]
      <4>1. hand[t] \in Seq(Items) /\ stream[t] \in Seq(Items) /\ Len(hand[t]) = 1
        BY <2>8, <2>c, ChannelsFunctions DEF PumpSends
      <4>2. s \in Seq(Items) /\ Len(s) = Len(stream[t]) + 1
        BY <4>1, QueuedIsTyped
      <4>3. stream' = [stream EXCEPT ![t] = s]
        BY <2>8 DEF PumpSends
      <4> HIDE DEF s
      <4> QED
        BY <4>2, <4>3
    <3>3. PICK h \in Seq(Items) : Len(h) = 0 /\ hand' = [hand EXCEPT ![t] = h]
      BY <2>8, EmptyIsTyped DEF PumpSends
    <3>4. Len(stream[t]) + 1 <= StreamCap /\ pump[t] = "sending"
      BY <2>8, <2>c, ChannelsFunctions DEF PumpSends
    <3>5. UNCHANGED <<busVars, at, since, cursor, latest, lagged, received, result>>
      BY <2>8 DEF PumpSends
    <3>6. ChannelsTyped'
      <4>1. Len(s) <= StreamCap /\ p \in PumpStates /\ p # "sending"
        BY <3>1, <3>2, <3>4 DEF PumpStates
      <4>2. received' = [received EXCEPT ![t] = received[t]] /\ received[t] \in Seq(Items)
        BY <2>c, <3>5, ChannelsFunctions
      <4>3. Len(h) = IF p = "sending" THEN 1 ELSE 0
        BY <3>3, <4>1
      <4> QED
        BY <2>c, <3>1, <3>2, <3>3, <4>1, <4>2, <4>3, ChannelsKept
    <3>7. Bounded' /\ PumpHasStream'
      BY <2>t, <3>1, <3>4, <3>5 DEF Bounded, PumpHasStream, busVars
    <3> QED
      BY <2>k, <2>t, <3>1, <3>5, <3>6, <3>7 DEF busVars, PumpStates
  <2>d. ASSUME NEW t \in Turns, at[t] = "streaming", DropStream(t),
               NEW s \in Seq(Items), NEW r \in Seq(Items), Len(s) <= StreamCap,
               stream' = [stream EXCEPT ![t] = s], received' = [received EXCEPT ![t] = r]
        PROVE  ChannelsTyped' /\ PumpHasStream' /\ at' \in [Turns -> Points]
               /\ pump' \in [Turns -> PumpStates]
    <3>1. PICK h \in Seq(Items) : Len(h) = 0 /\ hand' = [hand EXCEPT ![t] = h]
      BY <2>d, EmptyIsTyped DEF DropStream
    <3>2. ChannelsTyped'
      BY <2>c, <2>d, <3>1, ChannelsKept DEF DropStream, PumpStates
    <3> QED
      BY <2>d, <2>t, <3>2 DEF DropStream, Goto, PumpHasStream, Points, PumpStates
  <2>9. ASSUME NEW t \in Turns, Consume(t) PROVE Typed'
    <3> DEFINE r == Append(received[t], Head(stream[t]))
    <3>1. /\ Tail(stream[t]) \in Seq(Items) /\ Len(Tail(stream[t])) <= StreamCap
          /\ r \in Seq(Items)
      BY <2>9, <2>c, ChannelsFunctions DEF Consume
    <3>2. /\ received' = [received EXCEPT ![t] = r]
          /\ stream' = [stream EXCEPT ![t] = Tail(stream[t])]
          /\ at[t] = "streaming"
      BY <2>9 DEF Consume
    <3>3. UNCHANGED <<busVars, since, cursor, latest, lagged>> /\ Bounded'
      BY <2>9, <2>t DEF Consume, Bounded, busVars
    <3>4. result' \in [Turns -> {"none", "ok", "failed", "closed"}]
      BY <2>9, <2>t DEF Consume, RunResult
    <3> HIDE DEF r
    <3>5. CASE DropStream(t)
      BY <2>k, <2>t, <2>d, <3>1, <3>2, <3>3, <3>4, <3>5 DEF busVars
    <3>6. CASE UNCHANGED <<at, pump, hand>>
      <4>1. pump = [pump EXCEPT ![t] = pump[t]] /\ pump[t] \in PumpStates
        BY <2>t
      <4>2. ChannelsTyped'
        BY <2>c, <3>1, <3>2, <3>6, <4>1, ChannelsKept, ChannelsFunctions
      <4> QED
        BY <2>k, <2>t, <3>3, <3>4, <3>6, <4>2 DEF PumpHasStream, busVars
    <3> QED
      BY <2>9, <3>5, <3>6 DEF Consume
  <2>10. ASSUME NEW t \in Turns, StreamEnds(t) PROVE Typed'
    <3>1. Bounded' /\ PumpHasStream'
      BY <2>10, <2>t DEF StreamEnds, Goto, Bounded, PumpHasStream, busVars, pumpVars
    <3> QED
      BY <2>10, <2>k, <2>u, <2>t, <3>1 DEF StreamEnds, Goto, busVars, pumpVars, Points
  <2>11. ASSUME NEW t \in Turns, Abandon(t) PROVE Typed'
    <3>1. Bounded' /\ UNCHANGED <<busVars, since, cursor, latest, lagged, stream, received, result>>
      BY <2>11, <2>t DEF Abandon, Bounded, busVars
    <3> QED
      BY <2>11, <2>c, <2>k, <2>d, <2>t, <3>1, ChannelsFunctions DEF Abandon, busVars
  <2>12. ASSUME UNCHANGED vars PROVE Typed'
    BY <2>12, <2>k, <2>u, <2>t DEF vars, busVars, pumpVars, Bounded, PumpHasStream
  <2> QED
    BY <2>1, <2>3, <2>4, <2>5, <2>6, <2>7, <2>8, <2>9, <2>10, <2>11, <2>12 DEF Next, TurnStep
<1> QED
  BY <1>1, <1>2, PTL DEF Spec

\* What is checked as TypeOK holds for every instance.
THEOREM TypeCorrect == Spec => []TypeOK
BY TypedInvariant, PTL DEF Typed

-----------------------------------------------------------------------------
(* No pump misses the announcement that the transport is gone.             *)

\* The last event announces the end, and a pump that went past it is about to
\* hand it on; one that is not spawned yet has it ahead.
Heard ==
  ended =>
    /\ Len(events) > 0 /\ events[Len(events)].kind = "closed"
    /\ \A t \in Turns :
         /\ at[t] = "accepted" \/ pump[t] = "receiving" => cursor[t] <= Len(events)
         /\ pump[t] = "sending" /\ cursor[t] > Len(events)
              => Head(hand[t]).kind = "closed"

\* No step takes a pump past the announcement without it in hand.
LEMMA HeardInvariant == Spec => []Heard
<1>1. Init => Heard
  BY DEF Init, Heard
<1>2. Typed /\ Heard /\ [Next]_vars => Heard'
  <2> SUFFICES ASSUME Typed, Heard, [Next]_vars PROVE Heard'
    OBVIOUS
  <2>t. /\ events \in Seq(Events) /\ Len(events) \in Nat /\ ended \in BOOLEAN
        /\ at \in [Turns -> Points] /\ pump \in [Turns -> PumpStates]
        /\ cursor \in [Turns -> 1..(MaxEvents + 2)]
        /\ \A t \in Turns : cursor[t] \in Nat
        /\ ChannelsTyped /\ PumpHasStream
        /\ \A t \in Turns : cursor[t] <= Len(events) + 1
    BY StreamCapAssumption DEF Typed, TypeOK, Bounded, ChannelsTyped, PumpStates
  <2>1. ASSUME Publish PROVE Heard'
    BY <2>1 DEF Publish, Heard
  <2>2. ASSUME CloseTransport PROVE Heard'
    <3>1. events' = Append(events, TransportClosed) /\ UNCHANGED <<at, pumpVars>>
      BY <2>2 DEF CloseTransport
    <3>2. Len(events') = Len(events) + 1 /\ events'[Len(events')] = TransportClosed
      BY <3>1, <2>t, ClosedIsEvent, AppendProperties
    <3>3. TransportClosed.kind = "closed"
      BY DEF TransportClosed
    <3> QED
      BY <2>t, <3>1, <3>2, <3>3 DEF Heard, pumpVars
  <2>3. ASSUME NEW t \in Turns, Subscribe(t) PROVE Heard'
    BY <2>3, <2>t DEF Subscribe, Goto, Heard, busVars, PumpHasStream
  <2>4. ASSUME NEW t \in Turns, StartAccepted(t) PROVE Heard'
    BY <2>4, <2>t DEF StartAccepted, Heard, busVars
  <2>5. ASSUME NEW t \in Turns, StartFails(t) PROVE Heard'
    BY <2>5, <2>t DEF StartFails, Goto, Heard, busVars, pumpVars
  <2>6. ASSUME NEW t \in Turns, SpawnPump(t) PROVE Heard'
    BY <2>6, <2>t DEF SpawnPump, Goto, Heard, busVars
  <2>7. ASSUME NEW t \in Turns, PumpLags(t) PROVE Heard'
    <3>1. Len(events) > 0 => Oldest <= Len(events)
      BY <2>t, StreamCapAssumption DEF Oldest
    <3> QED
      BY <2>7, <2>t, <3>1 DEF PumpLags, Reading, Heard, busVars
  <2>8. ASSUME NEW t \in Turns, PumpReceives(t) PROVE Heard'
    <3> DEFINE e == events[cursor[t]]
    <3>1. /\ pump[t] = "receiving" /\ cursor[t] <= Len(events)
          /\ cursor' = [cursor EXCEPT ![t] = cursor[t] + 1]
          /\ UNCHANGED <<events, ended, at>>
      BY <2>8 DEF PumpReceives, Reading, busVars
    <3>2. CASE Forwards(t, e)
      <4> DEFINE i == Item(cursor[t], e, IF e.kind = "completed" THEN Reported(t, e) ELSE NoUsage)
      <4>1. hand' = [hand EXCEPT ![t] = <<i>>] /\ pump' = [pump EXCEPT ![t] = "sending"]
        BY <2>8, <3>2 DEF PumpReceives
      <4>2. Head(<<i>>) = i /\ i.kind = e.kind
        BY DEF Item
      <4> HIDE DEF i
      <4>3. Head(hand'[t]).kind = e.kind
        BY <4>1, <4>2, <2>t DEF ChannelsTyped
      <4>4. \A u \in Turns : u # t => hand'[u] = hand[u] /\ pump'[u] = pump[u] /\ cursor'[u] = cursor[u]
        BY <4>1, <3>1, <2>t DEF ChannelsTyped
      <4>5. cursor'[t] = cursor[t] + 1 /\ pump'[t] = "sending" /\ at[t] # "accepted"
        BY <4>1, <3>1, <2>t DEF PumpHasStream
      <4>6. ASSUME ended
            PROVE  cursor'[t] > Len(events) => Head(hand'[t]).kind = "closed"
        BY <2>t, <3>1, <4>3, <4>5, <4>6 DEF Heard
      <4> QED
        BY <2>t, <3>1, <4>4, <4>5, <4>6 DEF Heard
    <3>3. CASE ~Forwards(t, e)
      <4>1. e.kind # "closed"
        BY <3>3 DEF Forwards
      <4>2. UNCHANGED <<hand, pump>>
        BY <2>8, <3>3 DEF PumpReceives
      <4> QED
        BY <2>t, <3>1, <4>1, <4>2 DEF Heard
    <3> QED
      BY <3>2, <3>3
  <2>9. ASSUME NEW t \in Turns, PumpSends(t) PROVE Heard'
    <3>1. /\ pump' = [pump EXCEPT ![t] = IF Head(hand[t]).kind \in EndKinds
                                           THEN "ended" ELSE "receiving"]
          /\ pump[t] = "sending" /\ UNCHANGED <<events, ended, at, cursor>>
      BY <2>9 DEF PumpSends, busVars
    <3>2. \A u \in Turns : u # t => hand'[u] = hand[u]
      BY <2>9, <2>t DEF PumpSends, ChannelsTyped
    <3>3. /\ pump'[t] = IF Head(hand[t]).kind \in EndKinds THEN "ended" ELSE "receiving"
          /\ \A u \in Turns : u # t => pump'[u] = pump[u]
          /\ at[t] # "accepted"
      BY <3>1, <2>t DEF PumpHasStream
    <3>4. ASSUME ended PROVE pump'[t] = "receiving" => cursor[t] <= Len(events)
      BY <2>t, <3>1, <3>3, <3>4 DEF Heard, EndKinds
    <3> QED
      BY <2>t, <3>1, <3>2, <3>3, <3>4 DEF Heard
  <2>d. ASSUME NEW t \in Turns, DropStream(t), UNCHANGED <<busVars, cursor>> PROVE Heard'
    <3>1. \A u \in Turns : u # t => hand'[u] = hand[u]
      BY <2>d, <2>t DEF DropStream, ChannelsTyped
    <3> QED
      BY <2>d, <2>t, <3>1 DEF DropStream, Goto, Heard, busVars
  <2>10. ASSUME NEW t \in Turns, Consume(t) PROVE Heard'
    <3>1. UNCHANGED <<busVars, cursor>> /\ (DropStream(t) \/ UNCHANGED <<at, pump, hand>>)
      BY <2>10 DEF Consume
    <3> QED
      BY <2>d, <3>1 DEF Heard, busVars
  <2>11. ASSUME NEW t \in Turns, StreamEnds(t) PROVE Heard'
    BY <2>11, <2>t DEF StreamEnds, Goto, Heard, busVars, pumpVars
  <2>12. ASSUME NEW t \in Turns, Abandon(t) PROVE Heard'
    BY <2>12, <2>d DEF Abandon
  <2>13. ASSUME UNCHANGED vars PROVE Heard'
    BY <2>13 DEF vars, busVars, pumpVars, Heard
  <2> QED
    BY <2>1, <2>2, <2>3, <2>4, <2>5, <2>6, <2>7, <2>8, <2>9, <2>10, <2>11, <2>12, <2>13
    DEF Next, TurnStep
<1> QED
  BY <1>1, <1>2, TypedInvariant, PTL DEF Spec

-----------------------------------------------------------------------------
(* The order of a stream                                                   *)

WellFormed(s) == \A j \in 1..Len(s) : /\ j = 1 => s[j] = TurnStarted
                                      /\ j > 1 => s[j].pos > s[j - 1].pos
                                      /\ j < Len(s) => s[j].kind \notin EndKinds

NoEndIn(s) == \A j \in 1..Len(s) : s[j].kind \notin EndKinds

Below(s, n) == \A j \in 1..Len(s) : s[j].pos < n

\* Two sequences of items, one after the other.
LEMMA ConcatItems ==
  ASSUME NEW a \in Seq(Items), NEW b \in Seq(Items)
  PROVE  /\ a \o b \in Seq(Items) /\ Len(a \o b) = Len(a) + Len(b)
         /\ Len(a) \in Nat /\ Len(b) \in Nat
         /\ \A j \in 1..Len(a) : (a \o b)[j] = a[j]
         /\ \A j \in 1..Len(b) : (a \o b)[Len(a) + j] = b[j]
<1>1. /\ a \o b \in Seq(Items) /\ Len(a \o b) = Len(a) + Len(b)
      /\ \A j \in 1 .. Len(a) + Len(b) : (a \o b)[j] =
            IF j <= Len(a) THEN a[j] ELSE b[j - Len(a)]
  BY ConcatProperties, Zenon
<1>2. Len(a) \in Nat /\ Len(b) \in Nat
  OBVIOUS
<1>3. ASSUME NEW j \in 1..Len(a) PROVE (a \o b)[j] = a[j]
  BY <1>1, <1>2
<1>4. ASSUME NEW j \in 1..Len(b) PROVE (a \o b)[Len(a) + j] = b[j]
  BY <1>1, <1>2
<1> QED
  BY <1>1, <1>2, <1>3, <1>4

\* What is sent stays well formed when its end is dropped.
LEMMA PrefixWellFormed ==
  ASSUME NEW a \in Seq(Items), NEW b \in Seq(Items), NEW n \in Nat,
         WellFormed(a \o b), Below(a \o b, n)
  PROVE  WellFormed(a) /\ Below(a, n)
<1> DEFINE c == a \o b
<1>1. /\ Len(c) = Len(a) + Len(b) /\ Len(a) \in Nat /\ Len(b) \in Nat
      /\ \A j \in 1..Len(a) : c[j] = a[j]
  BY ConcatItems
<1> HIDE DEF c
<1>2. WellFormed(c) /\ Below(c, n)
  BY DEF c
<1>3. Below(a, n)
  BY <1>1, <1>2 DEF Below
<1>4. ASSUME NEW j \in 1..Len(a)
      PROVE  /\ j = 1 => a[j] = TurnStarted
             /\ j > 1 => a[j].pos > a[j - 1].pos
             /\ j < Len(a) => a[j].kind \notin EndKinds
  <2>1. j \in 1..Len(c) /\ c[j] = a[j] /\ (j > 1 => c[j - 1] = a[j - 1])
    BY <1>1
  <2> QED
    BY <1>1, <1>2, <2>1 DEF WellFormed
<1> QED
  BY <1>3, <1>4 DEF WellFormed

\* A later item goes to the end of a stream that is not over.
LEMMA ExtendedWellFormed ==
  ASSUME NEW q \in Seq(Items), q # <<>>, NEW i \in Items, NEW n \in Nat,
         WellFormed(q), NoEndIn(q), Below(q, n), i.pos = n
  PROVE  WellFormed(q \o <<i>>) /\ Below(q \o <<i>>, n + 1)
<1> DEFINE c == q \o <<i>>
<1>1. <<i>> \in Seq(Items) /\ Len(<<i>>) = 1 /\ <<i>>[1] = i
  BY OneIsTyped
<1>2. /\ c \in Seq(Items) /\ Len(c) = Len(q) + 1 /\ Len(q) \in Nat
      /\ \A j \in 1..Len(q) : c[j] = q[j]
      /\ c[Len(q) + 1] = i
  BY <1>1, ConcatItems
<1>3. Len(q) > 0
  BY <1>2
<1>4. \A j \in 1..Len(q) : q[j].pos \in Nat /\ q[j].pos < n
  <2>1. ASSUME NEW j \in 1..Len(q) PROVE q[j] \in Items
    BY ElementOfSeq
  <2> QED
    BY <2>1, StreamCapAssumption DEF Below, Items
<1> HIDE DEF c
<1>5. Below(c, n + 1)
  BY <1>2, <1>4 DEF Below
<1>6. ASSUME NEW j \in 1..Len(c)
      PROVE  /\ j = 1 => c[j] = TurnStarted
             /\ j > 1 => c[j].pos > c[j - 1].pos
             /\ j < Len(c) => c[j].kind \notin EndKinds
  <2>1. CASE j <= Len(q)
    <3>1. j \in 1..Len(q) /\ c[j] = q[j] /\ (j > 1 => c[j - 1] = q[j - 1])
      BY <1>2, <2>1
    <3> QED
      BY <3>1 DEF WellFormed, NoEndIn
  <2>2. CASE j = Len(q) + 1
    <3>1. c[j] = i /\ c[j - 1] = q[Len(q)] /\ j > 1 /\ Len(q) \in 1..Len(q)
      BY <1>2, <1>3, <2>2
    <3> QED
      BY <1>2, <1>4, <2>2, <3>1
  <2> QED
    BY <1>2, <2>1, <2>2
<1> QED
  BY <1>5, <1>6 DEF WellFormed, c

\* Taking an item moves it from what is queued to what was received.
LEMMA TakenKept ==
  ASSUME NEW r \in Seq(Items), NEW s \in Seq(Items), s # <<>>
  PROVE  Append(r, Head(s)) \o Tail(s) = r \o s
<1>1. Head(s) \in Items /\ Tail(s) \in Seq(Items) /\ <<Head(s)>> \in Seq(Items)
  BY HeadTailProperties, OneIsTyped
<1>2. Append(r, Head(s)) = r \o <<Head(s)>>
  BY <1>1, AppendIsConcat, Zenon
<1>3. (r \o <<Head(s)>>) \o Tail(s) = r \o (<<Head(s)>> \o Tail(s))
  BY <1>1, ConcatAssociative
<1>4. <<Head(s)>> \o Tail(s) = s
  <2> DEFINE c == <<Head(s)>> \o Tail(s)
  <2>1. /\ Len(<<Head(s)>>) = 1 /\ <<Head(s)>>[1] = Head(s)
        /\ Len(Tail(s)) = Len(s) - 1 /\ Len(s) \in Nat \ {0} /\ Head(s) = s[1]
        /\ \A j \in 1..Len(Tail(s)) : Tail(s)[j] = s[j + 1]
    BY HeadTailProperties
  <2>2. /\ c \in Seq(Items) /\ Len(c) = 1 + Len(Tail(s)) /\ c[1] = Head(s)
        /\ \A j \in 1..Len(Tail(s)) : c[1 + j] = Tail(s)[j]
    BY <1>1, <2>1, ConcatItems
  <2> HIDE DEF c
  <2>3. ASSUME NEW j \in 1..Len(s) PROVE c[j] = s[j]
    <3>1. CASE j = 1
      BY <2>1, <2>2, <3>1
    <3>2. CASE j > 1
      <4>1. j - 1 \in 1..Len(Tail(s)) /\ 1 + (j - 1) = j /\ (j - 1) + 1 = j
        BY <2>1, <3>2
      <4> QED
        BY <2>1, <2>2, <4>1
    <3> QED
      BY <3>1, <3>2
  <2>4. c = s
    BY <2>1, <2>2, <2>3, SeqEqual
  <2> QED
    BY <2>4 DEF c
<1> QED
  BY <1>2, <1>3, <1>4

\* Where the item in hand joins does not change what was sent.
LEMMA JoinedKept ==
  ASSUME NEW r \in Seq(Items), NEW s \in Seq(Items), NEW h \in Seq(Items)
  PROVE  r \o (s \o h) = (r \o s) \o h
<1>1. (r \o s) \o h = r \o (s \o h)
  BY ConcatAssociative
<1> QED
  BY <1>1

\* An empty hand adds nothing.
LEMMA NothingAdded == ASSUME NEW r \in Seq(Items) PROVE r \o <<>> = r
BY ConcatEmptySeq, Zenon

-----------------------------------------------------------------------------
(* How a step changes what was sent on a stream                            *)

\* What the consumer took, and what is queued for it.
Queue(t) == received[t] \o stream[t]

\* What was sent is what was queued and what is in hand.
LEMMA SentTyped ==
  ASSUME ChannelsTyped, NEW t \in Turns
  PROVE  /\ Queue(t) \in Seq(Items) /\ Sent(t) \in Seq(Items)
         /\ Sent(t) = Queue(t) \o hand[t]
         /\ pump[t] # "sending" => Sent(t) = Queue(t)
<1>1. received[t] \in Seq(Items) /\ stream[t] \in Seq(Items) /\ hand[t] \in Seq(Items)
  BY ChannelsFunctions
<1>2. Queue(t) \in Seq(Items)
  BY <1>1, ConcatItems DEF Queue
<1>3. Sent(t) = Queue(t) \o hand[t]
  BY DEF Queue, Sent
<1>4. Sent(t) \in Seq(Items)
  BY <1>1, <1>2, <1>3, ConcatItems
<1>5. ASSUME pump[t] # "sending" PROVE hand[t] = <<>>
  BY <1>1, <1>5, ChannelsFunctions, EmptySeq
<1> QED
  BY <1>2, <1>3, <1>4, <1>5, NothingAdded

\* SpawnPump queues TurnStarted.
LEMMA SpawnSends ==
  ASSUME Typed, NEW t \in Turns, SpawnPump(t), Sent(t) = <<>>
  PROVE  Queue(t)' = <<TurnStarted>> /\ Sent(t)' = <<TurnStarted>>
<1>1. ChannelsTyped /\ pump[t] = "off"
  BY DEF Typed, TypeOK, ChannelsTyped, PumpHasStream, SpawnPump
<1>2. /\ received[t] \in Seq(Items) /\ stream[t] \in Seq(Items) /\ hand[t] \in Seq(Items)
      /\ Len(hand[t]) = 0
  BY <1>1, ChannelsFunctions
<1>3. Len(received[t] \o stream[t] \o hand[t]) = 0
  BY DEF Sent
<1>4. Len(received[t]) = 0
  <2>1. /\ received[t] \o stream[t] \in Seq(Items)
        /\ Len(received[t] \o stream[t]) = Len(received[t]) + Len(stream[t])
        /\ Len(received[t]) \in Nat /\ Len(stream[t]) \in Nat
    BY <1>2, ConcatItems
  <2>2. Len(received[t] \o stream[t] \o hand[t])
          = Len(received[t] \o stream[t]) + Len(hand[t])
    BY <1>2, <2>1, ConcatItems
  <2> DEFINE m == Len(received[t])
             n == Len(stream[t])
             k == Len(received[t] \o stream[t])
  <2>3. m \in Nat /\ n \in Nat /\ k = m + n /\ k + 0 = 0
    BY <1>2, <1>3, <2>1, <2>2
  <2> HIDE DEF m, n, k
  <2>4. m = 0
    BY <2>3
  <2> QED
    BY <2>4 DEF m
<1>5. received[t] = <<>> /\ hand[t] = <<>>
  BY <1>2, <1>4, EmptySeq
<1>6. received'[t] = <<>> /\ hand'[t] = <<>> /\ stream'[t] = <<TurnStarted>>
  BY <1>1, <1>5 DEF SpawnPump, ChannelsTyped
<1>7. <<TurnStarted>> \in Seq(Items)
  BY FirstItemTyped, OneIsTyped
<1> QED
  BY <1>6, <1>7, NothingAdded, ConcatEmptySeq DEF Queue, Sent

\* PumpReceives takes the event at its cursor in hand.
LEMMA ReceiveSends ==
  ASSUME Typed, NEW t \in Turns, PumpReceives(t), Forwards(t, events[cursor[t]])
  PROVE  \E i \in Items : /\ i.pos = cursor[t] /\ i.kind = events[cursor[t]].kind
                          /\ i.kind = "completed" => i.usage = Reported(t, events[cursor[t]])
                          /\ Sent(t)' = Queue(t) \o <<i>>
                          /\ Queue(t)' = Queue(t) /\ Sent(t) = Queue(t)
                          /\ pump' = [pump EXCEPT ![t] = "sending"]
<1> USE StreamCapAssumption
<1> DEFINE e == events[cursor[t]]
           v == IF e.kind = "completed" THEN Reported(t, e) ELSE NoUsage
           i == Item(cursor[t], e, v)
<1>a. /\ events \in Seq(Events) /\ cursor \in [Turns -> 1..(MaxEvents + 2)]
      /\ Len(events) <= MaxEvents + 1 /\ MaxEvents \in Nat
  BY StreamCapAssumption DEF Typed, TypeOK, Bounded
<1>b. ChannelsTyped
  BY DEF Typed, TypeOK, ChannelsTyped
<1>c. cursor[t] <= Len(events) /\ pump[t] = "receiving"
  BY DEF PumpReceives, Reading
<1>d. /\ cursor[t] \in 1..Len(events) /\ cursor[t] \in 0..(MaxEvents + 1)
  BY <1>a, <1>c
<1>1. /\ cursor[t] \in 1..Len(events) /\ cursor[t] \in 0..(MaxEvents + 1)
      /\ e \in Events /\ pump[t] = "receiving" /\ ChannelsTyped
  BY <1>a, <1>b, <1>c, <1>d
<1>2. v \in Usages \cup {NoUsage}
  BY <1>1 DEF Reported, Events, Typed, TypeOK
<1>3. /\ i \in Items /\ i.pos = cursor[t] /\ i.kind = e.kind
      /\ i.kind = "completed" => i.usage = Reported(t, e)
  BY <1>1, <1>2, ItemTyped DEF Item
<1>4. /\ hand' = [hand EXCEPT ![t] = <<i>>] /\ pump' = [pump EXCEPT ![t] = "sending"]
      /\ stream' = stream /\ received' = received
  BY DEF PumpReceives
<1> HIDE DEF i
<1>5. hand'[t] = <<i>>
  BY <1>1, <1>4 DEF ChannelsTyped
<1>6. Queue(t)' = Queue(t) /\ Sent(t) = Queue(t)
  BY <1>1, <1>4, SentTyped DEF Queue
<1>7. Sent(t)' = Queue(t) \o <<i>>
  BY <1>4, <1>5 DEF Sent, Queue
<1> QED
  BY <1>3, <1>4, <1>6, <1>7

\* PumpSends moves the item in hand to the stream.
LEMMA SendKeeps ==
  ASSUME Typed, NEW t \in Turns, PumpSends(t)
  PROVE  Queue(t)' = Sent(t) /\ Sent(t)' = Sent(t)
<1>1. ChannelsTyped
  BY DEF Typed, TypeOK, ChannelsTyped
<1>2. received'[t] = received[t] /\ stream'[t] = stream[t] \o hand[t] /\ hand'[t] = <<>>
  BY <1>1 DEF PumpSends, ChannelsTyped
<1>3. Queue(t)' = received[t] \o (stream[t] \o hand[t])
  BY <1>2 DEF Queue
<1>4. received[t] \in Seq(Items) /\ stream[t] \in Seq(Items) /\ hand[t] \in Seq(Items)
  BY <1>1, ChannelsFunctions
<1>5. Queue(t)' = Sent(t)
  BY <1>3, <1>4, JoinedKept DEF Sent
<1>6. Sent(t)' = Queue(t)' \o <<>>
  BY <1>2 DEF Sent, Queue
<1> QED
  BY <1>1, <1>5, <1>6, NothingAdded, SentTyped

\* Taking an item leaves what was sent, but for what the pump holds when run()
\* drops the stream.
LEMMA ConsumeKeeps ==
  ASSUME Typed, NEW t \in Turns, Consume(t)
  PROVE  /\ Queue(t)' = Queue(t)
         /\ hand' = hand => Sent(t)' = Sent(t)
         /\ hand'[t] = <<>> => Sent(t)' = Queue(t)
<1>1. ChannelsTyped
  BY DEF Typed, TypeOK, ChannelsTyped
<1>2. /\ received[t] \in Seq(Items) /\ stream[t] \in Seq(Items) /\ hand[t] \in Seq(Items)
      /\ stream[t] # <<>>
  BY <1>1, ChannelsFunctions DEF Consume
<1>3. /\ received'[t] = Append(received[t], Head(stream[t]))
      /\ stream'[t] = Tail(stream[t])
  BY <1>1 DEF Consume, ChannelsTyped
<1>4. Append(received[t], Head(stream[t])) \in Seq(Items) /\ Tail(stream[t]) \in Seq(Items)
  BY <1>2
<1>5. Queue(t)' = Queue(t)
  BY <1>2, <1>3, TakenKept DEF Queue
<1>6. ASSUME NEW h \in Seq(Items), hand'[t] = h PROVE Sent(t)' = Queue(t) \o h
  BY <1>5, <1>6 DEF Sent, Queue
<1>7. hand' = hand => Sent(t)' = Sent(t)
  BY <1>1, <1>2, <1>6, SentTyped
<1>8. hand'[t] = <<>> => Sent(t)' = Queue(t)
  BY <1>1, <1>6, SentTyped, NothingAdded, EmptyIsTyped
<1> QED
  BY <1>5, <1>7, <1>8

\* Dropping the receiver takes nothing back.
LEMMA DropKeeps ==
  ASSUME Typed, NEW t \in Turns, DropStream(t), UNCHANGED <<stream, received>>
  PROVE  Queue(t)' = Queue(t) /\ Sent(t)' = Queue(t)
<1>1. ChannelsTyped
  BY DEF Typed, TypeOK, ChannelsTyped
<1>2. hand'[t] = <<>>
  BY <1>1 DEF DropStream, ChannelsTyped
<1> QED
  BY <1>1, <1>2, ChannelsFunctions, NothingAdded DEF Queue, Sent

-----------------------------------------------------------------------------
\* While the pump of t runs, nothing before what it is about to send ends the turn;
\* all that was sent was read from the broadcast channel before.
OrderedAt(t) ==
  /\ WellFormed(Sent(t)) /\ Below(Sent(t), cursor[t])
  /\ at[t] \in {"idle", "starting", "accepted", "refused"} => Sent(t) = <<>>
  /\ pump[t] \in {"receiving", "sending"} => Queue(t) # <<>> /\ NoEndIn(Queue(t))

Ordered == \A t \in Turns : OrderedAt(t)

\* A step that sends nothing keeps the order.
LEMMA SameOrder ==
  ASSUME NEW t \in Turns, OrderedAt(t),
         Sent(t)' = Sent(t), Queue(t)' = Queue(t), pump'[t] = pump[t],
         at'[t] \in {"idle", "starting", "accepted", "refused"}
           => at[t] \in {"idle", "starting", "accepted", "refused"},
         Below(Sent(t), cursor'[t])
  PROVE  OrderedAt(t)'
BY DEF OrderedAt, WellFormed, Below, NoEndIn

\* Items before an event are before any later one.
LEMMA HigherBound ==
  ASSUME NEW s \in Seq(Items), NEW m \in Nat, NEW n \in Nat, m <= n, Below(s, m)
  PROVE  Below(s, n)
<1>1. ASSUME NEW j \in 1..Len(s) PROVE s[j].pos \in Nat
  <2>1. s[j] \in Items
    BY ElementOfSeq
  <2> QED
    BY <2>1, StreamCapAssumption DEF Items
<1> QED
  BY <1>1 DEF Below

\* Items are sent in the order of their events, and nothing after the end of a turn.
LEMMA OrderedInvariant == Spec => []Ordered
<1>1. Init => Ordered
  <2> SUFFICES ASSUME Init, NEW t \in Turns PROVE OrderedAt(t)
    BY DEF Ordered
  <2>1. Sent(t) = <<>> /\ pump[t] = "off"
    <3>1. received[t] = <<>> /\ stream[t] = <<>> /\ hand[t] = <<>> /\ pump[t] = "off"
      BY DEF Init
    <3> QED
      BY <3>1, EmptyIsTyped, NothingAdded DEF Sent
  <2>2. WellFormed(<<>>) /\ Below(<<>>, cursor[t])
    BY DEF WellFormed, Below
  <2> QED
    BY <2>1, <2>2 DEF OrderedAt
<1>2. Typed /\ Ordered /\ [Next]_vars => Ordered'
  <2> SUFFICES ASSUME Typed, Ordered, [Next]_vars, NEW u \in Turns PROVE OrderedAt(u)'
    BY DEF Ordered
  <2>t. /\ ChannelsTyped /\ PumpHasStream
        /\ cursor \in [Turns -> 1..(MaxEvents + 2)] /\ cursor[u] \in Nat
        /\ at \in [Turns -> Points] /\ pump \in [Turns -> PumpStates]
        /\ Sent(u) \in Seq(Items) /\ Queue(u) \in Seq(Items) /\ OrderedAt(u)
        /\ Below(Sent(u), cursor[u])
    BY SentTyped, StreamCapAssumption
    DEF Typed, TypeOK, ChannelsTyped, PumpStates, Ordered, OrderedAt
  <2>s. ASSUME UNCHANGED <<hand, stream, received>>
        PROVE  Sent(u)' = Sent(u) /\ Queue(u)' = Queue(u)
    BY <2>s DEF Sent, Queue
  <2>o. ASSUME NEW t \in Turns, TurnStep(t) \/ Abandon(t), u # t PROVE OrderedAt(u)'
    <3>1. /\ at'[u] = at[u] /\ pump'[u] = pump[u] /\ cursor'[u] = cursor[u]
      BY <2>o, <2>t DEF TurnStep, Abandon, SpawnPump, PumpLags, PumpReceives, PumpSends,
         Consume, StreamEnds, DropStream, Goto, pumpVars
    <3>2. hand'[u] = hand[u] /\ stream'[u] = stream[u] /\ received'[u] = received[u]
      BY <2>o, <2>t DEF TurnStep, Abandon, SpawnPump, PumpLags, PumpReceives, PumpSends,
         Consume, StreamEnds, DropStream, Goto, pumpVars, ChannelsTyped
    <3>3. Sent(u)' = Sent(u) /\ Queue(u)' = Queue(u)
      BY <3>2 DEF Sent, Queue
    <3> QED
      BY <2>t, <3>1, <3>3, SameOrder
  <2>1. ASSUME Publish \/ CloseTransport \/ UNCHANGED vars PROVE OrderedAt(u)'
    BY <2>1, <2>t, <2>s, SameOrder DEF Publish, CloseTransport, vars, pumpVars
  <2>2. ASSUME NEW t \in Turns, Subscribe(t) PROVE OrderedAt(u)'
    <3>1. /\ UNCHANGED <<hand, stream, received, pump>>
          /\ at' = [at EXCEPT ![t] = "starting"] /\ at[t] = "idle"
          /\ cursor' = [cursor EXCEPT ![t] = Len(events) + 1]
      BY <2>2 DEF Subscribe, Goto
    <3>2. Below(Sent(u), cursor'[u])
      <4>1. CASE u = t
        BY <2>t, <3>1, <4>1 DEF OrderedAt, Below
      <4>2. CASE u # t
        BY <2>t, <3>1, <4>2
      <4> QED
        BY <4>1, <4>2
    <3>3. at'[u] \in {"idle", "starting", "accepted", "refused"}
            => at[u] \in {"idle", "starting", "accepted", "refused"}
      BY <2>t, <3>1
    <3> QED
      BY <2>t, <2>s, <3>1, <3>2, <3>3, SameOrder
  <2>3. ASSUME NEW t \in Turns, StartAccepted(t) \/ StartFails(t) PROVE OrderedAt(u)'
    <3>1. /\ UNCHANGED <<hand, stream, received, pump, cursor>>
          /\ at[t] = "starting"
          /\ \E p \in {"accepted", "refused"} : at' = [at EXCEPT ![t] = p]
      BY <2>3 DEF StartAccepted, StartFails, Goto, pumpVars
    <3>3. at'[u] \in {"idle", "starting", "accepted", "refused"}
            => at[u] \in {"idle", "starting", "accepted", "refused"}
      BY <2>t, <3>1
    <3> QED
      BY <2>t, <2>s, <3>1, <3>3, SameOrder
  <2>4. ASSUME SpawnPump(u) PROVE OrderedAt(u)'
    <3>1. Sent(u) = <<>>
      BY <2>4, <2>t DEF SpawnPump, OrderedAt
    <3>2. Queue(u)' = <<TurnStarted>> /\ Sent(u)' = <<TurnStarted>>
      BY <2>4, <3>1, SpawnSends
    <3>3. /\ Len(<<TurnStarted>>) = 1 /\ <<TurnStarted>>[1] = TurnStarted
          /\ TurnStarted.pos = 0 /\ TurnStarted.kind \notin EndKinds
      BY FirstItemTyped, OneIsTyped DEF TurnStarted, EndKinds
    <3>4. cursor'[u] = cursor[u] /\ cursor[u] > 0 /\ at'[u] = "streaming"
      BY <2>4, <2>t DEF SpawnPump, Goto
    <3>5. \A j \in 1..Len(<<TurnStarted>>) : j = 1 /\ <<TurnStarted>>[j] = TurnStarted
      BY <3>3
    <3>6. WellFormed(<<TurnStarted>>) /\ Below(<<TurnStarted>>, cursor[u])
            /\ NoEndIn(<<TurnStarted>>)
      BY <3>3, <3>4, <3>5 DEF WellFormed, Below, NoEndIn
    <3>7. <<TurnStarted>> # <<>>
      OBVIOUS
    <3> QED
      BY <3>2, <3>4, <3>6, <3>7 DEF OrderedAt, WellFormed, Below, NoEndIn
  <2>5. ASSUME PumpLags(u) PROVE OrderedAt(u)'
    <3>1. /\ UNCHANGED <<hand, stream, received, pump, at>>
          /\ cursor' = [cursor EXCEPT ![u] = Oldest] /\ cursor[u] < Oldest
      BY <2>5 DEF PumpLags
    <3>2. Oldest \in Nat
      BY StreamCapAssumption DEF Oldest, Typed, TypeOK
    <3>3. Below(Sent(u), cursor'[u])
      BY <2>t, <3>1, <3>2, HigherBound
    <3> QED
      BY <2>t, <2>s, <3>1, <3>3, SameOrder
  <2>6. ASSUME PumpReceives(u) PROVE OrderedAt(u)'
    <3>1. /\ UNCHANGED <<at, stream, received>> /\ pump[u] = "receiving"
          /\ cursor'[u] = cursor[u] + 1
      BY <2>6, <2>t DEF PumpReceives, Reading
    <3>2. CASE Forwards(u, events[cursor[u]])
      <4>1. PICK i \in Items : /\ i.pos = cursor[u] /\ Sent(u)' = Queue(u) \o <<i>>
                               /\ Queue(u)' = Queue(u) /\ Sent(u) = Queue(u)
                               /\ pump' = [pump EXCEPT ![u] = "sending"]
        BY <2>6, <3>2, ReceiveSends
      <4>2. Queue(u) # <<>> /\ NoEndIn(Queue(u)) /\ WellFormed(Queue(u))
              /\ Below(Queue(u), cursor[u])
        BY <2>t, <3>1, <4>1 DEF OrderedAt
      <4>3. WellFormed(Queue(u) \o <<i>>) /\ Below(Queue(u) \o <<i>>, cursor[u] + 1)
        BY <2>t, <4>1, <4>2, ExtendedWellFormed
      <4>4. at[u] \notin {"idle", "starting", "accepted", "refused"}
        BY <2>t, <3>1 DEF PumpHasStream
      <4> QED
        BY <3>1, <4>1, <4>2, <4>3, <4>4 DEF OrderedAt, WellFormed, Below, NoEndIn
    <3>3. CASE ~Forwards(u, events[cursor[u]])
      <4>1. UNCHANGED <<hand, pump>>
        BY <2>6, <3>3 DEF PumpReceives
      <4>2. Below(Sent(u), cursor'[u])
        BY <2>t, <3>1, HigherBound
      <4> QED
        BY <2>t, <2>s, <3>1, <4>1, <4>2, SameOrder
    <3> QED
      BY <3>2, <3>3
  <2>7. ASSUME PumpSends(u) PROVE OrderedAt(u)'
    <3>1. Queue(u)' = Sent(u) /\ Sent(u)' = Sent(u)
      BY <2>7, SendKeeps
    <3>2. /\ UNCHANGED <<at, cursor>> /\ pump[u] = "sending"
          /\ pump'[u] = IF Head(hand[u]).kind \in EndKinds THEN "ended" ELSE "receiving"
      BY <2>7, <2>t DEF PumpSends
    <3>3. ASSUME pump'[u] \in {"receiving", "sending"}
          PROVE  Sent(u) # <<>> /\ NoEndIn(Sent(u))
      <4>1. Head(hand[u]).kind \notin EndKinds
        BY <3>2, <3>3
      <4>2. Queue(u) # <<>> /\ NoEndIn(Queue(u))
        BY <2>t, <3>2 DEF OrderedAt
      <4>3. /\ hand[u] \in Seq(Items) /\ Len(hand[u]) = 1 /\ Head(hand[u]) = hand[u][1]
        <5>1. hand[u] \in Seq(Items) /\ Len(hand[u]) = 1
          BY <2>t, <3>2, ChannelsFunctions
        <5> QED
          BY <5>1
      <4>4. Sent(u) = Queue(u) \o hand[u]
        BY <2>t, SentTyped
      <4>5. /\ Len(Sent(u)) = Len(Queue(u)) + 1 /\ Len(Queue(u)) \in Nat
            /\ \A j \in 1..Len(Queue(u)) : Sent(u)[j] = Queue(u)[j]
            /\ Sent(u)[Len(Queue(u)) + 1] = hand[u][1]
        BY <2>t, <4>3, <4>4, ConcatItems
      <4>6. ASSUME NEW j \in 1..Len(Sent(u)) PROVE Sent(u)[j].kind \notin EndKinds
        <5>1. CASE j \in 1..Len(Queue(u))
          BY <4>2, <4>5, <5>1 DEF NoEndIn
        <5>2. CASE j = Len(Queue(u)) + 1
          BY <4>1, <4>3, <4>5, <5>2
        <5> QED
          BY <4>5, <5>1, <5>2
      <4>7. Len(Sent(u)) # 0
        BY <4>5
      <4>8. Sent(u) # <<>>
        BY <4>7, EmptyIsTyped
      <4> QED
        BY <4>6, <4>8 DEF NoEndIn
    <3>4. at[u] \notin {"idle", "starting", "accepted", "refused"}
      BY <2>t, <3>2 DEF PumpHasStream
    <3> QED
      BY <2>t, <3>1, <3>2, <3>3, <3>4 DEF OrderedAt, WellFormed, Below, NoEndIn
  <2>d. ASSUME at[u] = "streaming", Goto(u, "dropped"), pump' = [pump EXCEPT ![u] = "ended"],
               UNCHANGED cursor, Queue(u)' = Queue(u), Sent(u)' = Queue(u)
        PROVE  OrderedAt(u)'
    <3>1. hand[u] \in Seq(Items) /\ Sent(u) = Queue(u) \o hand[u]
      BY <2>t, SentTyped, ChannelsFunctions
    <3>2. WellFormed(Queue(u)) /\ Below(Queue(u), cursor[u])
      BY <2>t, <3>1, PrefixWellFormed DEF OrderedAt
    <3>3. at'[u] = "dropped" /\ pump'[u] = "ended"
      BY <2>d, <2>t DEF Goto
    <3> QED
      BY <2>d, <3>2, <3>3 DEF OrderedAt, WellFormed, Below, NoEndIn
  <2>8. ASSUME Consume(u) PROVE OrderedAt(u)'
    <3>1. /\ at[u] = "streaming" /\ UNCHANGED cursor
          /\ DropStream(u) \/ UNCHANGED <<at, pump, hand>>
      BY <2>8 DEF Consume
    <3>2. CASE DropStream(u)
      <4>1. hand'[u] = <<>>
        BY <2>t, <3>2 DEF DropStream, ChannelsTyped
      <4> QED
        BY <2>8, <2>d, <3>1, <3>2, <4>1, ConsumeKeeps DEF DropStream
    <3>3. CASE UNCHANGED <<at, pump, hand>>
      BY <2>8, <2>t, <3>1, <3>3, ConsumeKeeps, SameOrder
    <3> QED
      BY <3>1, <3>2, <3>3
  <2>9. ASSUME StreamEnds(u) PROVE OrderedAt(u)'
    <3>1. UNCHANGED <<hand, stream, received, pump, cursor>> /\ at'[u] = "drained"
      BY <2>9, <2>t DEF StreamEnds, Goto, pumpVars
    <3> QED
      BY <2>t, <2>s, <3>1, SameOrder
  <2>10. ASSUME Abandon(u) PROVE OrderedAt(u)'
    <3>1. /\ at[u] = "streaming" /\ DropStream(u) /\ UNCHANGED <<stream, received, cursor>>
      BY <2>10 DEF Abandon
    <3> QED
      BY <2>d, <3>1, DropKeeps DEF DropStream
  <2>11. ASSUME NEW t \in Turns, TurnStep(t) \/ Abandon(t) PROVE OrderedAt(u)'
    <3>1. CASE u = t
      BY <2>11, <3>1, <2>4, <2>5, <2>6, <2>7, <2>8, <2>9, <2>10 DEF TurnStep
    <3>2. CASE u # t
      BY <2>11, <3>2, <2>o
    <3> QED
      BY <3>1, <3>2
  <2> QED
    BY <2>1, <2>2, <2>3, <2>11 DEF Next
<1> QED
  BY <1>1, <1>2, TypedInvariant, PTL DEF Spec

\* WellFormedStream, for any number of turns that share the broadcast channel.
THEOREM StreamsAreWellFormed == Spec => []WellFormedStream
<1>1. Ordered => WellFormedStream
  BY DEF Ordered, OrderedAt, WellFormed, WellFormedStream
<1> QED
  BY <1>1, OrderedInvariant, PTL

-----------------------------------------------------------------------------
(* Nothing is missing                                                      *)

\* No event is about a turn that was not asked for.
NothingEarly ==
  \A t \in Turns : at[t] = "idle" => \A k \in 1..Len(events) : events[k].turn # t

About(t, k) == events[k].turn = t /\ Forwards(t, events[k])

Holds(s, k) == \E j \in 1..Len(s) : s[j].pos = k

KeptAt(t) ==
  Live(t) /\ ~lagged[t] => \A k \in 1..(cursor[t] - 1) : About(t, k) => Holds(Sent(t), k)

Complete == NothingEarly /\ \A t \in Turns : KeptAt(t)

\* A step that sends nothing and reads nothing misses nothing.
LEMMA SameKept ==
  ASSUME NEW t \in Turns, KeptAt(t), events' = events, cursor'[t] = cursor[t],
         Sent(t)' = Sent(t), Live(t)' => Live(t), lagged'[t] = lagged[t]
  PROVE  KeptAt(t)'
BY DEF KeptAt, About, Forwards, Matches, Holds

\* A live pump that never lagged sent all the events of its turn that it passed.
LEMMA CompleteInvariant == Spec => []Complete
<1>1. Init => Complete
  BY DEF Init, Complete, NothingEarly, KeptAt
<1>2. Typed /\ Ordered /\ Complete /\ [Next]_vars => Complete'
  <2> SUFFICES ASSUME Typed, Ordered, Complete, [Next]_vars PROVE Complete'
    OBVIOUS
  <2>t. /\ ChannelsTyped /\ PumpHasStream
        /\ events \in Seq(Events) /\ Len(events) \in Nat
        /\ cursor \in [Turns -> 1..(MaxEvents + 2)] /\ lagged \in [Turns -> BOOLEAN]
        /\ \A t \in Turns : cursor[t] \in Nat \ {0} /\ cursor[t] <= Len(events) + 1
        /\ at \in [Turns -> Points] /\ pump \in [Turns -> PumpStates]
        /\ NothingEarly
    BY StreamCapAssumption DEF Typed, TypeOK, Bounded, ChannelsTyped, PumpStates, Complete
  <2>a. \A t \in Turns : KeptAt(t)
    BY DEF Complete
  <2>s. ASSUME NEW t \in Turns, UNCHANGED <<hand, stream, received>>
        PROVE  Sent(t)' = Sent(t)
    BY <2>s DEF Sent
  <2>o. ASSUME NEW t \in Turns, TurnStep(t) \/ Abandon(t)
        PROVE  /\ NothingEarly'
               /\ \A u \in Turns : u # t => KeptAt(u)'
    <3>1. /\ \A u \in Turns : u # t => at'[u] = at[u] /\ cursor'[u] = cursor[u]
                                       /\ lagged'[u] = lagged[u]
          /\ events' = events
      BY <2>o, <2>t DEF TurnStep, Abandon, SpawnPump, PumpLags, PumpReceives, PumpSends,
         Consume, StreamEnds, DropStream, Goto, pumpVars, busVars
    <3>2. \A u \in Turns : u # t =>
            hand'[u] = hand[u] /\ stream'[u] = stream[u] /\ received'[u] = received[u]
      BY <2>o, <2>t DEF TurnStep, Abandon, SpawnPump, PumpLags, PumpReceives, PumpSends,
         Consume, StreamEnds, DropStream, Goto, pumpVars, ChannelsTyped
    <3>3. \A u \in Turns : u # t => Sent(u)' = Sent(u)
      BY <3>2 DEF Sent
    <3>4. at'[t] = "idle" => at[t] = "idle"
      BY <2>o, <2>t DEF TurnStep, Abandon, SpawnPump, PumpLags, PumpReceives, PumpSends,
         Consume, StreamEnds, DropStream, Goto, pumpVars
    <3>5. NothingEarly'
      BY <2>t, <3>1, <3>4 DEF NothingEarly
    <3>6. \A u \in Turns : u # t => (Live(u)' => Live(u))
      BY <3>1 DEF Live
    <3> QED
      BY <2>a, <3>1, <3>3, <3>5, <3>6, SameKept
  <2>1. ASSUME Publish \/ CloseTransport PROVE Complete'
    <3>1. PICK e \in Events :
            /\ events' = Append(events, e)
            /\ e.turn \in Turns => at[e.turn] # "idle"
      BY <2>1, ClosedIsEvent, PublishedAssumption, NoIdAssumption
      DEF Publish, CloseTransport, Publishable, TransportClosed
    <3>2. /\ Len(events') = Len(events) + 1 /\ events'[Len(events) + 1] = e
          /\ \A k \in 1..Len(events) : events'[k] = events[k]
      BY <3>1, <2>t, AppendProperties
    <3>3. UNCHANGED <<at, cursor, lagged, hand, stream, received>>
      BY <2>1 DEF Publish, CloseTransport, pumpVars
    <3>4. ASSUME NEW t \in Turns, at'[t] = "idle", NEW k \in 1..Len(events')
          PROVE  events'[k].turn # t
      <4>1. CASE k \in 1..Len(events)
        BY <2>t, <3>2, <3>3, <3>4, <4>1 DEF NothingEarly
      <4>2. CASE k = Len(events) + 1
        BY <3>1, <3>2, <3>3, <3>4, <4>2
      <4> QED
        BY <2>t, <3>2, <4>1, <4>2
    <3>5. ASSUME NEW t \in Turns PROVE KeptAt(t)'
      <4>1. Sent(t)' = Sent(t)
        BY <2>s, <3>3
      <4>2. \A k \in 1..(cursor[t] - 1) : events'[k] = events[k]
        BY <2>t, <3>2
      <4>3. KeptAt(t)
        BY <2>a
      <4> QED
        BY <3>3, <4>1, <4>2, <4>3 DEF KeptAt, About, Forwards, Matches, Holds, Live
    <3> QED
      BY <3>4, <3>5 DEF Complete, NothingEarly
  <2>2. ASSUME NEW t \in Turns, Subscribe(t) PROVE Complete'
    <3>1. /\ at' = [at EXCEPT ![t] = "starting"] /\ at[t] = "idle"
          /\ cursor' = [cursor EXCEPT ![t] = Len(events) + 1]
          /\ UNCHANGED <<events, lagged, hand, stream, received>>
      BY <2>2 DEF Subscribe, Goto, busVars
    <3>2. NothingEarly'
      BY <2>t, <3>1 DEF NothingEarly
    <3>3. ASSUME NEW u \in Turns PROVE KeptAt(u)'
      <4>1. CASE u = t
        <5>1. \A k \in 1..(cursor'[t] - 1) : events'[k].turn # t
          BY <2>t, <3>1 DEF NothingEarly
        <5> QED
          BY <4>1, <5>1 DEF KeptAt, About
      <4>2. CASE u # t
        BY <2>a, <2>t, <2>s, <3>1, <4>2, SameKept DEF Live
      <4> QED
        BY <4>1, <4>2
    <3> QED
      BY <3>2, <3>3 DEF Complete
  <2>3. ASSUME NEW t \in Turns, StartAccepted(t) \/ StartFails(t) PROVE Complete'
    <3>1. /\ UNCHANGED <<events, lagged, cursor, hand, stream, received>>
          /\ at[t] = "starting"
          /\ \E p \in {"accepted", "refused"} : at' = [at EXCEPT ![t] = p]
      BY <2>3 DEF StartAccepted, StartFails, Goto, busVars, pumpVars
    <3>2. NothingEarly'
      BY <2>t, <3>1 DEF NothingEarly
    <3>3. ASSUME NEW u \in Turns PROVE KeptAt(u)'
      <4>1. Live(u)' => Live(u)
        BY <2>t, <3>1 DEF Live
      <4> QED
        BY <2>a, <2>s, <3>1, <4>1, SameKept
    <3> QED
      BY <3>2, <3>3 DEF Complete
  <2>4. ASSUME NEW t \in Turns, TurnStep(t) \/ Abandon(t) PROVE Complete'
    <3> SUFFICES KeptAt(t)'
      BY <2>4, <2>o DEF Complete
    <3>k. KeptAt(t)
      BY <2>a
    <3>1. CASE SpawnPump(t)
      <4>1. /\ UNCHANGED <<events, lagged, cursor>> /\ at[t] = "accepted"
        BY <3>1 DEF SpawnPump, busVars
      <4>2. \A k \in 1..(cursor[t] - 1) : Holds(Sent(t), k) => Holds(Sent(t)', k)
        <5>1. Sent(t) = <<>>
          BY <4>1 DEF Ordered, OrderedAt
        <5>2. Len(Sent(t)) = 0
          BY <5>1, EmptyIsTyped
        <5> QED
          BY <5>2 DEF Holds
      <4> QED
        BY <3>k, <4>1, <4>2 DEF KeptAt, About, Forwards, Matches, Live
    <3>2. CASE PumpLags(t)
      BY <3>2, <2>t DEF PumpLags, KeptAt
    <3>3. CASE PumpReceives(t)
      <4>1. /\ UNCHANGED <<at, events, lagged, stream, received>>
            /\ cursor'[t] = cursor[t] + 1
        BY <3>3, <2>t DEF PumpReceives, busVars
      <4>2. CASE Forwards(t, events[cursor[t]])
        <5>1. PICK i \in Items : i.pos = cursor[t] /\ Sent(t)' = Sent(t) \o <<i>>
          BY <3>3, <4>2, ReceiveSends
        <5>2. /\ Len(Sent(t)') = Len(Sent(t)) + 1 /\ Len(Sent(t)) \in Nat
              /\ \A j \in 1..Len(Sent(t)) : Sent(t)'[j] = Sent(t)[j]
              /\ Sent(t)'[Len(Sent(t)) + 1] = i
          <6>1. Sent(t) \in Seq(Items) /\ <<i>> \in Seq(Items) /\ Len(<<i>>) = 1 /\ <<i>>[1] = i
            BY <2>t, SentTyped, OneIsTyped
          <6> QED
            BY <5>1, <6>1, ConcatItems
        <5>3. Holds(Sent(t)', cursor[t])
          BY <5>1, <5>2 DEF Holds
        <5>4. \A k \in 1..(cursor[t] - 1) : Holds(Sent(t), k) => Holds(Sent(t)', k)
          BY <5>2 DEF Holds
        <5> QED
          BY <2>t, <3>k, <4>1, <5>3, <5>4 DEF KeptAt, About, Forwards, Matches, Live
      <4>3. CASE ~Forwards(t, events[cursor[t]])
        <5>1. Sent(t)' = Sent(t)
          BY <2>s, <3>3, <4>1, <4>3 DEF PumpReceives
        <5> QED
          <6>1. ~About(t, cursor[t])
            BY <4>3 DEF About
          <6>2. \A k \in Nat : About(t, k)' <=> About(t, k)
            BY <4>1 DEF About, Forwards, Matches
          <6>3. /\ Live(t)' <=> Live(t)
                /\ \A k \in Nat : Holds(Sent(t), k)' <=> Holds(Sent(t), k)
            BY <4>1, <5>1 DEF Live, Holds
          <6>4. \A k \in 1..(cursor'[t] - 1) : k \in 1..(cursor[t] - 1) \/ k = cursor[t]
            BY <2>t, <4>1
          <6> QED
            BY <2>t, <3>k, <4>1, <6>1, <6>2, <6>3, <6>4 DEF KeptAt
      <4> QED
        BY <4>2, <4>3
    <3>4. CASE PumpSends(t)
      <4>1. UNCHANGED <<events, at, lagged, cursor>>
        BY <3>4 DEF PumpSends, busVars
      <4> QED
        BY <3>k, <3>4, <4>1, SendKeeps, SameKept DEF Live
    <3>5. CASE Consume(t)
      <4>1. UNCHANGED <<events, lagged, cursor>> /\ (DropStream(t) \/ UNCHANGED <<at, hand>>)
        BY <3>5 DEF Consume, busVars
      <4>2. CASE DropStream(t)
        BY <2>t, <4>2 DEF DropStream, Goto, KeptAt, Live
      <4>3. CASE UNCHANGED <<at, hand>>
        BY <3>k, <3>5, <4>1, <4>3, ConsumeKeeps, SameKept DEF Live
      <4> QED
        BY <4>1, <4>2, <4>3
    <3>6. CASE StreamEnds(t)
      <4>1. UNCHANGED <<events, lagged, cursor, hand, stream, received>> /\ at[t] = "streaming"
        BY <3>6 DEF StreamEnds, busVars, pumpVars
      <4> QED
        BY <2>s, <3>k, <4>1, SameKept DEF Live
    <3>7. CASE Abandon(t)
      BY <2>t, <3>7 DEF Abandon, DropStream, Goto, KeptAt, Live
    <3> QED
      BY <2>4, <3>1, <3>2, <3>3, <3>4, <3>5, <3>6, <3>7 DEF TurnStep
  <2>5. ASSUME UNCHANGED vars PROVE Complete'
    <3>1. UNCHANGED <<events, at, lagged, cursor, hand, stream, received>>
      BY <2>5 DEF vars, busVars, pumpVars
    <3> QED
      BY <2>a, <2>t, <2>s, <3>1, SameKept DEF Complete, NothingEarly, Live
  <2> QED
    BY <2>1, <2>2, <2>3, <2>4, <2>5 DEF Next
<1> QED
  BY <1>1, <1>2, TypedInvariant, OrderedInvariant, PTL DEF Spec

\* NothingMissing: whatever the capacities, and however the events of other turns
\* are mixed in, a pump that kept up skips no event about its turn.
THEOREM NothingIsMissing == Spec => []NothingMissing
<1>1. Complete => NothingMissing
  BY DEF Complete, KeptAt, About, Holds, NothingMissing
<1> QED
  BY <1>1, CompleteInvariant, PTL

-----------------------------------------------------------------------------
(* Where the items of a stream come from                                   *)

\* The updates about t that its receiver passed before position n, and the usage
\* of the last one.
Updates(t, n) == {k \in since[t]..(n - 1) :
                    events[k].kind = "usage" /\ Matches(t, events[k])}

LatestOf(S) == CHOOSE k \in S : \A l \in S : l <= k

LastUpdate(t, n) ==
  IF Updates(t, n) = {} THEN NoUsage ELSE events[LatestOf(Updates(t, n))].usage

Due(t, k) == IF events[k].usage # NoUsage THEN events[k].usage ELSE LastUpdate(t, k)

\* An item is an event the receiver passed and forwarded; a completed turn came
\* with its own usage or that of the last update.
FromEvent(t, i) ==
  /\ i.pos \in 1..(cursor[t] - 1)
  /\ i.kind = events[i.pos].kind /\ Forwards(t, events[i.pos])
  /\ ~lagged[t] /\ i.kind = "completed" => i.usage = Due(t, i.pos)

TracedAt(t) ==
  /\ at[t] = "idle" => latest[t] = NoUsage
  /\ since[t] <= cursor[t]
  /\ ~lagged[t] => latest[t] = LastUpdate(t, cursor[t])
  /\ \A j \in 1..Len(Sent(t)) : Sent(t)[j] = TurnStarted \/ FromEvent(t, Sent(t)[j])

Traced == \A t \in Turns : TracedAt(t)

\* The last of the updates is one of them.
LEMMA LastIsUpdate ==
  ASSUME Typed, NEW t \in Turns, NEW n \in Nat, Updates(t, n) # {}
  PROVE  LatestOf(Updates(t, n)) \in Updates(t, n)
<1>1. since[t] \in Nat
  BY StreamCapAssumption DEF Typed, TypeOK
<1>2. Updates(t, n) \subseteq Nat /\ \A k \in Updates(t, n) : k <= n
  BY <1>1 DEF Updates
<1>3. \E k \in Updates(t, n) : \A l \in Updates(t, n) : l <= k
  BY <1>2, GreatestNumber
<1> QED
  BY <1>3 DEF LatestOf

\* Events published later change nothing about the updates before.
LEMMA UpdatesKept ==
  ASSUME Typed, NEW t \in Turns, since'[t] = since[t],
         \A k \in 1..Len(events) : events'[k] = events[k],
         NEW n \in Nat, n <= Len(events) + 1
  PROVE  LastUpdate(t, n)' = LastUpdate(t, n)
<1>1. since[t] \in Nat \ {0} /\ Len(events) \in Nat
  BY StreamCapAssumption DEF Typed, TypeOK
<1>2. \A k \in since[t]..(n - 1) : k \in 1..Len(events) /\ events'[k] = events[k]
  BY <1>1
<1>3. Updates(t, n)' = Updates(t, n)
  BY <1>2 DEF Updates, Matches
<1>4. CASE Updates(t, n) = {}
  BY <1>3, <1>4 DEF LastUpdate
<1>5. CASE Updates(t, n) # {}
  <2> DEFINE last == LatestOf(Updates(t, n))
  <2>1. last \in Updates(t, n)
    BY <1>5, LastIsUpdate
  <2>2. last \in since[t]..(n - 1)
    BY <2>1 DEF Updates
  <2> HIDE DEF last
  <2>3. events'[last] = events[last]
    BY <1>2, <2>2
  <2>4. LastUpdate(t, n) = events[last].usage
    BY <1>5 DEF LastUpdate, last
  <2>5. LastUpdate(t, n)' = events'[last].usage
    BY <1>3, <1>5 DEF LastUpdate, last
  <2> QED
    BY <2>3, <2>4, <2>5
<1> QED
  BY <1>4, <1>5

\* Nor about the items sent before.
LEMMA ItemsKept ==
  ASSUME Typed, NEW t \in Turns, since'[t] = since[t],
         \A k \in 1..Len(events) : events'[k] = events[k],
         cursor[t] <= cursor'[t], cursor'[t] \in Nat, lagged'[t] \/ ~lagged[t],
         NEW i \in Items, FromEvent(t, i)
  PROVE  FromEvent(t, i)'
<1>1. /\ cursor[t] \in Nat /\ cursor[t] <= Len(events) + 1 /\ Len(events) \in Nat
      /\ lagged[t] \in BOOLEAN
  BY StreamCapAssumption DEF Typed, TypeOK, Bounded
<1>2. i.pos \in 1..(cursor[t] - 1)
  BY DEF FromEvent
<1>3. i.pos \in 1..Len(events) /\ i.pos \in 1..(cursor'[t] - 1)
  BY <1>1, <1>2
<1>4. events'[i.pos] = events[i.pos]
  BY <1>3
<1>5. LastUpdate(t, i.pos)' = LastUpdate(t, i.pos)
  BY <1>1, <1>3, UpdatesKept
<1>6. Due(t, i.pos)' = Due(t, i.pos)
  BY <1>4, <1>5 DEF Due
<1>7. i.kind = events'[i.pos].kind /\ Forwards(t, events'[i.pos])
  BY <1>4 DEF FromEvent, Forwards, Matches
<1>8. ASSUME ~lagged'[t], i.kind = "completed" PROVE i.usage = Due(t, i.pos)'
  BY <1>6, <1>8 DEF FromEvent
<1> QED
  BY <1>3, <1>7, <1>8 DEF FromEvent, Forwards, Matches

\* A step that reads nothing and sends nothing new leaves all items traced.
LEMMA SameTraced ==
  ASSUME Typed, NEW t \in Turns, TracedAt(t),
         \A k \in 1..Len(events) : events'[k] = events[k],
         since'[t] = since[t], cursor'[t] = cursor[t], latest'[t] = latest[t],
         lagged'[t] = lagged[t], at'[t] = "idle" => at[t] = "idle",
         \A j \in 1..Len(Sent(t)') :
           \/ Sent(t)'[j] = TurnStarted
           \/ \E m \in 1..Len(Sent(t)) : Sent(t)'[j] = Sent(t)[m]
  PROVE  TracedAt(t)'
<1>1. /\ cursor[t] \in Nat /\ cursor[t] <= Len(events) + 1 /\ lagged[t] \in BOOLEAN
      /\ ChannelsTyped
  BY StreamCapAssumption DEF Typed, TypeOK, Bounded, ChannelsTyped
<1>2. PICK n \in Nat : n = cursor[t]
  BY <1>1
<1>3. LastUpdate(t, n)' = LastUpdate(t, n)
  BY <1>1, <1>2, UpdatesKept
<1>4. (~lagged[t] => latest[t] = LastUpdate(t, cursor[t]))'
  <2>1. ~lagged[t] => latest[t] = LastUpdate(t, n)
    BY <1>2 DEF TracedAt
  <2>2. cursor'[t] = n /\ latest'[t] = latest[t] /\ lagged'[t] = lagged[t]
    BY <1>2
  <2> QED
    BY <1>3, <2>1, <2>2
<1>5. ASSUME NEW i \in Items, NEW j \in 1..Len(Sent(t)'), Sent(t)'[j] = i
      PROVE  i = TurnStarted \/ FromEvent(t, i)'
  <2>1. CASE i = TurnStarted
    BY <2>1
  <2>2. ASSUME NEW m \in 1..Len(Sent(t)), i = Sent(t)[m]
        PROVE  i = TurnStarted \/ FromEvent(t, i)'
    <3>1. i = TurnStarted \/ FromEvent(t, i)
      BY <2>2 DEF TracedAt
    <3>2. cursor'[t] \in Nat /\ cursor[t] <= cursor'[t] /\ (lagged'[t] \/ ~lagged[t])
      BY <1>1
    <3> QED
      BY <3>1, <3>2, ItemsKept
  <2> QED
    BY <1>5, <2>1, <2>2
<1>6. \A j \in 1..Len(Sent(t)') : Sent(t)'[j] \in Items
  <2>1. TurnStarted \in Items
    BY FirstItemTyped
  <2>2. \A m \in 1..Len(Sent(t)) : Sent(t)[m] \in Items
    BY <1>1, SentTyped, ElementOfSeq
  <2> QED
    BY <2>1, <2>2
<1> QED
  BY <1>4, <1>5, <1>6 DEF TracedAt

\* Reading an event brings latest_usage up to date.
LEMMA ReceiveUpdates ==
  ASSUME Typed, NEW t \in Turns, TracedAt(t), PumpReceives(t), ~lagged[t]
  PROVE  (latest[t] = LastUpdate(t, cursor[t]))'
<1>1. /\ cursor \in [Turns -> 1..(MaxEvents + 2)] /\ cursor[t] \in Nat
      /\ since[t] \in Nat /\ since[t] <= cursor[t] /\ cursor[t] <= Len(events) + 1
      /\ latest \in [Turns -> Usages \cup {NoUsage}]
  BY StreamCapAssumption DEF Typed, TypeOK, Bounded, TracedAt
<1>2. PICK n \in Nat : n = cursor[t]
  BY <1>1
<1>3. /\ events' = events /\ since' = since /\ cursor'[t] = n + 1
      /\ latest'[t] = IF events[n].kind = "usage" /\ Matches(t, events[n])
                        THEN events[n].usage ELSE latest[t]
  BY <1>1, <1>2 DEF PumpReceives, busVars
<1>4. LastUpdate(t, n)' = LastUpdate(t, n) /\ latest[t] = LastUpdate(t, n)
  BY <1>1, <1>2, <1>3, UpdatesKept DEF TracedAt
<1>5. latest'[t] = LastUpdate(t, n + 1)'
  <2>1. CASE events[n].kind = "usage" /\ Matches(t, events[n])
    <3> DEFINE U == Updates(t, n + 1)'
    <3>1. n \in U /\ U \subseteq Nat /\ \A l \in U : l <= n
      BY <1>1, <1>2, <1>3, <2>1 DEF Updates, Matches
    <3>2. LastUpdate(t, n + 1)' = events'[LatestOf(U)].usage
      BY <3>1 DEF LastUpdate
    <3> HIDE DEF U
    <3>3. LatestOf(U) \in U /\ \A l \in U : l <= LatestOf(U)
      BY <3>1 DEF LatestOf
    <3>4. LatestOf(U) = n
      <4>1. PICK v \in U : v = LatestOf(U)
        BY <3>3
      <4>2. v \in Nat /\ v <= n /\ n <= v
        BY <3>1, <3>3, <4>1
      <4> QED
        BY <4>1, <4>2
    <3> QED
      BY <1>3, <2>1, <3>2, <3>4
  <2>2. CASE ~(events[n].kind = "usage" /\ Matches(t, events[n]))
    <3>1. Updates(t, n + 1)' = Updates(t, n)'
      BY <1>1, <1>2, <1>3, <2>2 DEF Updates, Matches
    <3>2. LastUpdate(t, n + 1)' = LastUpdate(t, n)'
      BY <1>3, <3>1 DEF LastUpdate
    <3> QED
      BY <1>3, <1>4, <2>2, <3>2
  <2> QED
    BY <2>1, <2>2
<1> QED
  BY <1>3, <1>5

\* What it forwards is that event.
LEMMA ReceiveTraces ==
  ASSUME Typed, NEW t \in Turns, TracedAt(t), PumpReceives(t),
         Forwards(t, events[cursor[t]]), NEW i \in Items,
         i.pos = cursor[t], i.kind = events[cursor[t]].kind,
         i.kind = "completed" => i.usage = Reported(t, events[cursor[t]])
  PROVE  FromEvent(t, i)'
<1>1. /\ cursor \in [Turns -> 1..(MaxEvents + 2)] /\ cursor[t] \in Nat \ {0}
      /\ cursor[t] <= Len(events) + 1
  BY StreamCapAssumption DEF Typed, TypeOK, Bounded
<1>2. PICK n \in Nat : n = cursor[t]
  BY <1>1
<1>3. /\ events' = events /\ since' = since /\ lagged' = lagged /\ cursor'[t] = n + 1
  BY <1>1, <1>2 DEF PumpReceives, busVars
<1>4. LastUpdate(t, n)' = LastUpdate(t, n)
  BY <1>1, <1>2, <1>3, UpdatesKept
<1>5. Due(t, n)' = Due(t, n)
  BY <1>3, <1>4 DEF Due
<1>6. i.pos = n /\ n \in 1..(cursor'[t] - 1)
  BY <1>1, <1>2, <1>3
<1>7. ASSUME ~lagged'[t], i.kind = "completed" PROVE i.usage = Due(t, i.pos)'
  <2>1. latest[t] = LastUpdate(t, n)
    BY <1>2, <1>3, <1>7 DEF TracedAt
  <2>2. i.usage = Due(t, n)
    BY <1>2, <1>7, <2>1 DEF Reported, Due
  <2> QED
    BY <1>5, <1>6, <2>2
<1>8. i.kind = events'[n].kind /\ Forwards(t, events'[n])
  BY <1>2, <1>3
<1> QED
  BY <1>6, <1>7, <1>8 DEF FromEvent, Forwards, Matches

\* Every item is an event its receiver passed, and latest_usage the usage of the
\* last update, while the receiver keeps up.
LEMMA TracedInvariant == Spec => []Traced
<1>1. Init => Traced
  <2> SUFFICES ASSUME Init, NEW t \in Turns PROVE TracedAt(t)
    BY DEF Traced
  <2>1. Sent(t) = <<>>
    <3>1. received[t] = <<>> /\ stream[t] = <<>> /\ hand[t] = <<>>
      BY DEF Init
    <3> QED
      BY <3>1, EmptyIsTyped, NothingAdded DEF Sent
  <2>2. since[t] = 1 /\ cursor[t] = 1 /\ latest[t] = NoUsage
    BY DEF Init
  <2>3. Updates(t, cursor[t]) = {}
    BY <2>2 DEF Updates
  <2> QED
    BY <2>1, <2>2, <2>3 DEF TracedAt, LastUpdate
<1>2. Typed /\ Ordered /\ Traced /\ [Next]_vars => Traced'
  <2> SUFFICES ASSUME Typed, Ordered, Traced, [Next]_vars, NEW u \in Turns PROVE TracedAt(u)'
    BY DEF Traced
  <2>t. /\ ChannelsTyped /\ PumpHasStream /\ events \in Seq(Events)
        /\ cursor \in [Turns -> 1..(MaxEvents + 2)] /\ cursor[u] \in Nat \ {0}
        /\ since \in [Turns -> 1..(MaxEvents + 2)] /\ since[u] \in Nat
        /\ latest \in [Turns -> Usages \cup {NoUsage}] /\ lagged \in [Turns -> BOOLEAN]
        /\ at \in [Turns -> Points] /\ Len(events) \in Nat
        /\ TracedAt(u) /\ Sent(u) \in Seq(Items) /\ Queue(u) \in Seq(Items)
    BY SentTyped, StreamCapAssumption DEF Typed, TypeOK, ChannelsTyped, Traced
  <2>q. ASSUME Sent(u)' = Queue(u), NEW j \in 1..Len(Sent(u)')
        PROVE  j \in 1..Len(Sent(u)) /\ Sent(u)'[j] = Sent(u)[j]
    <3>1. hand[u] \in Seq(Items) /\ Sent(u) = Queue(u) \o hand[u]
      BY <2>t, SentTyped, ChannelsFunctions
    <3>2. /\ Len(Sent(u)) = Len(Queue(u)) + Len(hand[u])
          /\ Len(Queue(u)) \in Nat /\ Len(hand[u]) \in Nat
          /\ \A l \in 1..Len(Queue(u)) : Sent(u)[l] = Queue(u)[l]
      BY <2>t, <3>1, ConcatItems
    <3> QED
      BY <2>q, <3>2
  <2>s. ASSUME UNCHANGED <<hand, stream, received>> PROVE Sent(u)' = Sent(u)
    BY <2>s DEF Sent
  <2>k. ASSUME UNCHANGED <<since, cursor, latest, lagged>>,
               at'[u] = "idle" => at[u] = "idle",
               \A k \in 1..Len(events) : events'[k] = events[k],
               Sent(u)' = Sent(u) \/ Sent(u)' = Queue(u)
        PROVE  TracedAt(u)'
    BY <2>k, <2>q, <2>t, SameTraced
  <2>o. ASSUME NEW t \in Turns, TurnStep(t) \/ Abandon(t), u # t PROVE TracedAt(u)'
    <3>1. /\ at'[u] = at[u] /\ since'[u] = since[u] /\ cursor'[u] = cursor[u]
          /\ latest'[u] = latest[u] /\ lagged'[u] = lagged[u] /\ events' = events
      BY <2>o, <2>t DEF TurnStep, Abandon, SpawnPump, PumpLags, PumpReceives, PumpSends,
         Consume, StreamEnds, DropStream, Goto, pumpVars, busVars
    <3>2. hand'[u] = hand[u] /\ stream'[u] = stream[u] /\ received'[u] = received[u]
      BY <2>o, <2>t DEF TurnStep, Abandon, SpawnPump, PumpLags, PumpReceives, PumpSends,
         Consume, StreamEnds, DropStream, Goto, pumpVars, ChannelsTyped
    <3>3. Sent(u)' = Sent(u)
      BY <3>2 DEF Sent
    <3> QED
      BY <2>t, <3>1, <3>3, SameTraced
  <2>1. ASSUME Publish \/ CloseTransport \/ UNCHANGED vars PROVE TracedAt(u)'
    <3>1. UNCHANGED <<since, cursor, latest, lagged, at, hand, stream, received>>
      BY <2>1 DEF Publish, CloseTransport, vars, pumpVars
    <3>2. \A k \in 1..Len(events) : events'[k] = events[k]
      <4>1. \/ events' = events
            \/ \E e \in Events : events' = Append(events, e)
        BY <2>1, ClosedIsEvent, PublishedAssumption DEF Publish, CloseTransport, vars, busVars
      <4> QED
        BY <2>t, <4>1, AppendProperties
    <3> QED
      BY <2>k, <2>s, <3>1, <3>2
  <2>2. ASSUME NEW t \in Turns, Subscribe(t) PROVE TracedAt(u)'
    <3>1. /\ at' = [at EXCEPT ![t] = "starting"] /\ at[t] = "idle"
          /\ since' = [since EXCEPT ![t] = Len(events) + 1]
          /\ cursor' = [cursor EXCEPT ![t] = Len(events) + 1]
          /\ UNCHANGED <<events, lagged, latest, hand, stream, received>>
      BY <2>2 DEF Subscribe, Goto, busVars
    <3>2. CASE u = t
      <4>1. Sent(u) = <<>>
        BY <3>1, <3>2 DEF Ordered, OrderedAt
      <4>2. Len(Sent(u)') = 0
        BY <2>s, <3>1, <4>1, EmptyIsTyped
      <4>3. /\ since'[u] = Len(events) + 1 /\ cursor'[u] = Len(events) + 1
            /\ latest'[u] = NoUsage
        BY <2>t, <3>1, <3>2 DEF TracedAt
      <4>4. (Updates(u, cursor[u]) = {})'
        BY <2>t, <4>3 DEF Updates
      <4>5. (latest[u] = LastUpdate(u, cursor[u]))'
        BY <4>3, <4>4 DEF LastUpdate
      <4> QED
        BY <2>t, <4>2, <4>3, <4>5 DEF TracedAt
    <3>3. CASE u # t
      BY <2>t, <2>s, <3>1, <3>3, SameTraced
    <3> QED
      BY <3>2, <3>3
  <2>3. ASSUME NEW t \in Turns, StartAccepted(t) \/ StartFails(t) PROVE TracedAt(u)'
    <3>1. /\ UNCHANGED <<events, since, lagged, latest, cursor, hand, stream, received>>
          /\ \E p \in {"accepted", "refused"} : at' = [at EXCEPT ![t] = p]
      BY <2>3 DEF StartAccepted, StartFails, Goto, busVars, pumpVars
    <3>2. at'[u] = "idle" => at[u] = "idle"
      BY <2>t, <3>1
    <3> QED
      BY <2>k, <2>s, <3>1, <3>2
  <2>4. ASSUME SpawnPump(u) PROVE TracedAt(u)'
    <3>1. Sent(u) = <<>>
      BY <2>4, <2>t DEF SpawnPump, Ordered, OrderedAt
    <3>2. Sent(u)' = <<TurnStarted>>
      BY <2>4, <3>1, SpawnSends
    <3>3. Len(<<TurnStarted>>) = 1 /\ <<TurnStarted>>[1] = TurnStarted
      OBVIOUS
    <3>4. \A j \in 1..Len(Sent(u)') : Sent(u)'[j] = TurnStarted
      BY <3>2, <3>3
    <3>5. /\ UNCHANGED <<events, since, cursor, latest, lagged>> /\ at'[u] = "streaming"
      BY <2>4, <2>t DEF SpawnPump, Goto, busVars
    <3> QED
      BY <2>t, <3>4, <3>5, SameTraced
  <2>5. ASSUME PumpLags(u) PROVE TracedAt(u)'
    <3>1. /\ UNCHANGED <<events, since, latest, hand, stream, received, at>>
          /\ cursor' = [cursor EXCEPT ![u] = Oldest] /\ cursor[u] < Oldest
          /\ lagged'[u] = TRUE
      BY <2>5, <2>t DEF PumpLags, busVars
    <3>2. Oldest \in Nat /\ cursor'[u] = Oldest
      BY <2>t, <3>1, StreamCapAssumption DEF Oldest
    <3>3. ASSUME NEW i \in Items, FromEvent(u, i) PROVE FromEvent(u, i)'
      <4>1. /\ cursor[u] <= cursor'[u] /\ cursor'[u] \in Nat /\ since'[u] = since[u]
            /\ \A k \in 1..Len(events) : events'[k] = events[k]
        BY <2>t, <3>1, <3>2
      <4> QED
        BY <3>1, <3>3, <4>1, ItemsKept
    <3>4. \A j \in 1..Len(Sent(u)) : /\ Sent(u)[j] \in Items
                                     /\ Sent(u)[j] = TurnStarted \/ FromEvent(u, Sent(u)[j])
      BY <2>t, ElementOfSeq DEF TracedAt
    <3>5. Sent(u)' = Sent(u)
      BY <2>s, <3>1
    <3>6. ASSUME NEW i \in Items, NEW j \in 1..Len(Sent(u)'), Sent(u)'[j] = i
          PROVE  i = TurnStarted \/ FromEvent(u, i)'
      BY <3>3, <3>4, <3>5, <3>6
    <3>7. since'[u] <= cursor'[u]
      BY <2>t, <3>1, <3>2 DEF TracedAt
    <3> QED
      BY <2>t, <3>1, <3>4, <3>5, <3>6, <3>7 DEF TracedAt
  <2>6. ASSUME PumpReceives(u) PROVE TracedAt(u)'
    <3>1. /\ UNCHANGED <<events, since, at, lagged, stream, received>>
          /\ cursor'[u] = cursor[u] + 1 /\ pump[u] = "receiving"
      BY <2>6, <2>t DEF PumpReceives, Reading, busVars
    <3>2. at'[u] = "idle" => latest'[u] = NoUsage
      BY <2>t, <3>1 DEF PumpHasStream
    <3>3. (~lagged[u] => latest[u] = LastUpdate(u, cursor[u]))'
      BY <2>t, <2>6, <3>1, ReceiveUpdates
    <3>4. ASSUME NEW i \in Items, FromEvent(u, i) PROVE FromEvent(u, i)'
      <4>1. /\ cursor[u] <= cursor'[u] /\ cursor'[u] \in Nat /\ since'[u] = since[u]
            /\ \A k \in 1..Len(events) : events'[k] = events[k]
            /\ lagged'[u] \/ ~lagged[u]
        BY <2>t, <3>1
      <4> QED
        BY <3>4, <4>1, ItemsKept
    <3>5. \A j \in 1..Len(Sent(u)) : /\ Sent(u)[j] \in Items
                                     /\ Sent(u)[j] = TurnStarted \/ FromEvent(u, Sent(u)[j])
      BY <2>t, ElementOfSeq DEF TracedAt
    <3>6. ASSUME NEW j \in 1..Len(Sent(u)')
          PROVE  \/ \E m \in 1..Len(Sent(u)) : Sent(u)'[j] = Sent(u)[m]
                 \/ \E i \in Items : Sent(u)'[j] = i /\ FromEvent(u, i)'
      <4>1. CASE Forwards(u, events[cursor[u]])
        <5>1. PICK i \in Items :
                /\ i.pos = cursor[u] /\ i.kind = events[cursor[u]].kind
                /\ i.kind = "completed" => i.usage = Reported(u, events[cursor[u]])
                /\ Sent(u)' = Queue(u) \o <<i>> /\ Sent(u) = Queue(u)
          BY <2>6, <4>1, ReceiveSends
        <5>2. FromEvent(u, i)'
          BY <2>t, <2>6, <4>1, <5>1, ReceiveTraces
        <5>3. <<i>> \in Seq(Items) /\ Len(<<i>>) = 1 /\ <<i>>[1] = i
          BY OneIsTyped
        <5>4. /\ Len(Sent(u)') = Len(Sent(u)) + 1 /\ Len(Sent(u)) \in Nat
              /\ \A l \in 1..Len(Sent(u)) : Sent(u)'[l] = Sent(u)[l]
              /\ Sent(u)'[Len(Sent(u)) + 1] = i
          BY <2>t, <5>1, <5>3, ConcatItems
        <5>5. j \in 1..Len(Sent(u)) \/ j = Len(Sent(u)) + 1
          BY <5>4
        <5> QED
          BY <5>2, <5>4, <5>5
      <4>2. CASE ~Forwards(u, events[cursor[u]])
        <5>1. Sent(u)' = Sent(u)
          BY <2>s, <2>6, <3>1, <4>2 DEF PumpReceives
        <5> QED
          BY <5>1
      <4> QED
        BY <4>1, <4>2
    <3>7. ASSUME NEW i \in Items, NEW j \in 1..Len(Sent(u)'), Sent(u)'[j] = i
          PROVE  i = TurnStarted \/ FromEvent(u, i)'
      BY <3>4, <3>5, <3>6, <3>7
    <3>8. since'[u] <= cursor'[u] /\ \A j \in 1..Len(Sent(u)') : Sent(u)'[j] \in Items
      BY <2>t, <3>1, <3>5, <3>6 DEF TracedAt
    <3> QED
      BY <3>2, <3>3, <3>7, <3>8 DEF TracedAt
  <2>7. ASSUME PumpSends(u) PROVE TracedAt(u)'
    BY <2>7, <2>k, SendKeeps DEF PumpSends, busVars
  <2>8. ASSUME Consume(u) PROVE TracedAt(u)'
    <3>1. /\ UNCHANGED <<events, since, cursor, latest, lagged>> /\ at[u] = "streaming"
          /\ DropStream(u) \/ UNCHANGED <<at, pump, hand>>
      BY <2>8 DEF Consume, busVars
    <3>2. at'[u] = "idle" => at[u] = "idle"
      BY <2>t, <3>1 DEF DropStream, Goto
    <3>3. hand'[u] = <<>> \/ hand' = hand
      BY <2>t, <3>1 DEF DropStream, ChannelsTyped
    <3> QED
      BY <2>8, <2>k, <3>1, <3>2, <3>3, ConsumeKeeps
  <2>9. ASSUME StreamEnds(u) PROVE TracedAt(u)'
    <3>1. /\ UNCHANGED <<events, since, cursor, latest, lagged, hand, stream, received>>
          /\ at'[u] = "drained"
      BY <2>9, <2>t DEF StreamEnds, Goto, busVars, pumpVars
    <3> QED
      BY <2>k, <2>s, <3>1
  <2>10. ASSUME Abandon(u) PROVE TracedAt(u)'
    <3>1. /\ UNCHANGED <<events, since, cursor, latest, lagged, stream, received>>
          /\ DropStream(u) /\ at'[u] = "dropped"
      BY <2>10, <2>t DEF Abandon, DropStream, Goto, busVars
    <3> QED
      BY <2>k, <3>1, DropKeeps
  <2>11. ASSUME NEW t \in Turns, TurnStep(t) \/ Abandon(t) PROVE TracedAt(u)'
    <3>1. CASE u = t
      BY <2>11, <3>1, <2>4, <2>5, <2>6, <2>7, <2>8, <2>9, <2>10 DEF TurnStep
    <3>2. CASE u # t
      BY <2>11, <3>2, <2>o
    <3> QED
      BY <3>1, <3>2
  <2> QED
    BY <2>1, <2>2, <2>3, <2>11 DEF Next
<1> QED
  BY <1>1, <1>2, TypedInvariant, OrderedInvariant, PTL DEF Spec

\* UsageIsLatest: the usage a completed turn reports, for any traffic of updates.
THEOREM UsageIsTheLatest == Spec => []UsageIsLatest
<1>1. Traced => UsageIsLatest
  <2> SUFFICES ASSUME Traced, NEW t \in Turns, ~lagged[t], NEW j \in 1..Len(Sent(t)),
                      Sent(t)[j].kind = "completed"
               PROVE  Sent(t)[j].usage = Due(t, Sent(t)[j].pos)
    BY DEF UsageIsLatest, Due, LastUpdate, LatestOf, Updates
  <2>1. Sent(t)[j] # TurnStarted
    BY DEF TurnStarted
  <2> QED
    BY <2>1 DEF Traced, TracedAt, FromEvent
<1> QED
  BY <1>1, TracedInvariant, PTL

-----------------------------------------------------------------------------
(* What run() returns                                                      *)

\* Once run() returned Ok its stream is dropped, and what it took ends with the
\* completion of the turn and holds all the events of the turn up to that.
OkAt(t) ==
  result[t] = "ok" =>
    LET r == received[t]
        end == r[Len(r)].pos
    IN  /\ at[t] = "dropped"
        /\ end \in 1..Len(events)
        /\ events[end].kind = "completed" /\ events[end].turn = t
        /\ ~lagged[t] => \A k \in 1..end : About(t, k) => Holds(r, k)

Oks == \A t \in Turns : OkAt(t)

\* A step that takes nothing leaves the result of a call as complete as it was.
LEMMA SameOk ==
  ASSUME Typed, NEW t \in Turns, OkAt(t), result'[t] = result[t], received'[t] = received[t],
         at[t] = "dropped" => at'[t] = "dropped", lagged'[t] \/ ~lagged[t],
         Len(events) <= Len(events'), Len(events') \in Nat,
         \A k \in 1..Len(events) : events'[k] = events[k]
  PROVE  OkAt(t)'
<1> SUFFICES ASSUME result[t] = "ok"
             PROVE  OkAt(t)'
  BY DEF OkAt
<1>1. PICK r : r = received[t]
  OBVIOUS
<1>2. PICK end : end = r[Len(r)].pos
  OBVIOUS
<1>3. /\ at[t] = "dropped" /\ end \in 1..Len(events)
      /\ events[end].kind = "completed" /\ events[end].turn = t
      /\ ~lagged[t] => \A k \in 1..end : About(t, k) => Holds(r, k)
  BY <1>1, <1>2 DEF OkAt
<1>4. /\ at'[t] = "dropped" /\ end \in 1..Len(events')
      /\ events'[end].kind = "completed" /\ events'[end].turn = t
  BY <1>3
<1>5. Len(events) \in Nat /\ \A k \in 1..end : k \in 1..Len(events)
  BY <1>3 DEF Typed, TypeOK
<1>6. ASSUME ~lagged'[t], NEW k \in 1..end, About(t, k)' PROVE Holds(r, k)
  <2>1. events'[k] = events[k]
    BY <1>5
  <2>2. About(t, k)
    BY <1>6, <2>1 DEF About, Forwards, Matches
  <2> QED
    BY <1>3, <1>6, <2>2
<1>7. received'[t] = r
  BY <1>1
<1> QED
  BY <1>2, <1>4, <1>6, <1>7 DEF OkAt, Holds

\* run() returns Ok when it takes the completion of its turn, which closes what
\* was sent.
LEMMA OkIsTaken ==
  ASSUME Typed, Ordered, Complete, Traced, NEW t \in Turns, Consume(t),
         Head(stream[t]).kind = "completed", at'[t] = "dropped"
  PROVE  OkAt(t)'
<1>1. /\ ChannelsTyped /\ events \in Seq(Events) /\ Len(events) \in Nat
      /\ at[t] = "streaming" /\ stream[t] # <<>> /\ UNCHANGED <<events, cursor, lagged>>
      /\ cursor[t] \in Nat /\ cursor[t] <= Len(events) + 1
  BY StreamCapAssumption DEF Typed, TypeOK, Bounded, ChannelsTyped, Consume, busVars
<1>2. /\ received[t] \in Seq(Items) /\ stream[t] \in Seq(Items) /\ hand[t] \in Seq(Items)
      /\ Queue(t) \in Seq(Items) /\ Sent(t) \in Seq(Items) /\ Sent(t) = Queue(t) \o hand[t]
  BY <1>1, ChannelsFunctions, SentTyped
<1>3. PICK i \in Items : i = Head(stream[t]) /\ i = stream[t][1]
  <2>1. PICK s \in Seq(Items) : s = stream[t] /\ s # <<>>
    BY <1>1, <1>2
  <2>2. Head(s) \in Items /\ Head(s) = s[1]
    BY <2>1, HeadTailProperties
  <2> QED
    BY <2>1, <2>2
<1>4. PICK r \in Seq(Items) : r = Append(received[t], i) /\ r = Append(received[t], Head(stream[t]))
  <2>1. Append(received[t], i) \in Seq(Items)
    BY <1>2
  <2> QED
    BY <1>3, <2>1
<1>5. PICK m \in Nat, q \in Nat, c \in Nat, d \in Nat, n \in Nat :
        /\ m = Len(received[t]) /\ q = Len(stream[t]) /\ c = Len(Queue(t))
        /\ d = Len(hand[t]) /\ n = Len(r)
  BY <1>2, <1>4
<1>6. /\ n = m + 1 /\ r[n] = i /\ q > 0
      /\ \A j \in 1..m : r[j] = received[t][j]
  <2>1. Len(r) = Len(received[t]) + 1 /\ r[Len(received[t]) + 1] = Head(stream[t])
    BY <1>2, <1>4, <1>3, AppendProperties
  <2>2. \A j \in 1..Len(received[t]) : r[j] = received[t][j]
    BY <1>2, <1>4, <1>3, AppendProperties
  <2>3. q # 0
    BY <1>1, <1>2, <1>5, EmptySeq
  <2> QED
    BY <1>3, <1>5, <2>1, <2>2, <2>3
<1>7. n \in 1..(c + d) /\ Len(Sent(t)) = c + d /\ \A j \in 1..n : Sent(t)[j] = r[j]
  <2>0. /\ Len(Queue(t)) = Len(received[t]) + Len(stream[t])
        /\ \A j \in 1..Len(received[t]) : Queue(t)[j] = received[t][j]
        /\ \A j \in 1..Len(stream[t]) : Queue(t)[Len(received[t]) + j] = stream[t][j]
    BY <1>2, ConcatItems DEF Queue
  <2>1. /\ c = m + q
        /\ \A j \in 1..m : Queue(t)[j] = received[t][j]
        /\ \A j \in 1..q : Queue(t)[m + j] = stream[t][j]
    BY <1>5, <2>0
  <2>2. /\ Len(Sent(t)) = c + d
        /\ \A j \in 1..c : Sent(t)[j] = Queue(t)[j]
    BY <1>2, <1>5, ConcatItems
  <2>3. n <= c /\ Queue(t)[n] = i
    BY <1>3, <1>6, <2>1
  <2>4. ASSUME NEW j \in 1..n PROVE Queue(t)[j] = r[j]
    BY <1>6, <2>1, <2>3
  <2> QED
    BY <1>6, <2>2, <2>3, <2>4
<1>8. n = Len(Sent(t))
  <2>1. n \in 1..n /\ Sent(t)[n] = i /\ i.kind \in EndKinds
    BY <1>3, <1>6, <1>7 DEF EndKinds
  <2>2. n \in 1..Len(Sent(t)) /\ (n < Len(Sent(t)) => Sent(t)[n].kind \notin EndKinds)
    BY <1>7 DEF Ordered, OrderedAt, WellFormed
  <2> QED
    BY <1>7, <2>1, <2>2
<1>9. FromEvent(t, i)
  <2>1. Sent(t)[n] = i
    BY <1>5, <1>6, <1>7
  <2>2. i # TurnStarted
    BY <1>3 DEF TurnStarted
  <2> QED
    BY <1>7, <2>1, <2>2 DEF Traced, TracedAt
<1>10. PICK end \in 1..(cursor[t] - 1) : end = i.pos
  BY <1>9 DEF FromEvent
<1>11. end \in 1..Len(events) /\ events[end].kind = "completed" /\ events[end].turn = t
  BY <1>1, <1>3, <1>9, <1>10 DEF FromEvent, Forwards
<1>12. ASSUME ~lagged[t], NEW k \in 1..end, About(t, k) PROVE Holds(r, k)
  <2>1. Live(t) /\ k \in 1..(cursor[t] - 1)
    BY <1>1, <1>10 DEF Live
  <2>2. Holds(Sent(t), k)
    BY <1>12, <2>1 DEF Complete, KeptAt
  <2> QED
    BY <1>5, <1>7, <1>8, <2>2 DEF Holds
<1>13. received'[t] = r
  BY <1>1, <1>4 DEF Consume, ChannelsTyped
<1>14. \A k \in 1..end : About(t, k)' <=> About(t, k)
  BY <1>1 DEF About, Forwards, Matches
<1>15. r[Len(r)].pos = end
  BY <1>5, <1>6, <1>10
<1> QED
  BY <1>1, <1>11, <1>12, <1>13, <1>14, <1>15 DEF OkAt, Holds

\* What run() returned as Ok stays complete.
LEMMA OksInvariant == Spec => []Oks
<1>1. Init => Oks
  BY DEF Init, Oks, OkAt
<1>2. Typed /\ Ordered /\ Complete /\ Traced /\ Oks /\ [Next]_vars => Oks'
  <2> SUFFICES ASSUME Typed, Ordered, Complete, Traced, Oks, [Next]_vars, NEW u \in Turns
               PROVE  OkAt(u)'
    BY DEF Oks
  <2>t. /\ ChannelsTyped /\ events \in Seq(Events) /\ Len(events) \in Nat
        /\ at \in [Turns -> Points] /\ lagged \in [Turns -> BOOLEAN]
        /\ result \in [Turns -> {"none", "ok", "failed", "closed"}]
        /\ OkAt(u)
    BY DEF Typed, TypeOK, ChannelsTyped, Oks
  <2>e. /\ Len(events) <= Len(events') /\ Len(events') \in Nat
        /\ \A k \in 1..Len(events) : events'[k] = events[k]
    <3>1. events' = events \/ \E e \in Events : events' = Append(events, e)
      BY ClosedIsEvent, PublishedAssumption
      DEF Next, Publish, CloseTransport, Subscribe, StartAccepted, StartFails, TurnStep,
          SpawnPump, PumpLags, PumpReceives, PumpSends, Consume, StreamEnds, Abandon,
          vars, busVars
    <3>2. CASE events' = events
      BY <2>t, <3>2
    <3>3. ASSUME NEW e \in Events, events' = Append(events, e)
          PROVE  Len(events') = Len(events) + 1 /\ \A k \in 1..Len(events) : events'[k] = events[k]
      BY <2>t, <3>3, AppendProperties
    <3> QED
      BY <2>t, <3>1, <3>2, <3>3
  <2>k. ASSUME result'[u] = result[u], received'[u] = received[u],
               at[u] = "dropped" => at'[u] = "dropped", lagged'[u] \/ ~lagged[u]
        PROVE  OkAt(u)'
    BY <2>k, <2>t, <2>e, SameOk
  <2>1. ASSUME Publish \/ CloseTransport \/ UNCHANGED vars PROVE OkAt(u)'
    <3>1. UNCHANGED <<result, received, at, lagged>>
      BY <2>1 DEF Publish, CloseTransport, vars, pumpVars
    <3> QED
      BY <2>t, <2>k, <3>1
  <2>2. ASSUME NEW t \in Turns, Subscribe(t) \/ StartAccepted(t) \/ StartFails(t)
        PROVE  OkAt(u)'
    <3>1. UNCHANGED <<result, received, lagged>>
      BY <2>2 DEF Subscribe, StartAccepted, StartFails, pumpVars
    <3>2. at[u] = "dropped" => at'[u] = "dropped"
      BY <2>2, <2>t DEF Subscribe, StartAccepted, StartFails, Goto
    <3> QED
      BY <2>t, <2>k, <3>1, <3>2
  <2>3. ASSUME NEW t \in Turns, SpawnPump(t) \/ PumpLags(t) \/ PumpReceives(t) \/ PumpSends(t)
        PROVE  OkAt(u)'
    <3>1. UNCHANGED <<result, received>>
      BY <2>3 DEF SpawnPump, PumpLags, PumpReceives, PumpSends
    <3>2. at[u] = "dropped" => at'[u] = "dropped"
      BY <2>3, <2>t DEF SpawnPump, PumpLags, PumpReceives, PumpSends, Goto
    <3>3. lagged'[u] \/ ~lagged[u]
      BY <2>3, <2>t DEF SpawnPump, PumpLags, PumpReceives, PumpSends
    <3> QED
      BY <2>k, <3>1, <3>2, <3>3
  <2>4. ASSUME NEW t \in Turns, StreamEnds(t) \/ Abandon(t) PROVE OkAt(u)'
    <3>1. UNCHANGED <<received, lagged>> /\ at[t] = "streaming"
      BY <2>4 DEF StreamEnds, Abandon, pumpVars
    <3>2. /\ at[u] = "dropped" => at'[u] = "dropped"
          /\ result'[u] = result[u] \/ result'[u] = "closed"
      BY <2>4, <2>t, <3>1 DEF StreamEnds, Abandon, DropStream, Goto
    <3>3. CASE result'[u] = "closed"
      BY <3>3 DEF OkAt
    <3> QED
      BY <2>t, <2>k, <3>1, <3>2, <3>3
  <2>5. ASSUME NEW t \in Turns, Consume(t) PROVE OkAt(u)'
    <3>1. at[t] = "streaming" /\ UNCHANGED lagged
      BY <2>5 DEF Consume
    <3>2. CASE u # t
      <4>1. result'[u] = result[u] /\ received'[u] = received[u] /\ at'[u] = at[u]
        BY <2>5, <2>t, <3>2 DEF Consume, DropStream, Goto, ChannelsTyped
      <4> QED
        BY <2>t, <2>k, <3>1, <4>1
    <3>3. CASE u = t /\ result'[u] = "ok"
      <4>1. result[u] # "ok"
        BY <3>1, <3>3, <2>t DEF OkAt
      <4>2. /\ t \in Runs /\ RunResult(Head(stream[t])) # "none"
            /\ result' = [result EXCEPT ![t] = RunResult(Head(stream[t]))]
            /\ DropStream(t)
        BY <2>5, <3>3, <4>1 DEF Consume
      <4>3. RunResult(Head(stream[t])) = "ok"
        BY <2>t, <3>3, <4>2
      <4>4. Head(stream[t]).kind = "completed" /\ at'[t] = "dropped"
        BY <2>t, <4>2, <4>3 DEF RunResult, DropStream, Goto
      <4> QED
        BY <2>5, <3>3, <4>4, OkIsTaken
    <3>4. CASE result'[u] # "ok"
      BY <3>4 DEF OkAt
    <3> QED
      BY <3>2, <3>3, <3>4
  <2> QED
    BY <2>1, <2>2, <2>3, <2>4, <2>5 DEF Next, TurnStep
<1> QED
  BY <1>1, <1>2, TypedInvariant, OrderedInvariant, CompleteInvariant, TracedInvariant,
     PTL DEF Spec

\* RunOkIsComplete: what run() hands to its caller as a completed turn is the
\* whole turn, whatever else the server published.
THEOREM RunIsComplete == Spec => []RunOkIsComplete
<1>1. Typed /\ Oks => RunOkIsComplete
  <2> SUFFICES ASSUME Typed, Oks, NEW t \in Runs, result[t] = "ok", ~lagged[t]
               PROVE  LET end == received[t][Len(received[t])].pos
                      IN  /\ events[end].kind = "completed" /\ events[end].turn = t
                          /\ \A k \in 1..end :
                               events[k].kind = "itemCompleted" /\ events[k].turn = t
                                 /\ Matches(t, events[k]) => Holds(received[t], k)
    BY DEF RunOkIsComplete, Holds
  <2>1. t \in Turns
    BY TurnsAssumption
  <2> QED
    BY <2>1 DEF Oks, OkAt, About, Forwards
<1> QED
  BY <1>1, TypedInvariant, OksInvariant, PTL

-----------------------------------------------------------------------------
(* How a stream ends                                                       *)

EndsIn(s) == Len(s) > 0 /\ s[Len(s)].kind \in EndKinds

\* What is queued when a pump has ended closes with an end, and so does what was taken
\* from a stream that yielded None.
ClosedAt(t) == /\ at[t] = "streaming" /\ pump[t] = "ended" => EndsIn(Queue(t))
               /\ at[t] = "drained" => EndsIn(received[t])

Closed == \A t \in Turns : ClosedAt(t)

\* The item in hand is the last of the queue it joins.
LEMMA HandIsLast ==
  ASSUME Typed, NEW t \in Turns, pump[t] = "sending", Head(hand[t]).kind \in EndKinds
  PROVE  EndsIn(Sent(t))
<1>1. /\ ChannelsTyped /\ Queue(t) \in Seq(Items) /\ hand[t] \in Seq(Items)
      /\ Sent(t) = Queue(t) \o hand[t] /\ Len(hand[t]) = 1
  BY ChannelsFunctions, SentTyped DEF Typed, TypeOK, ChannelsTyped
<1>2. /\ Len(Sent(t)) = Len(Queue(t)) + 1 /\ Len(Queue(t)) \in Nat
      /\ Sent(t)[Len(Queue(t)) + 1] = hand[t][1]
  BY <1>1, ConcatItems
<1>3. Head(hand[t]) = hand[t][1]
  BY DEF Head
<1> QED
  BY <1>2, <1>3 DEF EndsIn

\* A pump ends, if its stream was not dropped, by sending an end.
LEMMA ClosedInvariant == Spec => []Closed
<1>1. Init => Closed
  BY DEF Init, Closed, ClosedAt
<1>2. Typed /\ Closed /\ [Next]_vars => Closed'
  <2> SUFFICES ASSUME Typed, Closed, [Next]_vars, NEW u \in Turns PROVE ClosedAt(u)'
    BY DEF Closed
  <2>t. /\ ChannelsTyped /\ PumpHasStream /\ ClosedAt(u)
        /\ at \in [Turns -> Points] /\ pump \in [Turns -> PumpStates]
    BY DEF Typed, TypeOK, ChannelsTyped, Closed, PumpStates
  <2>s. ASSUME at'[u] \in {"streaming", "drained"} => at'[u] = at[u],
               pump'[u] = pump[u], Queue(u)' = Queue(u), received'[u] = received[u]
        PROVE  ClosedAt(u)'
    BY <2>s, <2>t DEF ClosedAt, EndsIn
  <2>q. ASSUME UNCHANGED <<stream, received>>
        PROVE  Queue(u)' = Queue(u) /\ received'[u] = received[u]
    BY <2>q DEF Queue
  <2>1. ASSUME Publish \/ CloseTransport \/ UNCHANGED vars PROVE ClosedAt(u)'
    BY <2>1, <2>s, <2>q DEF Publish, CloseTransport, vars, pumpVars
  <2>2. ASSUME NEW t \in Turns, Subscribe(t) \/ StartAccepted(t) \/ StartFails(t)
        PROVE  ClosedAt(u)'
    <3>1. UNCHANGED <<pump, stream, received>>
      BY <2>2 DEF Subscribe, StartAccepted, StartFails, pumpVars
    <3>2. at'[u] \in {"streaming", "drained"} => at'[u] = at[u]
      BY <2>2, <2>t DEF Subscribe, StartAccepted, StartFails, Goto
    <3> QED
      BY <2>s, <2>q, <3>1, <3>2
  <2>3. ASSUME NEW t \in Turns, SpawnPump(t) PROVE ClosedAt(u)'
    <3>1. CASE u = t
      BY <2>3, <2>t, <3>1 DEF SpawnPump, Goto, ClosedAt
    <3>2. CASE u # t
      <4>1. /\ at'[u] = at[u] /\ pump'[u] = pump[u] /\ stream'[u] = stream[u]
            /\ received'[u] = received[u]
        BY <2>3, <2>t, <3>2 DEF SpawnPump, Goto, ChannelsTyped
      <4> QED
        BY <2>s, <4>1 DEF Queue
    <3> QED
      BY <3>1, <3>2
  <2>4. ASSUME NEW t \in Turns, PumpLags(t) \/ PumpReceives(t) PROVE ClosedAt(u)'
    <3>1. UNCHANGED <<at, stream, received>>
      BY <2>4 DEF PumpLags, PumpReceives
    <3>2. pump'[u] = pump[u] \/ pump'[u] = "sending"
      BY <2>4, <2>t DEF PumpLags, PumpReceives
    <3> QED
      BY <2>t, <2>q, <3>1, <3>2 DEF ClosedAt, EndsIn
  <2>5. ASSUME NEW t \in Turns, PumpSends(t) PROVE ClosedAt(u)'
    <3>0. UNCHANGED <<at, received>> /\ pump[t] = "sending"
      BY <2>5 DEF PumpSends
    <3>1. CASE u = t
      <4>1. Queue(t)' = Sent(t)
        BY <2>5, SendKeeps
      <4>2. pump'[t] = "ended" => Head(hand[t]).kind \in EndKinds
        BY <2>5, <2>t DEF PumpSends
      <4>3. pump'[t] = "ended" => EndsIn(Sent(t))
        BY <3>0, <4>2, HandIsLast
      <4> QED
        BY <2>t, <3>0, <3>1, <4>1, <4>3 DEF ClosedAt, EndsIn
    <3>2. CASE u # t
      <4>1. pump'[u] = pump[u] /\ stream'[u] = stream[u]
        BY <2>5, <2>t, <3>2 DEF PumpSends, ChannelsTyped
      <4> QED
        BY <2>s, <3>0, <4>1 DEF Queue
    <3> QED
      BY <3>1, <3>2
  <2>6. ASSUME NEW t \in Turns, Consume(t) PROVE ClosedAt(u)'
    <3>1. CASE u = t
      <4>1. Queue(t)' = Queue(t)
        BY <2>6, ConsumeKeeps
      <4>2. at[t] = "streaming"
        BY <2>6 DEF Consume
      <4>3. at'[t] = "dropped" \/ (at'[t] = at[t] /\ pump'[t] = pump[t])
        BY <2>6, <2>t DEF Consume, DropStream, Goto
      <4> QED
        BY <2>t, <3>1, <4>1, <4>2, <4>3 DEF ClosedAt, EndsIn
    <3>2. CASE u # t
      <4>1. /\ at'[u] = at[u] /\ pump'[u] = pump[u] /\ stream'[u] = stream[u]
            /\ received'[u] = received[u]
        BY <2>6, <2>t, <3>2 DEF Consume, DropStream, Goto, ChannelsTyped
      <4> QED
        BY <2>s, <4>1 DEF Queue
    <3> QED
      BY <3>1, <3>2
  <2>7. ASSUME NEW t \in Turns, StreamEnds(t) PROVE ClosedAt(u)'
    <3>0. UNCHANGED <<pump, stream, received>>
      BY <2>7 DEF StreamEnds, pumpVars
    <3>1. CASE u = t
      <4>1. at[t] = "streaming" /\ pump[t] = "ended" /\ stream[t] = <<>> /\ at'[t] = "drained"
        BY <2>7, <2>t DEF StreamEnds, Goto
      <4>2. received[t] \in Seq(Items)
        BY <2>t, ChannelsFunctions
      <4>3. Queue(t) = received[t]
        BY <4>1, <4>2, NothingAdded DEF Queue
      <4>4. EndsIn(received[t])
        BY <2>t, <3>1, <4>1, <4>3 DEF ClosedAt
      <4> QED
        BY <3>0, <3>1, <4>1, <4>4 DEF ClosedAt, EndsIn
    <3>2. CASE u # t
      <4>1. at'[u] = at[u]
        BY <2>7, <2>t, <3>2 DEF StreamEnds, Goto
      <4> QED
        BY <2>s, <2>q, <3>0, <4>1
    <3> QED
      BY <3>1, <3>2
  <2>8. ASSUME NEW t \in Turns, Abandon(t) PROVE ClosedAt(u)'
    <3>1. CASE u = t
      BY <2>8, <2>t, <3>1 DEF Abandon, DropStream, Goto, ClosedAt
    <3>2. CASE u # t
      <4>1. at'[u] = at[u] /\ pump'[u] = pump[u] /\ UNCHANGED <<stream, received>>
        BY <2>8, <2>t, <3>2 DEF Abandon, DropStream, Goto
      <4> QED
        BY <2>s, <2>q, <4>1
    <3> QED
      BY <3>1, <3>2
  <2> QED
    BY <2>1, <2>2, <2>3, <2>4, <2>5, <2>6, <2>7, <2>8 DEF Next, TurnStep
<1> QED
  BY <1>1, <1>2, TypedInvariant, PTL DEF Spec

\* The item a drained stream ended with is an event that ends it.
LEMMA EndIsEvent ==
  ASSUME Typed, Traced, Closed, NEW t \in Turns, at[t] = "drained"
  PROVE  \E k \in 1..Len(events) : /\ Forwards(t, events[k]) /\ events[k].kind \in EndKinds
                                   /\ received[t][Len(received[t])].pos = k
<1>1. /\ received[t] \in Seq(Items) /\ stream[t] \in Seq(Items) /\ hand[t] \in Seq(Items)
      /\ Queue(t) \in Seq(Items) /\ Sent(t) = Queue(t) \o hand[t]
  BY ChannelsFunctions, SentTyped DEF Typed, TypeOK, ChannelsTyped
<1>2. PICK n \in Nat : n = Len(received[t])
  BY <1>1
<1>3. n > 0 /\ received[t][n].kind \in EndKinds
  BY <1>2 DEF Closed, ClosedAt, EndsIn
<1>4. n \in 1..Len(Queue(t)) /\ Queue(t)[n] = received[t][n]
  <2>1. /\ Len(Queue(t)) = Len(received[t]) + Len(stream[t])
        /\ \A j \in 1..Len(received[t]) : Queue(t)[j] = received[t][j]
    BY <1>1, ConcatItems DEF Queue
  <2>2. PICK m \in Nat : m = Len(stream[t])
    BY <1>1
  <2>3. n \in 1..n
    BY <1>3
  <2>4. Queue(t)[n] = received[t][n]
    BY <1>2, <2>1, <2>3
  <2>5. Len(Queue(t)) = n + m
    BY <1>2, <2>1, <2>2
  <2>6. n \in 1..(n + m)
    BY <1>3
  <2> QED
    BY <2>4, <2>5, <2>6
<1>5. n \in 1..Len(Sent(t)) /\ Sent(t)[n] = received[t][n]
  <2>1. /\ Len(Sent(t)) = Len(Queue(t)) + Len(hand[t]) /\ Len(hand[t]) \in Nat
        /\ Len(Queue(t)) \in Nat /\ \A j \in 1..Len(Queue(t)) : Sent(t)[j] = Queue(t)[j]
    BY <1>1, ConcatItems
  <2> QED
    BY <1>4, <2>1
<1>6. PICK i : i = received[t][n]
  OBVIOUS
<1>7. FromEvent(t, i)
  <2>1. i # TurnStarted
    BY <1>3, <1>6 DEF TurnStarted, EndKinds
  <2> QED
    BY <1>5, <1>6, <2>1 DEF Traced, TracedAt
<1>8. /\ i.pos \in 1..(cursor[t] - 1) /\ i.kind = events[i.pos].kind
      /\ Forwards(t, events[i.pos])
  BY <1>7 DEF FromEvent
<1>9. cursor[t] \in Nat /\ cursor[t] <= Len(events) + 1 /\ Len(events) \in Nat
  BY StreamCapAssumption DEF Typed, TypeOK, Bounded
<1>10. i.pos \in 1..Len(events)
  BY <1>8, <1>9
<1> QED
  BY <1>2, <1>3, <1>6, <1>8, <1>10

\* NoSilentStream, whatever was published, dropped or skipped before: a stream that ends
\* without the end of its turn has yielded the loss of the transport.
THEOREM LossIsHeard == Spec => []NoSilentStream
<1>1. Typed /\ Heard /\ Traced /\ Closed => NoSilentStream
  BY EndIsEvent DEF Heard, NoSilentStream
<1> QED
  BY <1>1, TypedInvariant, HeardInvariant, TracedInvariant, ClosedInvariant, PTL
=============================================================================
