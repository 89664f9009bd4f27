-------------------------- MODULE Handshake_proofs --------------------------
(***************************************************************************)
(* What the handshake guarantees for every set of tasks and operations and *)
(* every number of calls.  The invariants are those of Handshake; the      *)
(* strengthenings that make them inductive are defined here.               *)
(***************************************************************************)
EXTENDS Handshake, SequenceTheorems, TLAPS

\* The operations that reach point p.
Reaching(p) ==
  CASE p \in {"fast", "lock", "mark", "rejected"} -> {"ensure_ready"}
    [] p \in {"check", "notified"}   -> {"ensure_ready", "initialized"}
    [] p \in {"await", "accepted"}   -> InitOps
    [] p \in {"gate", "send"}        -> InitOps \cup {"request"}
    [] p = "notify" -> {"ensure_ready", "initialized", "raw_initialized"}
    [] p = "idle"   -> AllOps

\* The point a task has reached fits the operation it runs.
AtOp == \A c \in Callers : /\ op[c] \in Reaching(at[c])
                           /\ at[c] # "idle" => op[c] \in Ops

Typed == TypeOK /\ AtOp

StateType == handshake_state \in HANDSHAKE_NEW..HANDSHAKE_READY
WireType  == wire \in Seq(Messages)
InitsType == inits \in Seq(Initialize)

\* A function on 1..n is a sequence.
LEMMA FunctionIsSeq ==
  ASSUME NEW S, NEW n \in Nat, NEW f \in [1..n -> S]
  PROVE  f \in Seq(S)
BY SeqDef

\* Whatever becomes of the requests for initialize, inits stays typed.
LEMMA InitsTyped ==
  ASSUME InitsType, NEW c \in Callers,
         \/ inits' = Append(inits, [answer |-> "none", waiter |-> c])
         \/ Leave(c)
         \/ \E k \in DOMAIN inits, m \in Initialize : inits' = [inits EXCEPT ![k] = m]
  PROVE  InitsType'
<1>1. inits \in [1..Len(inits) -> Initialize] /\ Len(inits) \in Nat
      /\ DOMAIN inits = 1..Len(inits)
  BY DEF InitsType
<1>2. CASE inits' = Append(inits, [answer |-> "none", waiter |-> c])
  BY <1>2 DEF InitsType, Initialize
<1>3. CASE Leave(c)
  <2>1. inits' \in [1..Len(inits) -> Initialize]
    BY <1>1, <1>3 DEF Leave, Initialize
  <2>2. inits' \in Seq(Initialize)
    BY <1>1, <2>1, FunctionIsSeq
  <2> QED
    BY <2>2 DEF InitsType
<1>4. ASSUME NEW k \in DOMAIN inits, NEW m \in Initialize,
             inits' = [inits EXCEPT ![k] = m]
      PROVE  InitsType'
  <2>1. inits' \in [1..Len(inits) -> Initialize]
    BY <1>1, <1>4
  <2>2. inits' \in Seq(Initialize)
    BY <1>1, <2>1, FunctionIsSeq
  <2> QED
    BY <2>2 DEF InitsType
<1> QED
  BY <1>2, <1>3, <1>4

\* A task that returns leaves a typed state.
LEMMA ReturnTyped ==
  ASSUME Typed, StateType', WireType', InitsType', NEW c \in Callers, NEW r \in Results,
         Return(c, r)
  PROVE  Typed'
BY DEF Typed, TypeOK, AtOp, Reaching, Return, Goto, StateType, WireType, InitsType,
       AllOps, InitOps, Points

\* A task that goes on at a point of its operation leaves a typed state.
LEMMA ContinueTyped ==
  ASSUME Typed, StateType', WireType', InitsType', NEW c \in Callers, NEW p \in Points,
         op[c] \in Reaching(p), at[c] # "idle", Continue(c, p)
  PROVE  Typed'
<1>1. TypeOK'
  BY DEF Typed, TypeOK, Continue, Goto, StateType, WireType, InitsType
<1>2. AtOp'
  BY DEF Typed, TypeOK, AtOp, Continue, Goto
<1> QED
  BY <1>1, <1>2 DEF Typed

\* Every value a task takes is one of its type: handshake_state is one of the
\* four HANDSHAKE_ states, and the point a task has reached fits its operation.
LEMMA TypedInvariant == Spec => []Typed
<1> USE NobodyAssumption, OpsAssumption, MaxCallsAssumption
<1>1. Init => Typed
  BY DEF Init, Typed, TypeOK, AtOp, Reaching, AllOps, InitOps, Results, Points,
     HANDSHAKE_NEW, HANDSHAKE_READY
<1>2. Typed /\ [Next]_vars => Typed'
  <2> SUFFICES ASSUME Typed, [Next]_vars PROVE Typed'
    OBVIOUS
  <2>s. StateType /\ WireType /\ InitsType
    BY DEF Typed, TypeOK, StateType, WireType, InitsType
  <2>1. ASSUME NEW c \in Callers, Begin(c) PROVE Typed'
    <3>1. PICK o \in Ops : op' = [op EXCEPT ![c] = o] /\ Goto(c, EntryPoint(o))
      BY <2>1 DEF Begin
    <3>2. EntryPoint(o) \in Points /\ o \in Reaching(EntryPoint(o))
      BY DEF EntryPoint, Points, Reaching, AllOps, InitOps
    <3>3. TypeOK'
      BY <2>1, <3>1, <3>2 DEF Begin, Typed, TypeOK, Goto, Results
    <3>4. AtOp'
      BY <2>1, <3>1, <3>2 DEF Begin, Typed, TypeOK, AtOp, Goto
    <3> QED
      BY <3>3, <3>4 DEF Typed
  <2>m. ASSUME NEW c \in Callers, StateType', WireType', InitsType',
               \/ \E r \in Results : Return(c, r)
               \/ \E p \in Points : /\ op[c] \in Reaching(p)
                                    /\ at[c] # "idle"
                                    /\ Continue(c, p)
        PROVE  Typed'
    BY <2>m, ReturnTyped, ContinueTyped
  <2>t. ASSUME NEW c \in Callers 
        PROVE  at[c] \in Points /\ op[c] \in Reaching(at[c])
    BY DEF Typed, TypeOK, AtOp
  <2> USE <2>s, <2>t DEF StateType, WireType, InitsType, Results, Points, Reaching
  <2>2. ASSUME NEW c \in Callers, FastPath(c) PROVE Typed'
    BY <2>m, <2>2 DEF FastPath
  <2>3. ASSUME NEW c \in Callers, Acquire(c) PROVE Typed'
    <3>1. CASE handshake_state = HANDSHAKE_READY
      BY <2>m, <2>3, <3>1 DEF Acquire
    <3>2. CASE handshake_state # HANDSHAKE_READY
      BY <2>3, <3>2 DEF Acquire, Typed, TypeOK, AtOp, Goto
    <3> QED
      BY <3>1, <3>2
  <2>4. ASSUME NEW c \in Callers, CheckInitialized(c) PROVE Typed'
    <3>1. StateType' /\ WireType' /\ InitsType'
      BY <2>4 DEF CheckInitialized
    <3>2. CASE Continue(c, "mark")
      BY <2>m, <2>4, <3>1, <3>2 DEF CheckInitialized, InitOps
    <3>3. CASE Continue(c, "notify")
      BY <2>m, <2>4, <3>1, <3>3 DEF CheckInitialized, InitOps
    <3> QED
      BY <2>4, <3>1, <3>2, <3>3 DEF CheckInitialized
  <2>5. ASSUME NEW c \in Callers, MarkInitializing(c) PROVE Typed'
    BY <2>m, <2>5 DEF MarkInitializing, InitOps, HANDSHAKE_NEW,
           HANDSHAKE_INITIALIZING, HANDSHAKE_READY
  <2>6. ASSUME NEW c \in Callers, InitializeOk(c) PROVE Typed'
    <3>1. StateType' /\ WireType' /\ InitsType'
      BY <2>6 DEF InitializeOk, HANDSHAKE_NEW,
             HANDSHAKE_INITIALIZED, HANDSHAKE_READY
    <3>2. CASE Continue(c, "notify") /\ op[c] = "ensure_ready"
      BY <2>m, <2>6, <3>1, <3>2 DEF InitializeOk, InitOps
    <3>3. CASE Return(c, "ok")
      BY <2>m, <2>6, <3>1, <3>3 DEF InitializeOk, InitOps
    <3> QED
      BY <2>6, <3>1, <3>2, <3>3 DEF InitializeOk
  <2>7. ASSUME NEW c \in Callers, InitializeErr(c) PROVE Typed'
    BY <2>m, <2>7 DEF InitializeErr, HANDSHAKE_NEW, HANDSHAKE_READY
  <2>8. ASSUME NEW c \in Callers, Gate(c) PROVE Typed'
    <3>1. StateType' /\ WireType' /\ InitsType'
      BY <2>8 DEF Gate, Ready
    <3>2. CASE Continue(c, "send")
      BY <2>m, <2>8, <3>1, <3>2 DEF Gate, Ready, InitOps
    <3>3. CASE Continue(c, "rejected")
      BY <2>m, <2>8, <3>1, <3>3 DEF Gate, Ready, InitOps
    <3>4. CASE Return(c, "AlreadyInitialized")
      BY <2>m, <2>8, <3>1, <3>4 DEF Gate, Ready, InitOps
    <3>5. CASE Return(c, "NotReady")
      BY <2>m, <2>8, <3>1, <3>5 DEF Gate, Ready, InitOps
    <3> QED
      BY <2>8, <3>1, <3>2, <3>3, <3>4, <3>5 DEF Gate, Ready
  <2>9. ASSUME NEW c \in Callers, Send(c) PROVE Typed'
    <3>1. StateType' /\ WireType' /\ InitsType'
      <4>1. StateType' /\ WireType'
        <5>1. \E m \in Messages : wire' = Append(wire, m)
          BY <2>9 DEF Send, Messages
        <5> QED
          BY <2>9, <5>1 DEF Send
      <4>2. \/ UNCHANGED inits
            \/ inits' = Append(inits, [answer |-> "none", waiter |-> c])
        BY <2>9 DEF Send
      <4> QED
        BY <4>1, <4>2, InitsTyped
    <3>2. CASE Continue(c, "await")
      BY <2>m, <2>9, <3>1, <3>2 DEF Send, InitOps
    <3>3. CASE Return(c, "ok")
      BY <2>m, <2>9, <3>1, <3>3 DEF Send, InitOps
    <3> QED
      BY <2>9, <3>1, <3>2, <3>3 DEF Send
  <2>10. ASSUME NEW c \in Callers, CheckNotification(c) PROVE Typed'
    BY <2>m, <2>10 DEF CheckNotification
  <2>11. ASSUME NEW c \in Callers, Notify(c) PROVE Typed'
    <3>1. StateType' /\ WireType' /\ InitsType'
      <4>1. UNCHANGED wire \/ \E m \in Messages : wire' = Append(wire, m)
        BY <2>11 DEF Notify, Messages
      <4> QED
        BY <2>11, <4>1 DEF Notify
    <3>2. CASE Continue(c, "notified")
      BY <2>m, <2>11, <3>1, <3>2 DEF Notify, InitOps
    <3>3. CASE Return(c, "ok")
      BY <2>m, <2>11, <3>1, <3>3 DEF Notify, InitOps
    <3>4. CASE Return(c, "failed")
      BY <2>m, <2>11, <3>1, <3>4 DEF Notify, InitOps
    <3> QED
      BY <2>11, <3>1, <3>2, <3>3, <3>4 DEF Notify
  <2>12. ASSUME NEW c \in Callers, MarkReady(c) PROVE Typed'
    BY <2>m, <2>12 DEF MarkReady, HANDSHAKE_NEW, HANDSHAKE_READY
  <2>13. ASSUME NEW c \in Callers, Answer(c) PROVE Typed'
    <3>1. InitsType'
      <4>1. [answer |-> "received", waiter |-> Nobody] \in Initialize
        BY DEF Initialize
      <4> QED
        BY <2>13, <4>1, InitsTyped DEF Answer
    <3> QED
      BY <2>m, <2>13, <3>1 DEF Answer
  <2>14. ASSUME NEW c \in Callers, Refuse(c) PROVE Typed'
    <3>1. InitsType'
      <4>1. [answer |-> "refused", waiter |-> Nobody] \in Initialize
        BY DEF Initialize
      <4> QED
        BY <2>14, <4>1, InitsTyped DEF Refuse
    <3> QED
      BY <2>m, <2>14, <3>1 DEF Refuse, Errs, InitOps
  <2>15. ASSUME NEW c \in Callers, Fail(c) PROVE Typed'
    <3>1. InitsType'
      BY <2>15, InitsTyped DEF Fail
    <3> QED
      BY <2>m, <2>15, <3>1 DEF Fail, Errs, InitOps
  <2>16. ASSUME NEW c \in Callers, Cancel(c) PROVE Typed'
    <3>1. InitsType'
      BY <2>16, InitsTyped DEF Cancel
    <3> QED
      BY <2>m, <2>16, <3>1 DEF Cancel
  <2>17. ASSUME NEW k \in DOMAIN inits, ServerAccepts(k) PROVE Typed'
    <3>1. inits \in [1..Len(inits) -> Initialize] /\ Len(inits) \in Nat
      OBVIOUS
    <3>2. inits' \in [1..Len(inits) -> Initialize]
      BY <2>17, <3>1 DEF ServerAccepts, Initialize
    <3>3. InitsType'
      BY <3>1, <3>2, FunctionIsSeq
    <3> QED
      BY <2>17, <3>3 DEF ServerAccepts, Typed, TypeOK, AtOp
  <2>18. CASE UNCHANGED vars
    BY <2>18 DEF vars, Typed, TypeOK, AtOp
  <2> QED
    BY <2>1, <2>2, <2>3, <2>4, <2>5, <2>6, <2>7, <2>8, <2>9, <2>10, <2>11,
       <2>12, <2>13, <2>14, <2>15, <2>16, <2>17, <2>18 DEF Next, Step
<1> QED
  BY <1>1, <1>2, PTL DEF Spec

\* handshake_state takes no other value than the four HANDSHAKE_ constants, and
\* the mutex is held by a task or free, whatever operations race.
THEOREM TypeCorrect == Spec => []TypeOK
BY TypedInvariant, PTL DEF Typed

-----------------------------------------------------------------------------
(***************************************************************************)
(* The mutex.                                                              *)
(***************************************************************************)

\* Returning drops the guard of a task inside the section, and no other.
LEMMA ReturnUnlocks ==
  ASSUME Typed, LockHeldInSection, NEW c \in Callers, NEW r, Return(c, r)
  PROVE  LockHeldInSection'
BY NobodyAssumption
   DEF Typed, TypeOK, LockHeldInSection, InSection, Guarded, Return, Goto

\* Going on inside the section, or outside it, leaves the mutex alone.
LEMMA ContinueKeepsLock ==
  ASSUME Typed, LockHeldInSection, NEW c \in Callers, NEW p, Continue(c, p),
         op[c] = "ensure_ready" => (at[c] \in Guarded <=> p \in Guarded)
  PROVE  LockHeldInSection'
BY DEF Typed, TypeOK, LockHeldInSection, InSection, Continue, Goto

\* The mutex is held exactly by the task inside ensure_ready's critical section,
\* so that two tasks are never inside it.
THEOREM LockInvariant == Spec => []LockHeldInSection
<1>1. Init => LockHeldInSection
  <2> SUFFICES ASSUME Init, NEW c \in Callers
               PROVE  handshake_lock = c <=> InSection(c)
    BY DEF LockHeldInSection
  <2>1. handshake_lock # c
    BY NobodyAssumption DEF Init
  <2>2. ~InSection(c)
    BY DEF Init, InSection
  <2> QED
    BY <2>1, <2>2
<1>2. Typed /\ LockHeldInSection /\ [Next]_vars => LockHeldInSection'
  <2> SUFFICES ASSUME Typed, LockHeldInSection, [Next]_vars
               PROVE  LockHeldInSection'
    OBVIOUS
  <2>t. ASSUME NEW c \in Callers PROVE op[c] \in Reaching(at[c])
    BY DEF Typed, AtOp
  <2>1. ASSUME NEW c \in Callers, Begin(c) PROVE LockHeldInSection'
    BY <2>1 DEF Begin, Goto, EntryPoint, Typed, TypeOK, LockHeldInSection,
                InSection, Guarded
  <2> USE ReturnUnlocks, ContinueKeepsLock, <2>t DEF Guarded, Reaching
  <2>2. ASSUME NEW c \in Callers, FastPath(c) PROVE LockHeldInSection'
    BY <2>2 DEF FastPath
  <2>3. ASSUME NEW c \in Callers, Acquire(c) PROVE LockHeldInSection'
    <3>1. CASE handshake_state = HANDSHAKE_READY
      BY <2>3, <3>1 DEF Acquire
    <3>2. CASE handshake_state # HANDSHAKE_READY
      BY <2>3, <3>2, NobodyAssumption
         DEF Acquire, Goto, Typed, TypeOK, LockHeldInSection, InSection
    <3> QED
      BY <3>1, <3>2
  <2>4. ASSUME NEW c \in Callers, CheckInitialized(c) PROVE LockHeldInSection'
    BY <2>4 DEF CheckInitialized
  <2>5. ASSUME NEW c \in Callers, MarkInitializing(c) PROVE LockHeldInSection'
    BY <2>5 DEF MarkInitializing
  <2>6. ASSUME NEW c \in Callers, InitializeOk(c) PROVE LockHeldInSection'
    BY <2>6 DEF InitializeOk
  <2>7. ASSUME NEW c \in Callers, InitializeErr(c) PROVE LockHeldInSection'
    BY <2>7 DEF InitializeErr
  <2>8. ASSUME NEW c \in Callers, Gate(c) PROVE LockHeldInSection'
    BY <2>8 DEF Gate, Ready
  <2>9. ASSUME NEW c \in Callers, Send(c) PROVE LockHeldInSection'
    BY <2>9 DEF Send
  <2>10. ASSUME NEW c \in Callers, CheckNotification(c)
         PROVE  LockHeldInSection'
    BY <2>10 DEF CheckNotification
  <2>11. ASSUME NEW c \in Callers, Notify(c) PROVE LockHeldInSection'
    BY <2>11 DEF Notify
  <2>12. ASSUME NEW c \in Callers, MarkReady(c) PROVE LockHeldInSection'
    BY <2>12 DEF MarkReady
  <2>13. ASSUME NEW c \in Callers, Answer(c) PROVE LockHeldInSection'
    BY <2>13 DEF Answer
  <2>14. ASSUME NEW c \in Callers, Refuse(c) PROVE LockHeldInSection'
    BY <2>14 DEF Refuse, Errs
  <2>15. ASSUME NEW c \in Callers, Fail(c) PROVE LockHeldInSection'
    BY <2>15 DEF Fail, Errs
  <2>16. ASSUME NEW c \in Callers, Cancel(c) PROVE LockHeldInSection'
    BY <2>16 DEF Cancel
  <2>17. ASSUME NEW k \in DOMAIN inits, ServerAccepts(k) PROVE LockHeldInSection'
    BY <2>17 DEF ServerAccepts, LockHeldInSection, InSection
  <2>18. CASE UNCHANGED vars
    BY <2>18 DEF vars, LockHeldInSection, InSection
  <2> QED
    BY <2>1, <2>2, <2>3, <2>4, <2>5, <2>6, <2>7, <2>8, <2>9, <2>10, <2>11,
       <2>12, <2>13, <2>14, <2>15, <2>16, <2>17, <2>18 DEF Next, Step
<1> QED
  BY <1>1, <1>2, TypedInvariant, PTL DEF Spec

-----------------------------------------------------------------------------
(***************************************************************************)
(* The order on the wire.                                                  *)
(***************************************************************************)
InitializeSent == \E i \in 1..Len(wire) : wire[i] = "initialize"
HandshakeSent  == HandshakeIn(wire, Len(wire))

\* What a task knows, from the point it has reached, of the messages queued.
WireInv ==
  /\ handshake_state >= HANDSHAKE_INITIALIZED => InitializeSent
  /\ handshake_state = HANDSHAKE_READY => HandshakeSent
  /\ \A c \in Callers :
       /\ at[c] \in {"await", "accepted"} => InitializeSent
       /\ at[c] = "notify" /\ op[c] # "raw_initialized" => InitializeSent
       /\ at[c] = "notified" => HandshakeSent
       /\ at[c] = "send" /\ op[c] = "request" => HandshakeSent
  /\ RequestsFollowHandshake

\* What was queued stays queued, and each message adds what it says.
LEMMA WireGrows ==
  ASSUME WireType, NEW m \in Messages, wire' = Append(wire, m),
         RequestsFollowHandshake, m = "request" => HandshakeSent
  PROVE  /\ RequestsFollowHandshake'
         /\ InitializeSent => InitializeSent'
         /\ HandshakeSent => HandshakeSent'
         /\ m = "initialize" => InitializeSent'
         /\ m = "initialized" /\ InitializeSent => HandshakeSent'
<1>1. /\ Len(wire') = Len(wire) + 1 /\ Len(wire) \in Nat
      /\ \A i \in 1..Len(wire) : wire'[i] = wire[i]
      /\ wire'[Len(wire) + 1] = m
  BY DEF WireType
<1>2. ASSUME NEW k \in 0..Len(wire), HandshakeIn(wire, k)
      PROVE  HandshakeIn(wire', k)
  BY <1>1, <1>2 DEF HandshakeIn
<1>3. RequestsFollowHandshake'
  <2> SUFFICES ASSUME NEW k \in 1..Len(wire'), wire'[k] = "request"
               PROVE  HandshakeIn(wire', k - 1)
    BY DEF RequestsFollowHandshake
  <2>1. CASE k \in 1..Len(wire)
    BY <1>1, <1>2, <2>1 DEF RequestsFollowHandshake
  <2>2. CASE k = Len(wire) + 1
    BY <1>1, <1>2, <2>2 DEF HandshakeSent
  <2> QED
    BY <1>1, <2>1, <2>2
<1>4. InitializeSent => InitializeSent'
  BY <1>1 DEF InitializeSent
<1>5. HandshakeSent => HandshakeSent'
  BY <1>1 DEF HandshakeSent, HandshakeIn
<1>6. m = "initialize" => InitializeSent'
  BY <1>1 DEF InitializeSent
<1>7. m = "initialized" /\ InitializeSent => HandshakeSent'
  <2> SUFFICES ASSUME m = "initialized", NEW i \in 1..Len(wire),
                      wire[i] = "initialize"
               PROVE  HandshakeSent'
    BY DEF InitializeSent
  <2>1. i \in 1..Len(wire') /\ Len(wire) + 1 \in 1..Len(wire')
        /\ i < Len(wire) + 1
    BY <1>1
  <2> QED
    BY <1>1, <2>1 DEF HandshakeSent, HandshakeIn
<1> QED
  BY <1>3, <1>4, <1>5, <1>6, <1>7

\* Whatever operations race, explicit and raw ones included, no ordinary
\* request is queued before an initialize and then an initialized were.
THEOREM HandshakeFirst == Spec => []RequestsFollowHandshake
<1>1. Init => WireInv
  BY DEF Init, WireInv, RequestsFollowHandshake, HANDSHAKE_NEW,
         HANDSHAKE_INITIALIZED, HANDSHAKE_READY
<1>2. Typed /\ WireInv /\ [Next]_vars => WireInv'
  <2> SUFFICES ASSUME Typed, WireInv, [Next]_vars
               PROVE  WireInv'
    OBVIOUS
  <2>t. ASSUME NEW c \in Callers PROVE op[c] \in Reaching(at[c])
    BY DEF Typed, AtOp
  <2>u. ASSUME UNCHANGED wire
        PROVE  /\ RequestsFollowHandshake'
               /\ InitializeSent' = InitializeSent
               /\ HandshakeSent' = HandshakeSent
    BY <2>u DEF WireInv, RequestsFollowHandshake, InitializeSent, HandshakeSent
  <2>g. ASSUME NEW m \in Messages, wire' = Append(wire, m),
               m = "request" => HandshakeSent
        PROVE  /\ RequestsFollowHandshake'
               /\ InitializeSent => InitializeSent'
               /\ HandshakeSent => HandshakeSent'
               /\ m = "initialize" => InitializeSent'
               /\ m = "initialized" /\ InitializeSent => HandshakeSent'
    BY <2>g, WireGrows DEF Typed, TypeOK, WireType, WireInv
  <2> USE <2>t DEF WireInv, Typed, TypeOK, Reaching, Return, Continue, Goto,
                   HANDSHAKE_NEW, HANDSHAKE_INITIALIZING, HANDSHAKE_INITIALIZED,
                   HANDSHAKE_READY
  <2>1. ASSUME NEW c \in Callers, Begin(c) PROVE WireInv'
    BY <2>1, <2>u DEF Begin, Goto, EntryPoint
  <2>2. ASSUME NEW c \in Callers, FastPath(c) PROVE WireInv'
    BY <2>2, <2>u DEF FastPath
  <2>3. ASSUME NEW c \in Callers, Acquire(c) PROVE WireInv'
    BY <2>3, <2>u DEF Acquire
  <2>4. ASSUME NEW c \in Callers, CheckInitialized(c) PROVE WireInv'
    BY <2>4, <2>u DEF CheckInitialized
  <2>5. ASSUME NEW c \in Callers, MarkInitializing(c) PROVE WireInv'
    BY <2>5, <2>u DEF MarkInitializing
  <2>6. ASSUME NEW c \in Callers, InitializeOk(c) PROVE WireInv'
    BY <2>6, <2>u DEF InitializeOk
  <2>7. ASSUME NEW c \in Callers, InitializeErr(c) PROVE WireInv'
    BY <2>7, <2>u DEF InitializeErr
  <2>8. ASSUME NEW c \in Callers, Gate(c) PROVE WireInv'
    BY <2>8, <2>u DEF Gate, Ready, InitOps
  <2>9. ASSUME NEW c \in Callers, Send(c) PROVE WireInv'
    <3>1. CASE op[c] \in InitOps
      <4>1. wire' = Append(wire, "initialize") /\ Continue(c, "await")
        BY <2>9, <3>1 DEF Send, InitOps
      <4> QED
        BY <2>9, <4>1, <2>g DEF Send, Messages
    <3>2. CASE op[c] = "request"
      <4>1. wire' = Append(wire, "request") /\ Return(c, "ok")
        BY <2>9, <3>2 DEF Send, InitOps
      <4> QED
        BY <2>9, <3>2, <4>1, <2>g DEF Send, Messages
    <3> QED
      BY <2>9, <3>1, <3>2 DEF Send
  <2>10. ASSUME NEW c \in Callers, CheckNotification(c) PROVE WireInv'
    BY <2>10, <2>u DEF CheckNotification
  <2>11. ASSUME NEW c \in Callers, Notify(c) PROVE WireInv'
    <3>1. CASE UNCHANGED wire
      BY <2>11, <3>1, <2>u DEF Notify
    <3>2. CASE wire' = Append(wire, "initialized")
      BY <2>11, <3>2, <2>g DEF Notify, Messages
    <3> QED
      BY <2>11, <3>1, <3>2 DEF Notify
  <2>12. ASSUME NEW c \in Callers, MarkReady(c) PROVE WireInv'
    <3>1. InitializeSent
      BY <2>12 DEF MarkReady, HandshakeSent, HandshakeIn, InitializeSent
    <3> QED
      BY <2>12, <2>u, <3>1 DEF MarkReady
  <2>13. ASSUME NEW c \in Callers, Answer(c) PROVE WireInv'
    BY <2>13, <2>u DEF Answer
  <2>14. ASSUME NEW c \in Callers, Refuse(c) PROVE WireInv'
    BY <2>14, <2>u DEF Refuse, Errs
  <2>15. ASSUME NEW c \in Callers, Fail(c) PROVE WireInv'
    BY <2>15, <2>u DEF Fail, Errs
  <2>16. ASSUME NEW c \in Callers, Cancel(c) PROVE WireInv'
    BY <2>16, <2>u DEF Cancel
  <2>17. ASSUME NEW k \in DOMAIN inits, ServerAccepts(k) PROVE WireInv'
    BY <2>17, <2>u DEF ServerAccepts
  <2>18. CASE UNCHANGED vars
    BY <2>18, <2>u DEF vars
  <2> QED
    BY <2>1, <2>2, <2>3, <2>4, <2>5, <2>6, <2>7, <2>8, <2>9, <2>10, <2>11,
       <2>12, <2>13, <2>14, <2>15, <2>16, <2>17, <2>18 DEF Next, Step
<1>3. WireInv => RequestsFollowHandshake
  BY DEF WireInv
<1> QED
  BY <1>1, <1>2, <1>3, TypedInvariant, PTL DEF Spec

-----------------------------------------------------------------------------
(***************************************************************************)
(* Tasks that leave initialize to ensure_ready.                            *)
(***************************************************************************)
ManagedOnly == "initialize" \notin Ops /\ "raw_initialize" \notin Ops

\* What a task inside the section knows of handshake_state.
ManagedInv ==
  /\ \A c \in Callers :
       /\ at[c] = "mark" => handshake_state < HANDSHAKE_INITIALIZED
       /\ at[c] \in {"gate", "send", "await", "accepted"} /\ op[c] # "request"
            => handshake_state = HANDSHAKE_INITIALIZING
       /\ at[c] = "rejected" => handshake_state = HANDSHAKE_INITIALIZING
       /\ at[c] \in {"notify", "notified"} /\ op[c] # "raw_initialized"
            => handshake_state >= HANDSHAKE_INITIALIZED
  /\ OkMeansReady

Advance == Monotone /\ (handshake_state = HANDSHAKE_READY
                          => handshake_state' = HANDSHAKE_READY)

\* A new client satisfies the invariant of the managed handshake.
LEMMA ManagedInit == Init => ManagedInv
BY DEF Init, ManagedInv, OkMeansReady

\* When all tasks use ensure_ready, every step keeps that invariant and advances
\* handshake_state, or is the reset of a failed initialize.
LEMMA ManagedStep ==
  ASSUME ManagedOnly, Typed, LockHeldInSection, ManagedInv, [Next]_vars
  PROVE  ManagedInv' /\ Advance
<1>t. ASSUME NEW c \in Callers
      PROVE  /\ op[c] \in Reaching(at[c])
             /\ at[c] # "idle" => op[c] # "initialize" /\ op[c] # "raw_initialize"
  BY DEF Typed, AtOp, ManagedOnly
<1>l. ASSUME NEW c \in Callers, NEW d \in Callers,
             InSection(c), InSection(d)
      PROVE  c = d
  BY <1>l DEF LockHeldInSection
<1> USE <1>t, <1>l DEF Typed, TypeOK, ManagedInv, OkMeansReady, Advance,
      Monotone, Reaching, InitOps, InSection, Guarded, Return, Continue, Goto,
      HANDSHAKE_NEW, HANDSHAKE_INITIALIZING, HANDSHAKE_INITIALIZED,
      HANDSHAKE_READY
<1>1. ASSUME NEW c \in Callers, Begin(c) PROVE ManagedInv' /\ Advance
  <2>1. PICK o \in Ops : op' = [op EXCEPT ![c] = o] /\ Goto(c, EntryPoint(o))
    BY <1>1 DEF Begin
  <2>2. /\ EntryPoint(o) \in {"fast", "check", "notify", "gate"}
        /\ EntryPoint(o) = "notify" => o = "raw_initialized"
        /\ EntryPoint(o) = "gate" => o = "request"
    BY OpsAssumption DEF EntryPoint, AllOps, ManagedOnly
  <2> QED
    BY <1>1, <2>1, <2>2 DEF Begin
<1>2. ASSUME NEW c \in Callers, FastPath(c) PROVE ManagedInv' /\ Advance
  BY <1>2 DEF FastPath
<1>3. ASSUME NEW c \in Callers, Acquire(c) PROVE ManagedInv' /\ Advance
  BY <1>3 DEF Acquire
<1>4. ASSUME NEW c \in Callers, CheckInitialized(c) PROVE ManagedInv' /\ Advance
  BY <1>4 DEF CheckInitialized
<1>5. ASSUME NEW c \in Callers, MarkInitializing(c) PROVE ManagedInv' /\ Advance
  BY <1>5 DEF MarkInitializing
<1>6. ASSUME NEW c \in Callers, InitializeOk(c) PROVE ManagedInv' /\ Advance
  BY <1>6 DEF InitializeOk
<1>7. ASSUME NEW c \in Callers, InitializeErr(c) PROVE ManagedInv' /\ Advance
  BY <1>7 DEF InitializeErr
<1>8. ASSUME NEW c \in Callers, Gate(c) PROVE ManagedInv' /\ Advance
  BY <1>8 DEF Gate, Ready
<1>9. ASSUME NEW c \in Callers, Send(c) PROVE ManagedInv' /\ Advance
  BY <1>9 DEF Send
<1>10. ASSUME NEW c \in Callers, CheckNotification(c) PROVE ManagedInv' /\ Advance
  BY <1>10 DEF CheckNotification
<1>11. ASSUME NEW c \in Callers, Notify(c) PROVE ManagedInv' /\ Advance
  BY <1>11 DEF Notify
<1>12. ASSUME NEW c \in Callers, MarkReady(c) PROVE ManagedInv' /\ Advance
  <2>1. handshake_state >= HANDSHAKE_INITIALIZED /\ at[c] = "notified"
    BY <1>12 DEF MarkReady
  <2>2. ManagedInv'
    BY <1>12, <2>1 DEF MarkReady
  <2>3. Advance
    BY <1>12, <2>1 DEF MarkReady
  <2> QED
    BY <2>2, <2>3
<1>13. ASSUME NEW c \in Callers, Answer(c) PROVE ManagedInv' /\ Advance
  BY <1>13 DEF Answer
<1>14. ASSUME NEW c \in Callers, Refuse(c) PROVE ManagedInv' /\ Advance
  BY <1>14 DEF Refuse, Errs
<1>15. ASSUME NEW c \in Callers, Fail(c) PROVE ManagedInv' /\ Advance
  BY <1>15 DEF Fail, Errs
<1>16. ASSUME NEW c \in Callers, Cancel(c) PROVE ManagedInv' /\ Advance
  BY <1>16 DEF Cancel
<1>17. ASSUME NEW k \in DOMAIN inits, ServerAccepts(k) PROVE ManagedInv' /\ Advance
  BY <1>17 DEF ServerAccepts
<1>18. CASE UNCHANGED vars
  BY <1>18 DEF vars
<1> QED
  BY <1>1, <1>2, <1>3, <1>4, <1>5, <1>6, <1>7, <1>8, <1>9, <1>10, <1>11,
     <1>12, <1>13, <1>14, <1>15, <1>16, <1>17, <1>18 DEF Next, Step

\* The invariant and the advance hold of every behavior.
LEMMA ManagedSafety ==
  ASSUME ManagedOnly
  PROVE  /\ Spec => [](Typed /\ LockHeldInSection /\ ManagedInv)
         /\ Spec => [][Advance]_vars
<1>1. Typed /\ LockHeldInSection /\ ManagedInv /\ [Next]_vars => ManagedInv'
  BY ManagedStep
<1>2. Typed /\ LockHeldInSection /\ ManagedInv /\ [Next]_vars => [Advance]_vars
  BY ManagedStep
<1>3. Spec => [](Typed /\ LockHeldInSection /\ ManagedInv)
  BY <1>1, ManagedInit, TypedInvariant, LockInvariant, PTL DEF Spec
<1>4. Spec => [][Advance]_vars
  BY <1>2, <1>3, PTL DEF Spec
<1> QED
  BY <1>3, <1>4

\* When no task calls initialize itself, handshake_state only advances, but for
\* the reset after an initialize that failed.
THEOREM ManagedMonotone == ASSUME ManagedOnly PROVE Spec => MonotoneState
<1>1. [Advance]_vars => [Monotone]_vars
  BY DEF Advance
<1> QED
  BY <1>1, ManagedSafety, PTL DEF MonotoneState

\* ... and a connection that became ready stays ready.
THEOREM ManagedReadyStays == ASSUME ManagedOnly PROVE Spec => ReadyStays
<1>1. [Advance]_vars => [handshake_state = HANDSHAKE_READY
                           => handshake_state' = HANDSHAKE_READY]_vars
  BY DEF Advance
<1> QED
  BY <1>1, ManagedSafety, PTL DEF ReadyStays

\* ... so that a task whose ensure_ready succeeded finds it ready.
THEOREM ManagedOkMeansReady == ASSUME ManagedOnly PROVE Spec => []OkMeansReady
<1>1. ManagedInv => OkMeansReady
  BY DEF ManagedInv
<1> QED
  BY <1>1, ManagedSafety, PTL

-----------------------------------------------------------------------------
(***************************************************************************)
(* The requests for initialize that such tasks queue.                      *)
(***************************************************************************)

\* Only the request queued last is waited for, by a task that awaits it, or was
\* accepted for all that its caller knows, and then handshake_state says so or is
\* about to.
InitsInv ==
  \A k \in DOMAIN inits :
    /\ inits[k].waiter # Nobody => k = Len(inits) /\ at[inits[k].waiter] = "await"
    /\ inits[k].answer = "received" =>
         /\ k = Len(inits)
         /\ \/ handshake_state >= HANDSHAKE_INITIALIZED
            \/ \E c \in Callers : at[c] = "accepted"

\* A task that stops waiting for its request leaves every other as it was.
LEMMA LeaveInits ==
  ASSUME InitsType, InitsInv, NEW c \in Callers, Leave(c), at[c] # "accepted",
         UNCHANGED handshake_state,
         \A d \in Callers : d # c => at'[d] = at[d]
  PROVE  InitsInv'
<1>1. DOMAIN inits' = DOMAIN inits /\ Len(inits') = Len(inits)
  BY DEF Leave, InitsType
<1>2. ASSUME NEW k \in DOMAIN inits
      PROVE  /\ inits'[k].answer = inits[k].answer
             /\ \/ inits'[k].waiter = Nobody
                \/ inits'[k].waiter = inits[k].waiter /\ inits[k].waiter # c
             /\ inits[k].waiter \in Callers \cup {Nobody}
  <2>1. inits[k] \in Initialize
    BY DEF InitsType
  <2> QED
    BY <2>1 DEF Leave, Initialize
<1> QED
  BY <1>1, <1>2 DEF InitsInv

\* When all tasks use ensure_ready, every step keeps that.
LEMMA InitsStep ==
  ASSUME ManagedOnly, Typed, LockHeldInSection, ManagedInv, InitsInv, [Next]_vars
  PROVE  InitsInv'
<1>t. ASSUME NEW c \in Callers
      PROVE  /\ op[c] \in Reaching(at[c])
             /\ at[c] # "idle" => op[c] # "initialize" /\ op[c] # "raw_initialize"
  BY DEF Typed, AtOp, ManagedOnly
<1>l. ASSUME NEW c \in Callers, NEW d \in Callers, op[c] = "ensure_ready",
             at[c] = "send", at[d] \in {"await", "accepted"}
      PROVE  FALSE
  <2>1. InSection(c) /\ InSection(d)
    BY <1>l, <1>t DEF InSection, Guarded, Reaching, InitOps
  <2> QED
    BY <1>l, <2>1 DEF LockHeldInSection
<1>i. InitsType /\ at \in [Callers -> Points]
      /\ handshake_state \in HANDSHAKE_NEW..HANDSHAKE_READY
  BY DEF Typed, TypeOK, InitsType
<1>k. ASSUME NEW k \in DOMAIN inits PROVE inits[k] \in Initialize
  BY <1>i, <1>k DEF InitsType
<1>u. ASSUME UNCHANGED inits, NEW c \in Callers, at[c] # "await",
             \A d \in Callers : d # c => at'[d] = at[d],
             \/ UNCHANGED handshake_state /\ at[c] # "accepted"
             \/ handshake_state' >= HANDSHAKE_INITIALIZED
             \/ handshake_state < HANDSHAKE_INITIALIZED /\ at[c] # "accepted"
      PROVE  InitsInv'
  <2> SUFFICES ASSUME NEW k \in DOMAIN inits
               PROVE  /\ inits[k].waiter # Nobody
                           => k = Len(inits) /\ at'[inits[k].waiter] = "await"
                      /\ inits[k].answer = "received" =>
                           /\ k = Len(inits)
                           /\ \/ handshake_state' >= HANDSHAKE_INITIALIZED
                              \/ \E d \in Callers : at'[d] = "accepted"
    BY <1>u DEF InitsInv
  <2>1. inits[k].waiter \in Callers \cup {Nobody}
    BY <1>k DEF Initialize
  <2>2. ASSUME inits[k].waiter # Nobody
        PROVE  k = Len(inits) /\ at'[inits[k].waiter] = "await"
    BY <1>u, <2>1, <2>2 DEF InitsInv
  <2>3. ASSUME inits[k].answer = "received"
        PROVE  /\ k = Len(inits)
               /\ \/ handshake_state' >= HANDSHAKE_INITIALIZED
                  \/ \E d \in Callers : at'[d] = "accepted"
    <3>1. /\ k = Len(inits)
          /\ \/ handshake_state >= HANDSHAKE_INITIALIZED
             \/ \E d \in Callers : at[d] = "accepted"
      BY <2>3 DEF InitsInv
    <3>2. CASE handshake_state' >= HANDSHAKE_INITIALIZED
      BY <3>1, <3>2
    <3>3. CASE UNCHANGED handshake_state /\ at[c] # "accepted"
      BY <1>u, <3>1, <3>3
    <3>4. CASE handshake_state < HANDSHAKE_INITIALIZED /\ at[c] # "accepted"
      <4>1. ~(handshake_state >= HANDSHAKE_INITIALIZED)
        BY <1>i, <3>4 DEF HANDSHAKE_INITIALIZED, HANDSHAKE_NEW, HANDSHAKE_READY
      <4> QED
        BY <1>u, <3>1, <3>4, <4>1
    <3> QED
      BY <1>u, <3>2, <3>3, <3>4
  <2> QED
    BY <2>2, <2>3
<1>a. ASSUME NEW c \in Callers, NEW a \in {"received", "refused"},
              NEW k \in DOMAIN inits, inits[k].waiter = c,
              inits' = [inits EXCEPT ![k] = [answer |-> a, waiter |-> Nobody]],
              a = "received" => at'[c] = "accepted", at[c] # "accepted",
              UNCHANGED handshake_state,
              \A d \in Callers : d # c => at'[d] = at[d]
       PROVE  InitsInv'
  <2>1. /\ DOMAIN inits' = DOMAIN inits /\ Len(inits') = Len(inits)
        /\ \A i \in DOMAIN inits : i # k => inits'[i] = inits[i]
        /\ inits'[k] = [answer |-> a, waiter |-> Nobody]
    BY <1>a DEF InitsType
  <2>2. k = Len(inits)
    BY <1>a, NobodyAssumption DEF InitsInv
  <2> QED
    BY <1>a, <2>1, <2>2 DEF InitsInv
<1>b. ASSUME NEW c \in Callers, Answer(c) PROVE InitsInv'
  <2>1. PICK k \in DOMAIN inits :
          /\ inits[k] = [answer |-> "accepted", waiter |-> c]
          /\ inits' = [inits EXCEPT ![k] = [answer |-> "received", waiter |-> Nobody]]
    BY <1>b, Zenon DEF Answer
  <2>3. inits[k].waiter = c
    BY <2>1
  <2>2. /\ at[c] = "await" /\ UNCHANGED handshake_state
        /\ \A d \in Callers : d # c => at'[d] = at[d]
        /\ at'[c] = "accepted"
    BY <1>b, <1>i DEF Answer, Continue, Goto
  <2> QED
    BY <1>a, <2>1, <2>2, <2>3
<1>c. ASSUME NEW c \in Callers, Refuse(c) PROVE InitsInv'
  <2>1. PICK k \in DOMAIN inits :
          /\ inits[k] = [answer |-> "none", waiter |-> c]
          /\ inits' = [inits EXCEPT ![k] = [answer |-> "refused", waiter |-> Nobody]]
    BY <1>c, Zenon DEF Refuse
  <2>3. inits[k].waiter = c
    BY <2>1
  <2>2. /\ at[c] = "await" /\ UNCHANGED handshake_state
        /\ \A d \in Callers : d # c => at'[d] = at[d]
    BY <1>c, <1>i DEF Refuse, Errs, Continue, Return, Goto
  <2> QED
    BY <1>a, <2>1, <2>2, <2>3
<1> USE <1>i, <1>t, <1>u DEF Reaching, Return, Continue, Goto
<1>1. ASSUME NEW c \in Callers, Begin(c) PROVE InitsInv'
  BY <1>1 DEF Begin
<1>2. ASSUME NEW c \in Callers, FastPath(c) PROVE InitsInv'
  BY <1>2 DEF FastPath
<1>3. ASSUME NEW c \in Callers, Acquire(c) PROVE InitsInv'
  BY <1>3 DEF Acquire
<1>4. ASSUME NEW c \in Callers, CheckInitialized(c) PROVE InitsInv'
  BY <1>4 DEF CheckInitialized
<1>5. ASSUME NEW c \in Callers, MarkInitializing(c) PROVE InitsInv'
  BY <1>5 DEF MarkInitializing, ManagedInv
<1>6. ASSUME NEW c \in Callers, InitializeOk(c) PROVE InitsInv'
  <2>1. op[c] = "ensure_ready"
    BY <1>6 DEF InitializeOk, InitOps
  <2> QED
    BY <1>6, <2>1 DEF InitializeOk, HANDSHAKE_INITIALIZED
<1>7. ASSUME NEW c \in Callers, InitializeErr(c) PROVE InitsInv'
  BY <1>7 DEF InitializeErr, ManagedInv, HANDSHAKE_INITIALIZING,
              HANDSHAKE_INITIALIZED
<1>8. ASSUME NEW c \in Callers, Gate(c) PROVE InitsInv'
  BY <1>8 DEF Gate, Ready
<1>9. ASSUME NEW c \in Callers, Send(c) PROVE InitsInv'
  <2>1. CASE UNCHANGED inits
    BY <1>9, <2>1 DEF Send
  <2>2. CASE op[c] \in InitOps
    <3>1. op[c] = "ensure_ready" /\ at[c] = "send"
      BY <1>9, <2>2 DEF Send, InitOps
    <3>2. handshake_state < HANDSHAKE_INITIALIZED
      BY <3>1 DEF ManagedInv, HANDSHAKE_INITIALIZING, HANDSHAKE_INITIALIZED
    <3>3. ASSUME NEW k \in DOMAIN inits
          PROVE  inits[k].waiter = Nobody /\ inits[k].answer # "received"
      BY <1>k, <1>l, <3>1, <3>2 DEF InitsInv, Initialize, HANDSHAKE_NEW,
         HANDSHAKE_INITIALIZED, HANDSHAKE_READY
    <3>4. /\ inits' = Append(inits, [answer |-> "none", waiter |-> c])
          /\ at'[c] = "await"
      BY <1>9, <2>2, <3>1 DEF Send
    <3>5. /\ Len(inits) \in Nat /\ DOMAIN inits = 1..Len(inits)
          /\ Len(inits') = Len(inits) + 1 /\ DOMAIN inits' = 1..Len(inits')
          /\ \A k \in DOMAIN inits : inits'[k] = inits[k]
          /\ inits'[Len(inits')] = [answer |-> "none", waiter |-> c]
      BY <3>4 DEF InitsType
    <3>6. ASSUME NEW k \in DOMAIN inits', k \notin DOMAIN inits
          PROVE  k = Len(inits')
      BY <3>5, <3>6
    <3>7. /\ inits'[Len(inits')].waiter = c
          /\ inits'[Len(inits')].answer = "none"
      BY <3>5
    <3> QED
      BY <3>3, <3>4, <3>5, <3>6, <3>7 DEF InitsInv
  <2> QED
    BY <1>9, <2>1, <2>2 DEF Send
<1>10. ASSUME NEW c \in Callers, CheckNotification(c) PROVE InitsInv'
  BY <1>10 DEF CheckNotification
<1>11. ASSUME NEW c \in Callers, Notify(c) PROVE InitsInv'
  BY <1>11 DEF Notify
<1>12. ASSUME NEW c \in Callers, MarkReady(c) PROVE InitsInv'
  BY <1>12 DEF MarkReady, HANDSHAKE_READY, HANDSHAKE_INITIALIZED
<1>13. ASSUME NEW c \in Callers, Fail(c) PROVE InitsInv'
  BY <1>13, LeaveInits DEF Fail, Errs
<1>14. ASSUME NEW c \in Callers, Cancel(c) PROVE InitsInv'
  BY <1>14, LeaveInits DEF Cancel
<1>15. ASSUME NEW k \in DOMAIN inits, ServerAccepts(k) PROVE InitsInv'
  <2>1. /\ DOMAIN inits' = DOMAIN inits /\ Len(inits') = Len(inits)
        /\ \A i \in DOMAIN inits : inits'[i].waiter = inits[i].waiter
        /\ \A i \in DOMAIN inits :
             inits'[i].answer = "received" => inits[i].answer = "received"
    BY <1>k, <1>15 DEF ServerAccepts, InitsType, Initialize
  <2> QED
    BY <1>15, <2>1 DEF ServerAccepts, InitsInv
<1>16. CASE UNCHANGED vars
  BY <1>16 DEF vars, InitsInv
<1> QED
  BY <1>1, <1>2, <1>3, <1>4, <1>5, <1>6, <1>7, <1>8, <1>9, <1>10, <1>11,
     <1>12, <1>b, <1>c, <1>13, <1>14, <1>15, <1>16 DEF Next, Step

\* ... and another initialize is queued only when nobody waits for an earlier one
\* any more and no task was told that one was accepted.
THEOREM ManagedSingleInitialize ==
  ASSUME ManagedOnly PROVE Spec => []SingleInitialize
<1>1. Init => InitsInv
  BY DEF Init, InitsInv
<1>2. Typed /\ LockHeldInSection /\ ManagedInv /\ InitsInv /\ [Next]_vars
        => InitsInv'
  BY InitsStep
<1>3. Typed /\ InitsInv => SingleInitialize
  <2> SUFFICES ASSUME Typed, InitsInv, NEW k \in 1..(Len(inits) - 1)
               PROVE  /\ inits[k].waiter = Nobody
                      /\ inits[k].answer # "received"
    BY DEF SingleInitialize
  <2>1. k \in DOMAIN inits /\ k # Len(inits)
    BY DEF Typed, TypeOK
  <2> QED
    BY <2>1 DEF InitsInv
<1> QED
  BY <1>1, <1>2, <1>3, ManagedSafety, PTL DEF Spec
=============================================================================
