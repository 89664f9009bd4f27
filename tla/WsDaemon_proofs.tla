--------------------------- MODULE WsDaemon_proofs ---------------------------
(***************************************************************************)
(* What starting and stopping app servers guarantees for every set of      *)
(* processes and calls, every target and every number of attempts.         *)
(***************************************************************************)
EXTENDS WsDaemon, TLAPS

BeforeSpawn == {"idle", "probing", "locking", "reprobing", "spawning"}

\* A call spawns at most one server: until its task has run there is none.
Unspawned == \A s \in Starts : /\ at[s] \in BeforeSpawn \/ s \in job
                                    => serving[s] = "none" /\ leader[s] = "none"
                               /\ s \in job => at[s] \in {"spawned", "cancelled"}

\* A call that uses the startup lock has a target, and with it a key.
Aimed == \A s \in Starts : at[s] \in Locked \cup {"probing", "locking"}
                             => TargetOf(call[s]).kind = "target"

\* The second wait of shutdown() starts to count again.
Counted == \A s \in Starts : /\ at[s] = "stopping" => polls[s] <= Attempts
                             /\ at[s] = "closing" => polls[s] < Attempts

Typed == TypeOK /\ Unspawned /\ Aimed /\ Counted

\* The lock of a start that has a target is one of the locks there are.
LEMMA LockKey ==
  ASSUME NEW s \in Starts, call \in [Starts -> Calls], TargetOf(call[s]).kind = "target"
  PROVE  LockOf(s) \in Processes \X Keys
<1>1. call[s] \in Calls /\ call[s].process \in Processes
  BY CallsAssumption
<1>2. TargetOf(call[s]).lockKey \in Keys
  BY <1>1 DEF Keys
<1> QED
  BY <1>1, <1>2 DEF LockOf

\* A start that neither fails nor only connects has a target.
LEMMA TargetKinds ==
  ASSUME NEW c, TargetOf(c).kind \notin {"config error", "connect only"}
  PROVE  TargetOf(c).kind = "target"
BY DEF TargetOf, ManagedTarget, BuiltTarget, StartTarget, ConfigError, ConnectOnly

LockType == lock \in [Processes \X Keys -> Starts \cup {NoStart}]

\* Releasing a lock leaves the locks typed.
LEMMA UnlockTyped ==
  ASSUME Typed, NEW s \in Starts, Unlock(s)
  PROVE  LockType'
BY DEF Unlock, Typed, TypeOK, LockType

\* Every value takes one of its type, at the points where it is used.
LEMMA TypedInvariant == Spec => []Typed
<1> USE BoundAssumption, NoStartAssumption
<1>1. Init => Typed
  BY DEF Init, Typed, TypeOK, Unspawned, Aimed, Counted, Points, BeforeSpawn, Locked
<1>2. Typed /\ [Next]_vars => Typed'
  <2> SUFFICES ASSUME Typed, [Next]_vars PROVE Typed'
    OBVIOUS
  <2> USE DEF Typed, TypeOK, Unspawned, Aimed, Counted, Points, BeforeSpawn, Locked,
              Goto, serverVars, callVars
  <2>1. ASSUME NEW s \in Starts, Begin(s) PROVE Typed'
    <3>1. PICK p \in {"failed", "returned", "probing"} :
            /\ at' = [at EXCEPT ![s] = p]
            /\ p = "probing" => TargetOf(call[s]).kind = "target"
      BY <2>1, TargetKinds DEF Begin
    <3>2. at[s] = "idle" /\ UNCHANGED <<call, lock, polls, job, handle, serverVars>>
      BY <2>1 DEF Begin
    <3> QED
      BY <3>1, <3>2
  <2>2. ASSUME NEW s \in Starts, ProbeExisting(s) PROVE Typed'
    BY <2>2, UnlockTyped DEF ProbeExisting, ReturnHandle, Return, LockType
  <2>3. ASSUME NEW s \in Starts, Acquire(s) PROVE Typed'
    BY <2>3, LockKey DEF Acquire
  <2>4. ASSUME NEW s \in Starts, SpawnDaemon(s) PROVE Typed'
    BY <2>4 DEF SpawnDaemon
  <2>5. ASSUME NEW s \in Starts, JobSpawns(s) PROVE Typed'
    BY <2>5 DEF JobSpawns, Boot
  <2>6. ASSUME NEW s \in Starts, JobFails(s) PROVE Typed'
    BY <2>6, UnlockTyped DEF JobFails, Return, LockType
  <2>7. ASSUME NEW s \in Starts, SpawnOwned(s) PROVE Typed'
    <3>1. CASE Boot(s) /\ Goto(s, "waiting") /\ UNCHANGED <<lock, handle>>
      BY <2>7, <3>1 DEF SpawnOwned, Boot
    <3>2. CASE Return(s, "failed") /\ UNCHANGED <<leader, serving>>
      BY <2>7, <3>2, UnlockTyped DEF SpawnOwned, Return, LockType
    <3> QED
      BY <2>7, <3>1, <3>2 DEF SpawnOwned
  <2>8. ASSUME NEW s \in Starts, CheckChild(s) PROVE Typed'
    BY <2>8, UnlockTyped DEF CheckChild, Return, LockType
  <2>9. ASSUME NEW s \in Starts, ProbeReady(s) PROVE Typed'
    BY <2>9, UnlockTyped DEF ProbeReady, ReturnHandle, Return, LockType
  <2>10. ASSUME NEW s \in Starts, ShutdownShared(s) \/ ShutdownInterrupted(s) PROVE Typed'
    BY <2>10 DEF ShutdownShared, ShutdownInterrupted, EndShutdown
  <2>11. ASSUME NEW s \in Starts, ShutdownOwned(s) PROVE Typed'
    BY <2>11 DEF ShutdownOwned
  <2>12. ASSUME NEW s \in Starts, ShutdownPolls(s) PROVE Typed'
    BY <2>12 DEF ShutdownPolls, EndShutdown, Reap
  <2>13. ASSUME NEW s \in Starts, ShutdownKills(s) PROVE Typed'
    BY <2>13 DEF ShutdownKills
  <2>14. ASSUME NEW s \in Starts, ShutdownConfirms(s) PROVE Typed'
    BY <2>14 DEF ShutdownConfirms, EndShutdown
  <2>15. ASSUME NEW s \in Starts, DropHandle(s) PROVE Typed'
    BY <2>15 DEF DropHandle, Reap
  <2>16. ASSUME NEW s \in Starts, Cancel(s) PROVE Typed'
    BY <2>16, UnlockTyped DEF Cancel, LockType, Awaits
  <2>17. ASSUME NEW p \in Processes, ProcessDies(p) PROVE Typed'
    BY <2>17 DEF ProcessDies
  <2>18. ASSUME NEW s \in Starts, ServerStep(s) PROVE Typed'
    <3>1. CASE Binds(s)
      BY <3>1 DEF Binds
    <3>2. CASE ServerEnds(s)
      BY <3>2 DEF ServerEnds
    <3>3. CASE LeaderExits(s)
      BY <3>3 DEF LeaderExits
    <3> QED
      BY <2>18, <3>1, <3>2, <3>3 DEF ServerStep
  <2>19. ASSUME OtherListenerEnds \/ LogFills \/ UNCHANGED vars PROVE Typed'
    BY <2>19 DEF OtherListenerEnds, LogFills, vars
  <2> QED
    BY <2>1, <2>2, <2>3, <2>4, <2>5, <2>6, <2>7, <2>8, <2>9, <2>10, <2>11, <2>12, <2>13,
       <2>14, <2>15, <2>16, <2>17, <2>18, <2>19 DEF Next, CallStep
<1> QED
  BY <1>1, <1>2, PTL DEF Spec

\* TypeOK holds for every instance: the port has one listener at a time.
THEOREM TypeCorrect == Spec => []TypeOK
BY TypedInvariant, PTL DEF Typed

-----------------------------------------------------------------------------
(* One start of a target at a time                                         *)

\* A call in the startup section holds the lock of its target.
LocksHeld == \A s \in Starts : at[s] \in Locked => lock[LockOf(s)] = s

\* A start at or past its lock has one.
LEMMA LockKeys ==
  ASSUME Typed, NEW s \in Starts, at[s] \in Locked \cup {"locking"}
  PROVE  LockOf(s) \in DOMAIN lock
BY LockKey DEF Typed, TypeOK, Aimed

\* What a start locks never changes.
LEMMA SameLock == ASSUME UNCHANGED call PROVE \A s \in Starts : LockOf(s)' = LockOf(s)
BY DEF LockOf

\* A call that leaves the section takes no one else's lock.
LEMMA UnlockKeeps ==
  ASSUME Typed, LocksHeld, NEW s \in Starts, Unlock(s), UNCHANGED call,
         NEW u \in Starts, u # s, at[u] \in Locked
  PROVE  lock'[LockOf(u)'] = u
<1>1. LockOf(u)' = LockOf(u) /\ lock[LockOf(u)] = u
  BY SameLock DEF LocksHeld
<1>2. CASE at[s] \in Locked
  <2>1. lock[LockOf(s)] = s
    BY <1>2 DEF LocksHeld
  <2>2. LockOf(s) # LockOf(u)
    BY <1>1, <2>1
  <2> QED
    BY <1>1, <1>2, <2>2, LockKeys DEF Unlock
<1>3. CASE at[s] \notin Locked
  BY <1>1, <1>3 DEF Unlock
<1> QED
  BY <1>2, <1>3

\* Every start in the startup section holds its lock.
LEMMA LockInvariant == Spec => []LocksHeld
<1> USE BoundAssumption, NoStartAssumption
<1>1. Init => LocksHeld
  BY DEF Init, LocksHeld, Locked
<1>2. Typed /\ LocksHeld /\ [Next]_vars => LocksHeld'
  <2> SUFFICES ASSUME Typed, LocksHeld, [Next]_vars PROVE LocksHeld'
    OBVIOUS
  <2>t. at \in [Starts -> Points]
    BY DEF Typed, TypeOK
  <2>u. ASSUME UNCHANGED <<call, lock>>,
               \A u \in Starts : at'[u] \in Locked => at[u] \in Locked
        PROVE  LocksHeld'
    BY <2>u, SameLock DEF LocksHeld
  <2>r. ASSUME NEW s \in Starts, NEW p \in Points \ Locked, Goto(s, p), Unlock(s),
               UNCHANGED call
        PROVE  LocksHeld'
    <3> SUFFICES ASSUME NEW u \in Starts, at'[u] \in Locked PROVE lock'[LockOf(u)'] = u
      BY DEF LocksHeld
    <3>1. u # s /\ at[u] \in Locked
      BY <2>r, <2>t DEF Goto
    <3> QED
      BY <2>r, <3>1, UnlockKeeps
  <2>1. ASSUME NEW s \in Starts, ProbeExisting(s) PROVE LocksHeld'
    <3>0. call' = call /\ at[s] \in {"probing", "reprobing"}
      BY <2>1 DEF ProbeExisting
    <3>1. CASE \E p \in {"failed", "held", "returned"} : Goto(s, p) /\ Unlock(s)
      BY <2>r, <3>0, <3>1 DEF Points, Locked
    <3>2. CASE /\ Goto(s, IF at[s] = "probing" THEN "locking" ELSE "spawning")
               /\ UNCHANGED lock
      BY <2>u, <2>t, <3>0, <3>2 DEF Goto, Locked
    <3> QED
      BY <2>1, <3>1, <3>2 DEF ProbeExisting, ReturnHandle, Return
  <2>2. ASSUME NEW s \in Starts, Acquire(s) PROVE LocksHeld'
    <3> SUFFICES ASSUME NEW u \in Starts, at'[u] \in Locked PROVE lock'[LockOf(u)'] = u
      BY DEF LocksHeld
    <3>1. LockOf(u)' = LockOf(u) /\ LockOf(s) \in DOMAIN lock
      BY <2>2, SameLock, LockKeys DEF Acquire
    <3>2. CASE u = s
      BY <2>2, <3>1, <3>2 DEF Acquire
    <3>3. CASE u # s
      <4>1. at[u] \in Locked /\ lock[LockOf(u)] = u
        BY <2>2, <2>t, <3>3 DEF Acquire, Goto, LocksHeld
      <4>2. LockOf(u) # LockOf(s)
        BY <2>2, <4>1 DEF Acquire
      <4> QED
        BY <2>2, <3>1, <4>1, <4>2 DEF Acquire
    <3> QED
      BY <3>2, <3>3
  <2>3. ASSUME NEW s \in Starts, JobFails(s) PROVE LocksHeld'
    <3>1. CASE at[s] = "spawned"
      BY <2>3, <2>r, <3>1 DEF JobFails, Return, Points, Locked
    <3>2. CASE at[s] # "spawned"
      BY <2>3, <2>u, <3>2 DEF JobFails
    <3> QED
      BY <3>1, <3>2
  <2>4. ASSUME NEW s \in Starts, SpawnOwned(s) PROVE LocksHeld'
    <3>1. CASE Return(s, "failed")
      BY <2>4, <2>r, <3>1 DEF SpawnOwned, Return, Points, Locked
    <3>2. CASE Goto(s, "waiting") /\ UNCHANGED lock
      BY <2>4, <2>u, <2>t, <3>2 DEF SpawnOwned, Goto, Locked
    <3> QED
      BY <2>4, <3>1, <3>2 DEF SpawnOwned
  <2>5. ASSUME NEW s \in Starts, CheckChild(s) PROVE LocksHeld'
    <3>1. CASE Return(s, "failed")
      BY <2>5, <2>r, <3>1 DEF CheckChild, Return, Points, Locked
    <3>2. CASE Goto(s, "readying") /\ UNCHANGED lock
      BY <2>5, <2>u, <2>t, <3>2 DEF CheckChild, Goto, Locked
    <3> QED
      BY <2>5, <3>1, <3>2 DEF CheckChild
  <2>6. ASSUME NEW s \in Starts, ProbeReady(s) PROVE LocksHeld'
    <3>1. CASE \E p \in {"failed", "held", "returned"} : Goto(s, p) /\ Unlock(s)
      BY <2>6, <2>r, <3>1 DEF ProbeReady, Points, Locked
    <3>2. CASE Goto(s, "waiting") /\ UNCHANGED lock
      BY <2>6, <2>u, <2>t, <3>2 DEF ProbeReady, Goto, Locked
    <3> QED
      BY <2>6, <3>1, <3>2 DEF ProbeReady, ReturnHandle, Return
  <2>7. ASSUME NEW s \in Starts, Cancel(s) PROVE LocksHeld'
    BY <2>7, <2>r DEF Cancel, Points, Locked
  <2>8. ASSUME NEW p \in Processes, ProcessDies(p) PROVE LocksHeld'
    <3> SUFFICES ASSUME NEW u \in Starts, at'[u] \in Locked PROVE lock'[LockOf(u)'] = u
      BY DEF LocksHeld
    <3>1. call[u].process # p /\ at[u] \in Locked
      BY <2>8 DEF ProcessDies, Locked
    <3>2. LockOf(u)' = LockOf(u) /\ LockOf(u)[1] = call[u].process
      BY <2>8, SameLock DEF ProcessDies, LockOf
    <3>3. LockOf(u) \in DOMAIN lock /\ lock[LockOf(u)] = u
      BY <3>1, LockKeys DEF LocksHeld
    <3> QED
      BY <2>8, <3>1, <3>2, <3>3 DEF ProcessDies
  <2>9. ASSUME NEW s \in Starts, SpawnDaemon(s) \/ JobSpawns(s) PROVE LocksHeld'
    BY <2>9, <2>u, <2>t DEF SpawnDaemon, JobSpawns, Goto, Locked
  <2>10. ASSUME NEW s \in Starts,
                \/ Begin(s) \/ ShutdownShared(s) \/ ShutdownOwned(s) \/ ShutdownPolls(s)
                \/ ShutdownKills(s) \/ ShutdownConfirms(s) \/ ShutdownInterrupted(s)
                \/ DropHandle(s)
         PROVE LocksHeld'
    <3>1. UNCHANGED <<call, lock>>
      BY <2>10 DEF Begin, ShutdownShared, ShutdownOwned, ShutdownPolls, ShutdownKills,
                   ShutdownConfirms, ShutdownInterrupted, DropHandle, EndShutdown
    <3>2. \/ UNCHANGED at
          \/ \E p \in {"failed", "returned", "probing", "closed", "stopping", "closing",
                       "unreleased", "interrupted", "presumed", "dropped"} :
               Goto(s, p)
      BY <2>10 DEF Begin, ShutdownShared, ShutdownOwned, ShutdownPolls, ShutdownKills,
                   ShutdownConfirms, ShutdownInterrupted, DropHandle, EndShutdown
    <3> QED
      BY <2>u, <2>t, <3>1, <3>2 DEF Goto, Locked
  <2>11. ASSUME NEW s \in Starts, ServerStep(s) PROVE LocksHeld'
    BY <2>11, <2>u DEF ServerStep, Binds, ServerEnds, LeaderExits, callVars
  <2>12. ASSUME OtherListenerEnds \/ LogFills \/ UNCHANGED vars PROVE LocksHeld'
    BY <2>12, <2>u DEF OtherListenerEnds, LogFills, vars, callVars
  <2> QED
    BY <2>1, <2>2, <2>3, <2>4, <2>5, <2>6, <2>7, <2>8, <2>9, <2>10, <2>11, <2>12
    DEF Next, CallStep
<1> QED
  BY <1>1, <1>2, TypedInvariant, PTL DEF Spec

\* OneStarter, for any number of calls and of processes that die.
THEOREM StartsAreSerialized == Spec => []OneStarter
<1>1. LocksHeld => OneStarter
  BY DEF LocksHeld, OneStarter
<1> QED
  BY <1>1, LockInvariant, PTL

-----------------------------------------------------------------------------
(* A handle exists only for what answered                                  *)

\* ReadyMeansAnswered: whoever listens and whatever a probe misses, no start
\* succeeds in a step in which no app server listens on the port.
THEOREM ReadyIsAnswered == Spec => ReadyMeansAnswered
<1>1. Typed /\ [Next]_vars
        => [\A s \in Starts : handle[s] = "none" /\ handle'[s] # "none"
              => owner \notin {"free", "foreign"}]_vars
  <2> SUFFICES ASSUME Typed, [Next]_vars, NEW s \in Starts, handle[s] = "none",
                      handle'[s] # "none"
               PROVE  owner \notin {"free", "foreign"}
    OBVIOUS
  <2>1. ASSUME owner \in {"free", "foreign"} PROVE "Reachable" \notin Answers
    BY <2>1 DEF Answers
  <2>2. ASSUME NEW u \in Starts, ProbeExisting(u) \/ ProbeReady(u),
               owner \in {"free", "foreign"}
        PROVE  handle' = handle
    BY <2>1, <2>2 DEF ProbeExisting, ProbeReady, Return
  <2>3. ASSUME NEW u \in Starts, 
               \/ JobFails(u) \/ SpawnOwned(u) \/ CheckChild(u) 
               \/ Begin(u) \/ Acquire(u) \/ SpawnDaemon(u) \/ JobSpawns(u)
        PROVE  handle' = handle
    BY <2>3 DEF JobFails, SpawnOwned, CheckChild, Return, Begin, Acquire, SpawnDaemon,
                JobSpawns
  <2>4. ASSUME NEW u \in Starts,
               \/ ShutdownShared(u) \/ ShutdownInterrupted(u) \/ ShutdownPolls(u)
               \/ ShutdownKills(u) \/ ShutdownConfirms(u) \/ DropHandle(u)
               \/ Cancel(u) \/ ServerStep(u)
        PROVE  handle' = handle
    BY <2>4 DEF ShutdownShared, ShutdownInterrupted, ShutdownPolls, ShutdownKills,
                ShutdownConfirms, DropHandle, Cancel, ServerStep, Binds, ServerEnds,
                LeaderExits, callVars
  <2>6. ASSUME NEW u \in Starts, ShutdownOwned(u) PROVE handle'[s] = handle[s]
    BY <2>6 DEF ShutdownOwned, Typed, TypeOK
  <2>5. ASSUME \/ \E p \in Processes : ProcessDies(p)
               \/ OtherListenerEnds \/ LogFills \/ UNCHANGED vars
        PROVE  handle' = handle
    BY <2>5 DEF ProcessDies, OtherListenerEnds, LogFills, vars, callVars
  <2> QED
    BY <2>2, <2>3, <2>4, <2>5, <2>6 DEF Next, CallStep
<1> QED
  BY <1>1, TypedInvariant, PTL DEF Spec, ReadyMeansAnswered

-----------------------------------------------------------------------------
(* What a handle stops                                                     *)

\* Only a start in Blocking mode ends with a handle that owns its child, and only
\* such a handle signals or stops.
Handles ==
  \A s \in Starts :
    /\ at[s] \in BeforeSpawn \cup {"spawned", "waiting", "readying", "failed"}
         => handle[s] = "none"
    /\ handle[s] \in {"owned", "emptied"} => Mode(s) = "Blocking"
    /\ s \in signalled => handle[s] \in {"owned", "emptied"}
    /\ at[s] \in {"stopping", "closing"} => handle[s] = "emptied"
    /\ handle[s] = "emptied" => s \in signalled /\ at[s] \notin {"held", "dropped"}

\* A child that ended had served, or its server is gone; a shutdown() that waits for
\* the port a second time has killed the group; one that returned reaped its child.
Stopped ==
  \A s \in Starts :
    /\ leader[s] \in {"exited", "reaped"} => serving[s] \in {"gone", "up"}
    /\ at[s] = "closing" => leader[s] = "reaped" /\ serving[s] = "gone"
    /\ at[s] \in {"closed", "unreleased"} /\ handle[s] = "emptied"
         => leader[s] = "reaped" /\ ("slow" \notin faults => serving[s] # "up")

\* A handle owns what its start spawned, and stops nothing else.
LEMMA StoppedInvariant == Spec => [](Handles /\ Stopped)
<1> DEFINE Inv == Handles /\ Stopped
<1> USE BoundAssumption, NoStartAssumption
<1>1. Init => Inv
  BY DEF Init, Handles, Stopped
<1>2. Typed /\ Inv /\ [Next]_vars => Inv'
  <2> SUFFICES ASSUME Typed, Inv, [Next]_vars PROVE Inv'
    OBVIOUS
  <2> USE DEF Typed, TypeOK, Unspawned, Handles, Stopped, Points, BeforeSpawn, Goto, Mode,
              serverVars, callVars
  <2>1. ASSUME NEW s \in Starts, Begin(s) PROVE Inv'
    <3>1. PICK p \in {"failed", "returned", "probing"} : at' = [at EXCEPT ![s] = p]
      BY <2>1 DEF Begin
    <3>2. at[s] = "idle" /\ UNCHANGED <<call, lock, polls, job, handle, serverVars, faults>>
      BY <2>1 DEF Begin
    <3> QED
      BY <3>1, <3>2
  <2>2. ASSUME NEW s \in Starts, ProbeExisting(s) PROVE Inv'
    BY <2>2 DEF ProbeExisting, ReturnHandle, Return, Noted
  <2>3. ASSUME NEW s \in Starts, Acquire(s) \/ SpawnDaemon(s) PROVE Inv'
    BY <2>3 DEF Acquire, SpawnDaemon
  <2>4. ASSUME NEW s \in Starts, JobSpawns(s) PROVE Inv'
    BY <2>4 DEF JobSpawns, Boot
  <2>5. ASSUME NEW s \in Starts, JobFails(s) PROVE Inv'
    BY <2>5 DEF JobFails, Return
  <2>6. ASSUME NEW s \in Starts, SpawnOwned(s) PROVE Inv'
    <3>1. CASE Boot(s) /\ Goto(s, "waiting") /\ UNCHANGED <<lock, handle>>
      BY <2>6, <3>1 DEF SpawnOwned, Boot
    <3>2. CASE Return(s, "failed") /\ UNCHANGED <<leader, serving>>
      BY <2>6, <3>2 DEF SpawnOwned, Return
    <3> QED
      BY <2>6, <3>1, <3>2 DEF SpawnOwned
  <2>7. ASSUME NEW s \in Starts, CheckChild(s) PROVE Inv'
    BY <2>7 DEF CheckChild, Return
  <2>8. ASSUME NEW s \in Starts, ProbeReady(s) PROVE Inv'
    <3>1. Mode(s) \in {"Daemon", "Blocking"}
      BY CallsAssumption
    <3> QED
      BY <2>8, <3>1 DEF ProbeReady, ReturnHandle, Return, Noted
  <2>9. ASSUME NEW s \in Starts,
               ShutdownShared(s) \/ ShutdownOwned(s) \/ ShutdownInterrupted(s)
        PROVE  Inv'
    BY <2>9 DEF ShutdownShared, ShutdownOwned, ShutdownInterrupted, EndShutdown
  <2>10. ASSUME NEW s \in Starts, ShutdownPolls(s) PROVE Inv'
    <3>1. /\ leader' = [leader EXCEPT ![s] = IF @ = "exited" THEN "reaped" ELSE @]
          /\ at[s] = "stopping" /\ UNCHANGED <<call, job, handle, serving, owner>>
      BY <2>10 DEF ShutdownPolls, Reap
    <3>2. CASE /\ at' = [at EXCEPT ![s] = "closed"] /\ UNCHANGED signalled
               /\ leader[s] \in {"exited", "reaped"}
               /\ \E r \in Answers \ {"Reachable"} : faults' = faults \cup Noted(r)
      <4>1. serving[s] = "up" => "slow" \in faults'
        <5>1. ASSUME serving[s] = "up" PROVE owner \notin {"free", "foreign"}
          BY <5>1
        <5> QED
          BY <3>2, <5>1 DEF Answers, Noted
      <4>2. "slow" \in faults => "slow" \in faults'
        BY <3>2
      <4> QED
        BY <3>1, <3>2, <4>1, <4>2
    <3>3. CASE /\ UNCHANGED <<at, faults>> /\ signalled' \in {signalled, signalled \cup {s}}
      BY <3>1, <3>3
    <3> QED
      BY <2>10, <3>2, <3>3 DEF ShutdownPolls, EndShutdown
  <2>11. ASSUME NEW s \in Starts, ShutdownKills(s) PROVE Inv'
    BY <2>11 DEF ShutdownKills
  <2>12. ASSUME NEW s \in Starts, ShutdownConfirms(s) PROVE Inv'
    BY <2>12 DEF ShutdownConfirms, EndShutdown
  <2>13. ASSUME NEW s \in Starts, DropHandle(s) PROVE Inv'
    BY <2>13 DEF DropHandle, Reap
  <2>14. ASSUME NEW s \in Starts, Cancel(s) PROVE Inv'
    BY <2>14 DEF Cancel, Awaits
  <2>15. ASSUME NEW p \in Processes, ProcessDies(p) PROVE Inv'
    BY <2>15 DEF ProcessDies
  <2>16. ASSUME NEW s \in Starts, ServerStep(s) PROVE Inv'
    <3>1. CASE Binds(s)
      BY <3>1 DEF Binds
    <3>2. CASE ServerEnds(s)
      BY <3>2 DEF ServerEnds
    <3>3. CASE LeaderExits(s)
      BY <3>3 DEF LeaderExits
    <3> QED
      BY <2>16, <3>1, <3>2, <3>3 DEF ServerStep
  <2>17. ASSUME OtherListenerEnds \/ LogFills \/ UNCHANGED vars PROVE Inv'
    BY <2>17 DEF OtherListenerEnds, LogFills, vars
  <2> QED
    BY <2>1, <2>2, <2>3, <2>4, <2>5, <2>6, <2>7, <2>8, <2>9, <2>10, <2>11, <2>12, <2>13,
       <2>14, <2>15, <2>16, <2>17 DEF Next, CallStep
<1> QED
  BY <1>1, <1>2, TypedInvariant, PTL DEF Spec

\* OnlyOwnedStopped, whatever is dropped, cancelled or killed.
THEOREM OthersSurvive == Spec => []OnlyOwnedStopped
<1>1. Typed /\ Handles => OnlyOwnedStopped
  BY DEF Typed, TypeOK, Handles, OnlyOwnedStopped
<1> QED
  BY <1>1, TypedInvariant, StoppedInvariant, PTL

\* ShutdownStops, for any number of attempts.
THEOREM ShutdownIsDone == Spec => []ShutdownStops
<1>1. Handles /\ Stopped => ShutdownStops
  BY DEF Handles, Stopped, ShutdownStops
<1> QED
  BY <1>1, StoppedInvariant, PTL

-----------------------------------------------------------------------------
(* What a start leaves behind                                              *)

\* A leader ends before its server only when it is told to; a start that waits for
\* its task has one; only daemons are spawned by tasks; a call that is given up is noted.
Spawning ==
  \A s \in Starts :
    /\ leader[s] \in {"exited", "reaped"} /\ serving[s] = "up" => s \in signalled
    /\ at[s] = "spawned" => s \in job
    /\ s \in job => Mode(s) = "Daemon"
    /\ at[s] = "cancelled" => "abandoned" \in faults

\* An owned server that nobody signalled and no start gave up on has its start, or
\* the handle that owns it.
Accounted ==
  \A s \in Starts :
    Running(s) /\ Mode(s) = "Blocking" /\ s \notin signalled /\ "abandoned" \notin faults
      => at[s] \in {"waiting", "readying"} \/ (at[s] = "held" /\ handle[s] = "owned")

\* No step of a start or of a handle loses an owned server unnoticed.
LEMMA AccountedInvariant == Spec => [](Spawning /\ Accounted)
<1> DEFINE Inv == Spawning /\ Accounted
<1> USE BoundAssumption, NoStartAssumption
<1>1. Init => Inv
  BY DEF Init, Spawning, Accounted, Running
<1>2. Typed /\ Handles /\ Stopped /\ Inv /\ [Next]_vars => Inv'
  <2> SUFFICES ASSUME Typed, Handles, Stopped, Inv, [Next]_vars PROVE Inv'
    OBVIOUS
  <2> USE DEF Typed, TypeOK, Unspawned, Handles, Stopped, Spawning, Accounted, Running,
              Points, BeforeSpawn, Goto, Mode, serverVars, callVars
  <2>1. ASSUME NEW s \in Starts, Begin(s) PROVE Inv'
    <3>1. PICK p \in {"failed", "returned", "probing"} : at' = [at EXCEPT ![s] = p]
      BY <2>1 DEF Begin
    <3>2. at[s] = "idle" /\ UNCHANGED <<call, lock, polls, job, handle, serverVars, faults>>
      BY <2>1 DEF Begin
    <3> QED
      BY <3>1, <3>2
  <2>2. ASSUME NEW s \in Starts, ProbeExisting(s) PROVE Inv'
    BY <2>2 DEF ProbeExisting, ReturnHandle, Return, Noted
  <2>3. ASSUME NEW s \in Starts, Acquire(s) \/ SpawnDaemon(s) PROVE Inv'
    BY <2>3 DEF Acquire, SpawnDaemon
  <2>4. ASSUME NEW s \in Starts, JobSpawns(s) PROVE Inv'
    BY <2>4 DEF JobSpawns, Boot
  <2>5. ASSUME NEW s \in Starts, JobFails(s) PROVE Inv'
    BY <2>5 DEF JobFails, Return
  <2>6. ASSUME NEW s \in Starts, SpawnOwned(s) PROVE Inv'
    <3>1. CASE Boot(s) /\ Goto(s, "waiting") /\ UNCHANGED <<lock, handle>>
      BY <2>6, <3>1 DEF SpawnOwned, Boot
    <3>2. CASE Return(s, "failed") /\ UNCHANGED <<leader, serving>>
      BY <2>6, <3>2 DEF SpawnOwned, Return
    <3> QED
      BY <2>6, <3>1, <3>2 DEF SpawnOwned
  <2>7. ASSUME NEW s \in Starts, CheckChild(s) PROVE Inv'
    BY <2>7 DEF CheckChild, Return
  <2>8. ASSUME NEW s \in Starts, ProbeReady(s) PROVE Inv'
    <3>1. /\ Mode(s) \in {"Daemon", "Blocking"}
          /\ Mode(s) = "Blocking" => call[s].entry = "start"
      BY CallsAssumption
    <3> QED
      BY <2>8, <3>1 DEF ProbeReady, ReturnHandle, Return, Noted
  <2>9. ASSUME NEW s \in Starts,
               ShutdownShared(s) \/ ShutdownOwned(s) \/ ShutdownInterrupted(s)
        PROVE  Inv'
    BY <2>9 DEF ShutdownShared, ShutdownOwned, ShutdownInterrupted, EndShutdown
  <2>10. ASSUME NEW s \in Starts, ShutdownPolls(s) PROVE Inv'
    BY <2>10 DEF ShutdownPolls, EndShutdown, Reap, Noted
  <2>11. ASSUME NEW s \in Starts, ShutdownKills(s) PROVE Inv'
    BY <2>11 DEF ShutdownKills
  <2>12. ASSUME NEW s \in Starts, ShutdownConfirms(s) PROVE Inv'
    BY <2>12 DEF ShutdownConfirms, EndShutdown, Noted
  <2>13. ASSUME NEW s \in Starts, DropHandle(s) PROVE Inv'
    BY <2>13 DEF DropHandle, Reap
  <2>14. ASSUME NEW s \in Starts, Cancel(s) PROVE Inv'
    BY <2>14 DEF Cancel, Awaits
  <2>15. ASSUME NEW p \in Processes, ProcessDies(p) PROVE Inv'
    BY <2>15 DEF ProcessDies
  <2>16. ASSUME NEW s \in Starts, ServerStep(s) PROVE Inv'
    <3>1. CASE Binds(s)
      BY <3>1 DEF Binds
    <3>2. CASE ServerEnds(s)
      BY <3>2 DEF ServerEnds
    <3>3. CASE LeaderExits(s)
      BY <3>3 DEF LeaderExits
    <3> QED
      BY <2>16, <3>1, <3>2, <3>3 DEF ServerStep
  <2>17. ASSUME OtherListenerEnds \/ LogFills \/ UNCHANGED vars PROVE Inv'
    BY <2>17 DEF OtherListenerEnds, LogFills, vars
  <2> QED
    BY <2>1, <2>2, <2>3, <2>4, <2>5, <2>6, <2>7, <2>8, <2>9, <2>10, <2>11, <2>12, <2>13,
       <2>14, <2>15, <2>16, <2>17 DEF Next, CallStep
<1> QED
  BY <1>1, <1>2, TypedInvariant, StoppedInvariant, PTL DEF Spec

\* OrphansHaveACause: every server a Blocking start spawned is its handle's, was told
\* to stop, or was given up with its start.
THEOREM OrphansAreNoted == Spec => []OrphansHaveACause
<1>1. Accounted => OrphansHaveACause
  BY DEF Accounted, OrphansHaveACause
<1> QED
  BY <1>1, AccountedInvariant, PTL

-----------------------------------------------------------------------------
(* One server a process                                                    *)

\* The calls name one listen target, as WsDaemon's one port means.
OneTarget ==
  \A c, d \in Calls : TargetOf(c).kind = "target" /\ TargetOf(d).kind = "target"
                        => TargetOf(c).lockKey = TargetOf(d).lockKey

Together(s, u) == call[s].process = call[u].process

\* Without a fault, a server that still boots has its start in the startup section,
\* and under the lock, from the second probe to the spawn, the process runs none.
Single ==
  faults = {} =>
    \A s \in Starts :
      /\ Running(s) => at[s] \in {"waiting", "readying"} \/ serving[s] = "up"
      /\ \A u \in Starts : Together(s, u) =>
           /\ u # s /\ Running(s) => ~Running(u)
           /\ at[u] \in {"spawning", "spawned"} => ~Running(s)

\* Two starts of one process are not in the startup section together.
LEMMA SectionIsAlone ==
  ASSUME OneTarget, Typed, LocksHeld, NEW s \in Starts, NEW u \in Starts, Together(s, u),
         at[s] \in Locked, at[u] \in Locked
  PROVE  s = u
<1>1. TargetOf(call[s]).lockKey = TargetOf(call[u]).lockKey
  BY DEF OneTarget, Typed, TypeOK, Aimed
<1>2. LockOf(s) = LockOf(u)
  BY <1>1 DEF LockOf, Together
<1> QED
  BY <1>2 DEF LocksHeld

\* Each step keeps Single: the second probe, made under the lock, saw every server
\* the process runs.
LEMMA SingleInvariant == ASSUME OneTarget PROVE Spec => []Single
<1> USE BoundAssumption, NoStartAssumption
<1>1. Init => Single
  BY DEF Init, Single, Running
<1>2. /\ Typed /\ LocksHeld /\ Handles /\ Stopped /\ Spawning /\ Single /\ [Next]_vars
      => Single'
  <2> SUFFICES ASSUME Typed, LocksHeld, Handles, Stopped, Spawning, Single, [Next]_vars,
                      faults' = {}, faults = {}
               PROVE  Single'
    <3>1. [Next]_vars => faults \subseteq faults'
      BY DEF Next, CallStep, ServerStep, vars, Begin, ProbeExisting, Acquire, SpawnDaemon,
         JobSpawns, JobFails, SpawnOwned, CheckChild, ProbeReady, ShutdownPolls,
         ShutdownKills, ShutdownConfirms, ShutdownShared, ShutdownOwned,
         ShutdownInterrupted, EndShutdown, DropHandle,
         Cancel, Binds, ServerEnds, LeaderExits, ProcessDies, OtherListenerEnds, LogFills
    <3> QED
      BY <3>1 DEF Single
  <2>c. ASSUME UNCHANGED call PROVE \A s, u \in Starts : Together(s, u)' <=> Together(s, u)
    BY <2>c DEF Together
  <2>n. \A s \in Starts : at[s] # "cancelled"
    BY DEF Spawning
  <2>l. ASSUME NEW s \in Starts, NEW u \in Starts, Together(s, u), s # u,
               at[s] \in Locked, at[u] \in Locked
        PROVE  FALSE
    BY <2>l, SectionIsAlone
  <2> USE DEF Typed, TypeOK, Unspawned, Single, Running, Points, BeforeSpawn, Goto,
              serverVars, callVars
  <2>u. ASSUME UNCHANGED <<call, serving>>,
               \A s \in Starts : 
                 /\ at[s] \in {"waiting", "readying"} /\ serving[s] = "booting"
                      => at'[s] \in {"waiting", "readying"}
                 /\ at'[s] \in {"spawning", "spawned"} => at[s] \in {"spawning", "spawned"}
        PROVE  Single'
    BY <2>u, <2>c
  <2>1. ASSUME NEW s \in Starts, Begin(s) PROVE Single'
    <3>1. PICK p \in {"failed", "returned", "probing"} : at' = [at EXCEPT ![s] = p]
      BY <2>1 DEF Begin
    <3>2. at[s] = "idle" /\ UNCHANGED <<call, serving>>
      BY <2>1 DEF Begin
    <3> QED
      BY <2>u, <3>1, <3>2
  <2>2. ASSUME NEW s \in Starts, ProbeExisting(s) PROVE Single'
    <3>1. CASE at'[s] # "spawning"
      BY <2>2, <2>u, <3>1 DEF ProbeExisting, ReturnHandle, Return
    <3>2. CASE at'[s] = "spawning"
      <4>1. /\ at[s] = "reprobing" /\ owner = "free"
            /\ at' = [at EXCEPT ![s] = "spawning"] /\ UNCHANGED <<call, serving>>
        <5>1. PICK r \in Answers :
                /\ r = "Unavailable" /\ Goto(s, IF at[s] = "probing" THEN "locking" ELSE "spawning")
                /\ faults' = faults \cup Noted(r)
          BY <2>2, <3>2 DEF ProbeExisting, ReturnHandle, Return
        <5>2. at[s] = "reprobing" /\ UNCHANGED <<call, serving>>
          BY <2>2, <3>2, <5>1 DEF ProbeExisting
        <5>3. "slow" \notin Noted(r)
          BY <5>1
        <5> QED
          BY <5>1, <5>2, <5>3 DEF Noted
      <4>2. ASSUME NEW u \in Starts, Together(u, s) PROVE ~Running(u)
        <5>1. CASE u = s
          BY <4>1, <5>1
        <5>2. CASE u # s
          BY <2>l, <4>1, <4>2, <5>2 DEF Locked
        <5> QED
          BY <5>1, <5>2
      <4> QED
        BY <2>c, <4>1, <4>2
    <3> QED
      BY <3>1, <3>2
  <2>3. ASSUME NEW s \in Starts, Acquire(s) PROVE Single'
    BY <2>3, <2>u DEF Acquire
  <2>4. ASSUME NEW s \in Starts, SpawnDaemon(s) PROVE Single'
    BY <2>4, <2>u DEF SpawnDaemon
  <2>b. ASSUME NEW s \in Starts, at[s] \in {"spawning", "spawned"}, Boot(s),
               Goto(s, "waiting"), UNCHANGED call
        PROVE  Single'
    <3>1. ASSUME NEW u \in Starts, Together(u, s), u # s
          PROVE  ~Running(u) /\ at[u] \notin {"spawning", "spawned"}
      BY <2>b, <2>l, <3>1 DEF Locked
    <3> QED
      BY <2>b, <2>c, <3>1 DEF Boot, Together
  <2>5. ASSUME NEW s \in Starts, JobSpawns(s) PROVE Single'
    BY <2>5, <2>b, <2>n DEF JobSpawns
  <2>6. ASSUME NEW s \in Starts, JobFails(s) PROVE Single'
    BY <2>6, <2>u, <2>n DEF JobFails, Return
  <2>7. ASSUME NEW s \in Starts, SpawnOwned(s) PROVE Single'
    <3>1. CASE Boot(s) /\ Goto(s, "waiting")
      BY <2>7, <2>b, <3>1 DEF SpawnOwned
    <3>2. CASE Return(s, "failed") /\ UNCHANGED <<leader, serving>>
      BY <2>7, <2>u, <3>2 DEF SpawnOwned, Return
    <3> QED
      BY <2>7, <3>1, <3>2 DEF SpawnOwned
  <2>8. ASSUME NEW s \in Starts, CheckChild(s) PROVE Single'
    <3>1. at[s] = "waiting" /\ UNCHANGED <<call, serving>>
      BY <2>8 DEF CheckChild
    <3>2. CASE leader[s] = "exited" /\ Goto(s, "failed")
      <4>1. serving[s] # "booting"
        BY <3>2 DEF Stopped
      <4> QED
        BY <2>u, <3>1, <3>2, <4>1
    <3>3. CASE Goto(s, "readying")
      BY <2>u, <3>1, <3>3
    <3> QED
      BY <2>8, <3>2, <3>3 DEF CheckChild, Return
  <2>9. ASSUME NEW s \in Starts, ProbeReady(s) PROVE Single'
    <3>1. CASE Goto(s, "waiting")
      BY <2>9, <2>u, <3>1 DEF ProbeReady
    <3>2. CASE owner = s
      <4>1. serving[s] = "up"
        BY <3>2
      <4> QED
        BY <2>9, <2>u, <4>1 DEF ProbeReady, ReturnHandle, Return
    <3> QED
      BY <2>9, <3>1, <3>2 DEF ProbeReady, ReturnHandle, Return
  <2>10. ASSUME NEW s \in Starts,
                \/ ShutdownShared(s) \/ ShutdownOwned(s) \/ ShutdownPolls(s)
                \/ ShutdownConfirms(s) \/ ShutdownInterrupted(s) \/ DropHandle(s)
         PROVE Single'
    <3>1. UNCHANGED <<call, serving>> /\ at[s] \notin {"waiting", "readying"}
      BY <2>10 DEF ShutdownShared, ShutdownOwned, ShutdownPolls, ShutdownConfirms,
                   ShutdownInterrupted, EndShutdown, DropHandle
    <3>2. \/ UNCHANGED at
          \/ \E p \in {"closed", "stopping", "unreleased", "interrupted", "presumed",
                       "dropped"} : Goto(s, p)
      BY <2>10 DEF ShutdownShared, ShutdownOwned, ShutdownPolls, ShutdownConfirms,
                   ShutdownInterrupted, EndShutdown, DropHandle
    <3> QED
      BY <2>u, <3>1, <3>2
  <2>11. ASSUME NEW s \in Starts, ShutdownKills(s) PROVE Single'
    BY <2>11, <2>c DEF ShutdownKills
  <2>12. ASSUME (\E s \in Starts : Cancel(s)) \/ (\E p \in Processes : ProcessDies(p))
         PROVE Single'
    BY <2>12 DEF Cancel, ProcessDies
  <2>13. ASSUME NEW s \in Starts, ServerStep(s) PROVE Single'
    <3>1. CASE Binds(s)
      BY <2>c, <3>1 DEF Binds
    <3>2. CASE ServerEnds(s)
      BY <2>c, <3>2 DEF ServerEnds
    <3>3. CASE LeaderExits(s)
      BY <2>u, <3>3 DEF LeaderExits
    <3> QED
      BY <2>13, <3>1, <3>2, <3>3 DEF ServerStep
  <2>14. ASSUME OtherListenerEnds \/ LogFills \/ UNCHANGED vars PROVE Single'
    BY <2>14, <2>u DEF OtherListenerEnds, LogFills, vars
  <2> QED
    BY <2>1, <2>2, <2>3, <2>4, <2>5, <2>6, <2>7, <2>8, <2>9, <2>10, <2>11, <2>12, <2>13,
       <2>14 DEF Next, CallStep
<1> QED
  BY <1>1, <1>2, TypedInvariant, LockInvariant, StoppedInvariant, AccountedInvariant, PTL
  DEF Spec

\* NoDuplicate, for any number of processes and of calls for one target.
THEOREM OneServerEach == ASSUME OneTarget PROVE Spec => []NoDuplicate
<1>1. Single => NoDuplicate
  BY DEF Single, NoDuplicate, Together
<1> QED
  BY <1>1, SingleInvariant, PTL
=============================================================================
