------------------------------ MODULE WsDaemon ------------------------------
(***************************************************************************)
(* Starting and stopping a websocket app server                            *)
(* (crates/sdk/src/transport/ws_daemon.rs): several calls of               *)
(* start_ws_server or ensure_local_ws_app_server, in one or several        *)
(* processes that use the SDK, name the same port of one machine: a server *)
(* listens where the listen URL says and is probed at the connect URL.     *)
(*                                                                         *)
(* A call probes the port, takes the startup lock of its process for the   *)
(* target, probes again, spawns the server and polls until it answers.  A  *)
(* server in Blocking mode is the child of the handle the call returns: it *)
(* leads a process group, and another process of the group may be the one  *)
(* that listens.  A daemon is spawned by a blocking task of the runtime,   *)
(* which goes on when the call is dropped.                                 *)
(***************************************************************************)
EXTENDS WsTargets, FiniteSets

CONSTANTS Starts,      \* calls, and the servers they spawn
          Processes,   \* processes that use the SDK
          Calls,       \* what a call may ask for, in this instance
          NoStart,
          Polls,       \* probes until STARTUP_TIMEOUT
          Attempts,    \* SHUTDOWN_POLL_ATTEMPTS (20 in the code)
          ResendAt     \* the attempt that repeats SIGTERM (5 in the code)

ASSUME CallsAssumption ==
  /\ Calls \subseteq [process : Processes, entry : {"start", "ensure"}, listen : Urls,
                     connect : Urls, mode : {"Daemon", "Blocking"}, reuse : BOOLEAN]
  /\ \A c \in Calls : c.entry = "ensure" => c.mode = "Daemon" /\ c.reuse
                                         /\ c.connect = c.listen
ASSUME NoStartAssumption == NoStart \notin Starts /\ {"free", "foreign", "external"} \cap Starts = {}
ASSUME BoundAssumption == Polls \in Nat /\ Attempts \in Nat \ {0} /\ ResendAt \in 0..(Attempts - 1)

VARIABLES call,      \* what each call asks for
          at,        \* where it is, or the handle it returned
          lock,      \* holder of each startup lock
          polls,     \* probes or attempts left to it
          job,       \* calls whose blocking task has not spawned yet
          handle,    \* the kind of handle it returned, "emptied" by shutdown()
          leader,    \* the process the call spawned
          serving,   \* the process of its group that listens
          owner,     \* who listens on the port
          signalled, \* history: servers that got SIGTERM
          log,       \* the daemon log: "ready", "full" (10 MiB) or "refused"
          faults     \* history: was a probe slow, a start abandoned, or a start
                     \* that spawned a server answered by another one?

callVars == <<call, at, lock, polls, job, handle>>
serverVars == <<leader, serving, owner, signalled, log>>
vars == <<callVars, serverVars, faults>>

Mode(s) == call[s].mode

TargetOf(c) == IF c.entry = "ensure" THEN ManagedTarget(c.listen)
                                     ELSE BuiltTarget(c.listen, c.connect)

\* The startup locks are a process's own.
LockOf(s) == <<call[s].process, TargetOf(call[s]).lockKey>>

Keys == {TargetOf(c).lockKey : c \in {d \in Calls : TargetOf(d).kind = "target"}}

Goto(s, p) == at' = [at EXCEPT ![s] = p]

\* Points at which a call has the startup lock
Locked == {"reprobing", "spawning", "spawned", "waiting", "readying"}

\* The guard is dropped with the call.
Unlock(s) == lock' = IF at[s] \in Locked THEN [lock EXCEPT ![LockOf(s)] = NoStart] ELSE lock

Init == /\ call \in [Starts -> Calls]
        /\ at = [s \in Starts |-> "idle"]
        /\ lock = [k \in Processes \X Keys |-> NoStart]
        /\ polls = [s \in Starts |-> Polls]
        /\ job = {}
        /\ handle = [s \in Starts |-> "none"]
        /\ leader = [s \in Starts |-> "none"]
        /\ serving = [s \in Starts |-> "none"]
        /\ owner \in {"free", "foreign", "external"}
        /\ signalled = {}
        /\ log \in {"ready", "refused"}
        /\ faults = {}

-----------------------------------------------------------------------------
(* Probes: what listens on the port answers the handshake, or something else; *)
(* or the probe takes too long, which counts as nothing there.               *)

Answers == CASE owner = "free"    -> {"Unavailable"}
             [] owner = "foreign" -> {"Error", "Unavailable"}
             [] OTHER             -> {"Reachable", "Unavailable"}

Noted(r) == IF r = "Unavailable" /\ owner # "free" THEN {"slow"} ELSE {}

-----------------------------------------------------------------------------
(* Starting                                                                *)

Begin(s) ==
  /\ at[s] = "idle"
  /\ Goto(s, CASE TargetOf(call[s]).kind = "config error" -> "failed"
               [] TargetOf(call[s]).kind = "connect only" -> "returned"
               [] OTHER                                   -> "probing")
  /\ UNCHANGED <<call, lock, polls, job, handle, serverVars, faults>>

\* A call returns its handle; ensure_local_ws_app_server drops it.
ReturnHandle(s, kind) ==
  /\ handle' = [handle EXCEPT ![s] = kind]
  /\ Goto(s, IF call[s].entry = "ensure" THEN "returned" ELSE "held")
  /\ Unlock(s)

Return(s, p) == Goto(s, p) /\ Unlock(s) /\ UNCHANGED handle

\* existing_server_handle, before and after the lock is taken
ProbeExisting(s) ==
  /\ at[s] \in {"probing", "reprobing"}
  /\ \E r \in Answers :
       /\ faults' = faults \cup Noted(r)
       /\ \/ /\ r = "Reachable" /\ call[s].reuse
             /\ ReturnHandle(s, "reused")
          \/ /\ r = "Error" \/ (r = "Reachable" /\ ~call[s].reuse)
             /\ Return(s, "failed")
          \/ /\ r = "Unavailable"
             /\ Goto(s, IF at[s] = "probing" THEN "locking" ELSE "spawning")
             /\ UNCHANGED <<lock, handle>>
  /\ UNCHANGED <<call, polls, job, serverVars>>

\* Variant: nothing is probed again under the lock.
AcquireAndSpawn(s) ==
  /\ at[s] = "locking"
  /\ lock[LockOf(s)] = NoStart
  /\ lock' = [lock EXCEPT ![LockOf(s)] = s]
  /\ Goto(s, "spawning")
  /\ UNCHANGED <<call, polls, job, handle, serverVars, faults>>

Acquire(s) ==
  /\ at[s] = "locking"
  /\ lock[LockOf(s)] = NoStart
  /\ lock' = [lock EXCEPT ![LockOf(s)] = s]
  /\ Goto(s, "reprobing")
  /\ UNCHANGED <<call, polls, job, handle, serverVars, faults>>

Boot(s) == /\ leader' = [leader EXCEPT ![s] = "alive"]
           /\ serving' = [serving EXCEPT ![s] = "booting"]

\* spawn_daemon hands the spawn to a blocking task.
SpawnDaemon(s) ==
  /\ at[s] = "spawning" /\ Mode(s) = "Daemon"
  /\ job' = job \cup {s}
  /\ Goto(s, "spawned")
  /\ UNCHANGED <<call, lock, polls, handle, serverVars, faults>>

\* spawn_daemon_process: the log is opened first, and emptied when it is full.
JobSpawns(s) ==
  /\ s \in job /\ log # "refused"
  /\ job' = job \ {s}
  /\ log' = "ready"
  /\ Boot(s)
  /\ IF at[s] = "spawned" THEN Goto(s, "waiting") ELSE UNCHANGED at
  /\ UNCHANGED <<call, lock, polls, handle, owner, signalled, faults>>

\* The log is a symlink or cannot be opened, or there is no codex binary.
JobFails(s) ==
  /\ s \in job
  /\ job' = job \ {s}
  /\ log' \in {log, IF log = "full" THEN "ready" ELSE log}
  /\ IF at[s] = "spawned" THEN Return(s, "failed") ELSE UNCHANGED <<at, lock, handle>>
  /\ UNCHANGED <<call, polls, leader, serving, owner, signalled, faults>>

SpawnOwned(s) ==
  /\ at[s] = "spawning" /\ Mode(s) = "Blocking"
  /\ \/ Boot(s) /\ Goto(s, "waiting") /\ UNCHANGED <<lock, handle>>
     \/ Return(s, "failed") /\ UNCHANGED <<leader, serving>>
  /\ UNCHANGED <<call, polls, job, owner, signalled, log, faults>>

\* wait_for_ready looks at its own child first.
CheckChild(s) ==
  /\ at[s] = "waiting"
  /\ IF Mode(s) = "Blocking" /\ leader[s] = "exited"
       THEN leader' = [leader EXCEPT ![s] = "reaped"] /\ Return(s, "failed")
       ELSE Goto(s, "readying") /\ UNCHANGED <<leader, lock, handle>>
  /\ UNCHANGED <<call, polls, job, serving, owner, signalled, log, faults>>

\* Variant: the deadline is not looked at.
ProbeReadyForever(s) ==
  /\ at[s] = "readying"
  /\ \E r \in Answers :
       \/ /\ r = "Reachable"
          /\ ReturnHandle(s, IF Mode(s) = "Daemon" THEN "daemon" ELSE "owned")
       \/ /\ r = "Error"
          /\ Return(s, "failed")
       \/ /\ r = "Unavailable"
          /\ Goto(s, "waiting")
          /\ UNCHANGED <<lock, handle>>
  /\ UNCHANGED <<call, polls, job, serverVars, faults>>

\* Whatever answers makes the start succeed, another process's server too. The
\* count of its probes ends with the start.
ProbeReady(s) ==
  /\ at[s] = "readying"
  /\ \E r \in Answers :
       \/ /\ r = "Reachable"
          /\ ReturnHandle(s, IF Mode(s) = "Daemon" THEN "daemon" ELSE "owned")
          /\ faults' = IF owner = s THEN faults ELSE faults \cup {"mistaken"}
          /\ polls' = [polls EXCEPT ![s] = 0]
       \/ /\ r = "Error"
          /\ Return(s, "failed")
          /\ faults' = faults \cup {"abandoned"}
          /\ polls' = [polls EXCEPT ![s] = 0]
       \/ /\ r = "Unavailable" /\ polls[s] > 0
          /\ Goto(s, "waiting")
          /\ polls' = [polls EXCEPT ![s] = @ - 1]
          /\ faults' = faults \cup Noted(r)
          /\ UNCHANGED <<lock, handle>>
       \/ /\ r = "Unavailable" /\ polls[s] = 0
          /\ Return(s, "failed")
          /\ faults' = faults \cup Noted(r) \cup {"abandoned"}
          /\ UNCHANGED polls
  /\ UNCHANGED <<call, job, serverVars>>

-----------------------------------------------------------------------------
(* Stopping                                                                *)

\* shutdown() of a handle that holds no child returns Ok and does nothing: it never
\* had one, or an earlier shutdown() took it.
ShutdownShared(s) ==
  /\ handle[s] # "owned"
  /\ \/ at[s] \in {"held", "unreleased"} /\ Goto(s, "closed")
     \/ at[s] = "interrupted" /\ Goto(s, "presumed")
  /\ UNCHANGED <<call, lock, polls, job, handle, serverVars, faults>>

\* The first thing shutdown() does is to take the child out of the handle.
ShutdownOwned(s) ==
  /\ at[s] = "held" /\ handle[s] = "owned"
  /\ Goto(s, "stopping")
  /\ handle' = [handle EXCEPT ![s] = "emptied"]
  /\ polls' = [polls EXCEPT ![s] = 0]
  /\ signalled' = signalled \cup {s}
  /\ UNCHANGED <<call, lock, job, leader, serving, owner, log, faults>>

\* shutdown() ends, and its count with it.
EndShutdown(s, p) == Goto(s, p) /\ polls' = [polls EXCEPT ![s] = 0]

Reap(s) == leader' = [leader EXCEPT ![s] = IF @ = "exited" THEN "reaped" ELSE @]

\* One attempt: reap the child, then see whether the port was released.
ShutdownPolls(s) ==
  /\ at[s] = "stopping" /\ polls[s] < Attempts
  /\ Reap(s)
  /\ \/ \E r \in Answers \ {"Reachable"} :
          /\ leader[s] \in {"exited", "reaped"}
          /\ faults' = faults \cup Noted(r)
          /\ EndShutdown(s, "closed")
          /\ UNCHANGED signalled
     \/ /\ leader[s] \in {"exited", "reaped"} => "Reachable" \in Answers
        /\ polls' = [polls EXCEPT ![s] = @ + 1]
        /\ signalled' = IF polls[s] = ResendAt THEN signalled \cup {s} ELSE signalled
        /\ UNCHANGED <<at, faults>>
  /\ UNCHANGED <<call, lock, job, handle, serving, owner, log>>

\* Variant: the child is not killed when SIGTERM was not enough.
ShutdownGivesUp(s) ==
  /\ at[s] = "stopping" /\ polls[s] = Attempts
  /\ Goto(s, "closing")
  /\ polls' = [polls EXCEPT ![s] = 0]
  /\ UNCHANGED <<call, lock, job, handle, serverVars, faults>>

\* The attempts are used up: SIGKILL to the group. Waiting for a child not yet
\* reaped may fail.
ShutdownKills(s) ==
  /\ at[s] = "stopping" /\ polls[s] = Attempts
  /\ \/ Goto(s, "closing") /\ leader' = [leader EXCEPT ![s] = "reaped"]
     \/ /\ leader[s] # "reaped"
        /\ Goto(s, "interrupted")
        /\ leader' = [leader EXCEPT ![s] = "exited"]
  /\ polls' = [polls EXCEPT ![s] = 0]
  /\ serving' = [serving EXCEPT ![s] = "gone"]
  /\ owner' = IF owner = s THEN "free" ELSE owner
  /\ UNCHANGED <<call, lock, job, handle, signalled, log, faults>>

\* It waits for the port once more, and fails if another server answers there.
ShutdownConfirms(s) ==
  /\ at[s] = "closing"
  /\ \/ \E r \in Answers \ {"Reachable"} :
          /\ faults' = faults \cup Noted(r)
          /\ EndShutdown(s, "closed")
     \/ /\ "Reachable" \in Answers
        /\ IF polls[s] + 1 = Attempts
             THEN EndShutdown(s, "unreleased")
             ELSE polls' = [polls EXCEPT ![s] = @ + 1] /\ UNCHANGED at
        /\ UNCHANGED faults
  /\ UNCHANGED <<call, lock, job, handle, serverVars>>

\* shutdown() ends before it is done: its future is dropped at an await, or it
\* cannot learn whether the child ended. The child went with it.
ShutdownInterrupted(s) ==
  /\ at[s] \in {"stopping", "closing"}
  /\ EndShutdown(s, "interrupted")
  /\ UNCHANGED <<call, lock, job, handle, serverVars, faults>>

\* Variant: a dropped daemon is stopped too.
DropStopsAll(s) ==
  /\ at[s] = "held"
  /\ Goto(s, "dropped")
  /\ Reap(s)
  /\ signalled' = IF handle[s] # "reused" THEN signalled \cup {s} ELSE signalled
  /\ UNCHANGED <<call, lock, polls, job, handle, serving, owner, log, faults>>

\* Variant: a dropped handle leaves its child alone.
DropLeaves(s) ==
  /\ at[s] = "held"
  /\ Goto(s, "dropped")
  /\ UNCHANGED <<call, lock, polls, job, handle, serverVars, faults>>

\* Drop: SIGTERM to the group of an owned child, and no waiting. The drop of an
\* emptied handle does nothing, and is no step.
DropHandle(s) ==
  /\ at[s] = "held"
  /\ Goto(s, "dropped")
  /\ IF handle[s] = "owned"
       THEN Reap(s) /\ signalled' = signalled \cup {s}
       ELSE UNCHANGED <<leader, signalled>>
  /\ UNCHANGED <<call, lock, polls, job, handle, serving, owner, log, faults>>

-----------------------------------------------------------------------------
(* Futures dropped at an await, and processes that end                     *)

Awaits == {"probing", "locking", "reprobing", "spawned", "waiting", "readying"}

Cancel(s) ==
  /\ at[s] \in Awaits
  /\ Goto(s, "cancelled")
  /\ Unlock(s)
  /\ faults' = faults \cup {"abandoned"}
  /\ UNCHANGED <<call, polls, job, handle, serverVars>>

\* A process of the SDK is killed: its calls, locks and blocking tasks end, the
\* servers it spawned do not.
ProcessDies(p) ==
  /\ \E s \in Starts : call[s].process = p /\ at[s] \notin {"cancelled"}
  /\ at' = [s \in Starts |-> IF call[s].process = p THEN "cancelled" ELSE at[s]]
  /\ lock' = [k \in DOMAIN lock |-> IF k[1] = p THEN NoStart ELSE lock[k]]
  /\ job' = {s \in job : call[s].process # p}
  /\ faults' = faults \cup {"abandoned"}
  /\ UNCHANGED <<call, polls, handle, serverVars>>

-----------------------------------------------------------------------------
(* The servers                                                             *)

\* A server that finds the port taken exits.
Binds(s) ==
  /\ serving[s] = "booting"
  /\ IF owner = "free"
       THEN serving' = [serving EXCEPT ![s] = "up"] /\ owner' = s
       ELSE serving' = [serving EXCEPT ![s] = "gone"] /\ UNCHANGED owner
  /\ UNCHANGED <<callVars, leader, signalled, log, faults>>

\* It ends: on SIGTERM, or by itself.
ServerEnds(s) ==
  /\ serving[s] \in {"booting", "up"}
  /\ serving' = [serving EXCEPT ![s] = "gone"]
  /\ owner' = IF owner = s THEN "free" ELSE owner
  /\ UNCHANGED <<callVars, leader, signalled, log, faults>>

\* The leader of the group ends after the server, or, signalled, before it: the
\* server that listens may be another process of the group.
LeaderExits(s) ==
  /\ leader[s] = "alive"
  /\ serving[s] = "gone" \/ (serving[s] = "up" /\ s \in signalled)
  /\ leader' = [leader EXCEPT ![s] = "exited"]
  /\ UNCHANGED <<callVars, serving, owner, signalled, log, faults>>

\* What listened before ends.
OtherListenerEnds == /\ owner \in {"foreign", "external"}
                     /\ owner' = "free"
                     /\ UNCHANGED <<callVars, leader, serving, signalled, log, faults>>

LogFills == /\ log = "ready"
            /\ \E s \in Starts : serving[s] = "up" /\ Mode(s) = "Daemon"
            /\ log' = "full"
            /\ UNCHANGED <<callVars, leader, serving, owner, signalled, faults>>

-----------------------------------------------------------------------------
CallStep(s) == \/ ProbeExisting(s)
               \/ Acquire(s)
               \/ SpawnDaemon(s)
               \/ JobSpawns(s)
               \/ JobFails(s)
               \/ SpawnOwned(s)
               \/ CheckChild(s)
               \/ ProbeReady(s)
               \/ ShutdownPolls(s)
               \/ ShutdownKills(s)
               \/ ShutdownConfirms(s)

ServerStep(s) == Binds(s) \/ ServerEnds(s) \/ LeaderExits(s)

Next == \/ \E s \in Starts : \/ Begin(s)
                             \/ CallStep(s)
                             \/ ShutdownShared(s)
                             \/ ShutdownOwned(s)
                             \/ ShutdownInterrupted(s)
                             \/ DropHandle(s)
                             \/ Cancel(s)
                             \/ ServerStep(s)
        \/ \E p \in Processes : ProcessDies(p)
        \/ OtherListenerEnds
        \/ LogFills

Spec == Init /\ [][Next]_vars

\* The runtime polls the calls it runs.
FairSpec == Spec /\ \A s \in Starts : WF_vars(CallStep(s))

-----------------------------------------------------------------------------
Points == {"idle", "probing", "locking", "reprobing", "spawning", "spawned",
           "waiting", "readying", "held", "stopping", "closing", "closed",
           "unreleased", "interrupted", "presumed", "dropped", "returned", "failed",
           "cancelled"}

TypeOK == /\ call \in [Starts -> Calls]
          /\ at \in [Starts -> Points]
          /\ lock \in [Processes \X Keys -> Starts \cup {NoStart}]
          /\ polls \in [Starts -> 0..(Polls + Attempts)]
          /\ job \subseteq Starts
          /\ handle \in [Starts -> {"none", "reused", "daemon", "owned", "emptied"}]
          /\ leader \in [Starts -> {"none", "alive", "exited", "reaped"}]
          /\ serving \in [Starts -> {"none", "booting", "up", "gone"}]
          /\ owner \in Starts \cup {"free", "foreign", "external"}
          /\ \A s \in Starts : owner = s <=> serving[s] = "up"
          /\ signalled \subseteq Starts
          /\ log \in {"ready", "full", "refused"}

Running(s) == serving[s] \in {"booting", "up"}

\* Two starts of one process for one listen target are never between the second
\* probe and readiness at the same time, however their URLs write the host.
OneStarter ==
  \A s, u \in Starts : at[s] \in Locked /\ at[u] \in Locked /\ LockOf(s) = LockOf(u) => s = u

\* One process runs at most one server of a target, unless a probe was slow, a
\* start timed out or met a conflict, a call was dropped, or a start took the
\* answer of another process's server for its own's: that one may still be booting
\* when the other ends and the next start finds nothing.
NoDuplicate ==
  \A s, u \in Starts : s # u /\ call[s].process = call[u].process /\ Running(s) /\ Running(u)
    => faults # {}

\* A server is sent SIGTERM only by the handle that owns it: daemons and servers
\* that were there before survive every handle.
OnlyOwnedStopped ==
  \A s \in signalled : Mode(s) = "Blocking" /\ handle[s] \in {"owned", "emptied"}

\* A server the SDK should own is left running without a handle, unsignalled,
\* only if its start timed out, met a conflict or was dropped.
OrphansHaveACause ==
  \A s \in Starts : Running(s) /\ Mode(s) = "Blocking" /\ s \notin signalled
                      /\ at[s] \notin {"waiting", "readying", "held"}
    => "abandoned" \in faults

\* When the shutdown() that took the child returned, or a later one after it, the
\* child was reaped, and if no probe was slow nothing of its group listens. When it
\* was dropped or could not wait, the group has been told to stop and no more: one
\* called again then returns Ok ("presumed") whatever became of the server.
ShutdownStops ==
  \A s \in Starts : handle[s] = "emptied" =>
    /\ s \in signalled
    /\ at[s] \in {"closed", "unreleased"}
         => leader[s] = "reaped" /\ ("slow" \notin faults => serving[s] # "up")

\* A start that succeeds found an app server answering in that very step.
ReadyMeansAnswered ==
  [][\A s \in Starts : handle[s] = "none" /\ handle'[s] # "none"
       => owner \notin {"free", "foreign"}]_vars

Busy == Locked \cup {"probing", "locking", "stopping", "closing"}

\* Every start and every shutdown returns, whatever the servers do.
EveryCallReturns == \A s \in Starts : at[s] \in Busy ~> at[s] \notin Busy
=============================================================================
