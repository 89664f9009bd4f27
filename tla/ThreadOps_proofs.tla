--------------------------- MODULE ThreadOps_proofs ---------------------------
(***************************************************************************)
(* Proofs about ThreadOps: for any objects, ways to make them, requests    *)
(* and bounds, which thread and turn a call names, what an object starts   *)
(* and what it announces.                                                  *)
(***************************************************************************)
EXTENDS ThreadOps, NumberFacts, TLAPS

\* The variables have their types, and threads and starters agree.
Globals ==
  /\ made \in [Objects -> Made]
  /\ id \in [Objects -> 0..threads]
  /\ pending_resume \in [Objects -> {None, "latest", "by id"}]
  /\ last_turn_id \in [Objects -> 0..Len(turns)]
  /\ call = [o \in Objects |-> call[o]]
  /\ calls \in 0..MaxCalls
  /\ threads \in Recorded..MaxThreads
  /\ starter \in Seq(Objects) /\ Len(starter) = threads - Recorded
  /\ loaded \subseteq Objects \X (1..threads)
  /\ turns \in Seq(1..threads)
  /\ lost \subseteq Objects
  /\ announced \in [Objects -> Seq(Nat)]
  /\ answered \in [Objects -> Nat]

\* A record with the fields of a call.
IsCall(c) == c = [at |-> c.at, asked |-> c.asked, pages |-> c.pages, listed |-> c.listed,
                  thread |-> c.thread, turn |-> c.turn, reply |-> c.reply, emit |-> c.emit]

\* The call of an object is one.
Formed(o) ==
  /\ IsCall(call[o])
  /\ At(o) \in Points
  /\ At(o) # "idle" => Asked(o) \in Requests
  /\ call[o].pages \in 0..MaxPages
  /\ call[o].emit \in 0..threads

\* An object that has nothing left to resume has a thread the server loaded for it,
\* or is a new one; a request goes to that thread.
Attached(o) ==
  /\ pending_resume[o] = None /\ id[o] # NoThread => <<o, id[o]>> \in loaded
  /\ pending_resume[o] = None /\ id[o] = NoThread => made[o].target = "new"
  /\ At(o) = "resumed" => <<o, call[o].reply>> \in loaded
  /\ At(o) \in {"calling", "accepted"} => /\ pending_resume[o] = None
                                          /\ id[o] # NoThread
                                          /\ call[o].thread = id[o]

\* o started the i-th of the threads that were not recorded before.
StartedBy(i, o) == i \in 1..Len(starter) /\ starter[i] = o

\* Only an object without a thread starts one, and it then has it or gave up on it.
StartsOnce(o) ==
  /\ At(o) \in {"starting", "started"} => pending_resume[o] = None /\ id[o] = NoThread
  /\ (\E i \in 1..Len(starter) : starter[i] = o) =>
       o \in lost \/ At(o) = "started" \/ id[o] # NoThread
  /\ At(o) = "started" => /\ call[o].reply \in 1..threads
                          /\ StartedBy(call[o].reply - Recorded, o)
                          /\ <<o, call[o].reply>> \in loaded

\* What a call is about to announce was started by its object, which announced nothing yet.
Proclaims(o) ==
  /\ announced[o] # <<>> => id[o] # NoThread /\ call[o].emit = NoThread
  /\ call[o].emit # NoThread => StartedBy(call[o].emit - Recorded, o)
  /\ Len(announced[o]) <= 1
  /\ \A i \in 1..Len(announced[o]) : StartedBy(announced[o][i] - Recorded, o)

\* The turn remembered is the last one answered and one of the object's thread; a steer
\* that named none has that one.
Steers(o) ==
  /\ last_turn_id[o] # NoTurn => /\ answered[o] = last_turn_id[o]
                                 /\ turns[last_turn_id[o]] = id[o]
  /\ At(o) = "calling" /\ Asked(o).kind = "steer" /\ Asked(o).turn = NoTurn =>
       call[o].turn = last_turn_id[o] /\ last_turn_id[o] # NoTurn
  /\ At(o) = "accepted" /\ Asked(o).kind = "run" =>
       call[o].reply \in 1..Len(turns) /\ turns[call[o].reply] = id[o]

Fits(o) == Formed(o) /\ Attached(o) /\ StartsOnce(o) /\ Proclaims(o) /\ Steers(o)

\* Who started a thread was made to, and started another only if it lost one.
Origins ==
  /\ \A i \in 1..Len(starter) : made[starter[i]].target = "new"
  /\ \A i, j \in 1..Len(starter) : i # j /\ starter[i] = starter[j] => starter[i] \in lost

Inv == Globals /\ Origins /\ \A o \in Objects : Fits(o)

-----------------------------------------------------------------------------
\* What an action of one object leaves of the others, and how the history grows.
Keeps(p) ==
  /\ made' = made
  /\ call'[p] = call[p] /\ id'[p] = id[p] /\ pending_resume'[p] = pending_resume[p]
  /\ last_turn_id'[p] = last_turn_id[p] /\ announced'[p] = announced[p]
  /\ answered'[p] = answered[p]
  /\ p \in lost => p \in lost'
  /\ loaded \subseteq loaded'
  /\ \/ starter' = starter /\ threads' = threads
     \/ /\ threads' = threads + 1
        /\ \E q \in Objects \ {p} : starter' = Append(starter, q)
  /\ turns' = turns \/ \E t \in 1..threads : turns' = Append(turns, t)

\* An object is not disturbed by what the others do.
LEMMA OthersKeep ==
  ASSUME NEW p \in Objects, Globals, Fits(p), Keeps(p)
  PROVE  Fits(p)'
<1>0. Recorded \in Nat /\ MaxThreads \in Nat
  BY BoundAssumption
<1>1. /\ threads \in Nat /\ threads' \in Nat /\ threads <= threads'
      /\ starter \in Seq(Objects) /\ turns \in Seq(1..threads)
  <2>1. threads \in Recorded..MaxThreads /\ starter \in Seq(Objects) /\ turns \in Seq(1..threads)
    BY DEF Globals
  <2>2. threads' = threads \/ threads' = threads + 1
    BY DEF Keeps
  <2> QED BY <1>0, <2>1, <2>2
<1>2. /\ Len(starter') \in Nat /\ Len(starter) \in Nat
      /\ Len(starter) <= Len(starter')
      /\ \A i \in 1..Len(starter) : starter'[i] = starter[i]
      /\ \A i \in 1..Len(starter') : starter'[i] = p => i \in 1..Len(starter)
  <2>1. CASE starter' = starter
    BY <1>1, <2>1
  <2>2. CASE \E q \in Objects \ {p} : starter' = Append(starter, q)
    BY <1>1, <2>2
  <2> QED BY <2>1, <2>2 DEF Keeps
<1>3. /\ Len(turns') \in Nat /\ Len(turns) \in Nat
      /\ Len(turns) <= Len(turns')
      /\ \A i \in 1..Len(turns) : turns'[i] = turns[i]
  <2>1. CASE turns' = turns
    BY <1>1, <2>1
  <2>2. CASE \E t \in 1..threads : turns' = Append(turns, t)
    BY <1>1, <2>2
  <2> QED BY <2>1, <2>2 DEF Keeps
<1>4. \A i : i \in 1..Len(starter) /\ starter[i] = p => i \in 1..Len(starter') /\ starter'[i] = p
  BY <1>2
<1>5. Formed(p)'
  BY <1>1 DEF Fits, Formed, IsCall, Keeps, At, Asked
<1>6. Attached(p)'
  BY DEF Fits, Attached, Keeps, At
<1>7. StartsOnce(p)'
  <2>1. /\ StartsOnce(p) /\ call'[p] = call[p] /\ id'[p] = id[p]
        /\ pending_resume'[p] = pending_resume[p]
        /\ loaded \subseteq loaded' /\ (p \in lost => p \in lost')
    BY DEF Fits, Keeps
  <2>2. (\E i \in 1..Len(starter') : starter'[i] = p) => \E i \in 1..Len(starter) : starter[i] = p
    BY <1>2
  <2>3. At(p) = "started" => /\ call[p].reply \in 1..threads'
                             /\ StartedBy(call[p].reply - Recorded, p)'
                             /\ <<p, call[p].reply>> \in loaded'
    <3> DEFINE k == call[p].reply - Recorded
    <3>1. At(p) = "started" => /\ k \in 1..Len(starter) /\ starter[k] = p
                               /\ call[p].reply \in 1..threads
                               /\ <<p, call[p].reply>> \in loaded
      BY <2>1 DEF StartsOnce, StartedBy
    <3>2. k' = k
      BY <2>1
    <3> HIDE DEF k
    <3>3. At(p) = "started" => k \in 1..Len(starter') /\ starter'[k] = p
      BY <1>4, <3>1
    <3> QED BY <1>1, <2>1, <3>1, <3>2, <3>3 DEF k, StartedBy
  <2> QED BY <2>1, <2>2, <2>3 DEF StartsOnce, At
<1>8. Proclaims(p)'
  <2>1. Proclaims(p) /\ announced'[p] = announced[p] /\ id'[p] = id[p] /\ call'[p] = call[p]
    BY DEF Fits, Keeps
  <2>2. ASSUME NEW i \in 1..Len(announced[p]) PROVE StartedBy(announced[p][i] - Recorded, p)'
    <3> DEFINE k == announced[p][i] - Recorded
    <3>1. k \in 1..Len(starter) /\ starter[k] = p
      BY <2>1 DEF Proclaims, StartedBy
    <3> HIDE DEF k
    <3>2. k \in 1..Len(starter') /\ starter'[k] = p
      BY <1>4, <3>1
    <3> QED BY <2>1, <3>2 DEF k, StartedBy
  <2>3. call[p].emit # NoThread => StartedBy(call[p].emit - Recorded, p)'
    <3> DEFINE k == call[p].emit - Recorded
    <3>1. call[p].emit # NoThread => k \in 1..Len(starter) /\ starter[k] = p
      BY <2>1 DEF Proclaims, StartedBy
    <3> HIDE DEF k
    <3>2. call[p].emit # NoThread => k \in 1..Len(starter') /\ starter'[k] = p
      BY <1>4, <3>1
    <3> QED BY <2>1, <3>2 DEF k, StartedBy
  <2> QED BY <2>1, <2>2, <2>3 DEF Proclaims, StartedBy
<1>9. Steers(p)'
  <2>1. last_turn_id[p] \in 0..Len(turns)
    BY DEF Globals
  <2>2. /\ call'[p] = call[p] /\ id'[p] = id[p] /\ last_turn_id'[p] = last_turn_id[p]
        /\ answered'[p] = answered[p]
    BY DEF Keeps
  <2>3. last_turn_id[p] # NoTurn => turns'[last_turn_id[p]] = turns[last_turn_id[p]]
    BY <1>3, <2>1 DEF NoTurn
  <2>4. Steers(p)
    BY DEF Fits
  <2> HIDE DEF NoTurn
  <2> QED BY <1>3, <2>2, <2>3, <2>4 DEF Steers, At, Asked
<1> QED BY <1>5, <1>6, <1>7, <1>8, <1>9 DEF Fits

-----------------------------------------------------------------------------
\* Only o's call moved, and it is c now.
Moved(o, c) == /\ call' = [p \in Objects |-> call'[p]]
               /\ call'[o] = c
               /\ \A p \in Objects \ {o} : call'[p] = call[p]

\* The bounds are numbers, and the threads stay within theirs.
LEMMA Bounds ==
  /\ Recorded \in Nat /\ MaxThreads \in Nat /\ MaxPages \in Nat /\ MaxCalls \in Nat
  /\ Globals => threads \in Nat /\ threads \in Recorded..MaxThreads
<1>1. /\ Recorded \in Nat /\ MaxThreads \in Nat /\ MaxPages \in Nat /\ MaxCalls \in Nat
  BY BoundAssumption
<1>2. Globals => threads \in Recorded..MaxThreads
  BY DEF Globals
<1> QED BY <1>1, <1>2

\* Advance gives the object its new call and leaves the others theirs.
LEMMA AdvanceMoves ==
  ASSUME Globals, NEW o \in Objects, NEW c, Advance(o, c)
  PROVE  Moved(o, c)
<1>1. call = [p \in Objects |-> call[p]]
  BY DEF Globals
<1> QED BY <1>1 DEF Advance, Moved

\* Idle is a call that is over.
LEMMA IdleIsCall ==
  /\ IsCall(Idle) /\ Idle.at = "idle" /\ Idle.pages = 0 /\ Idle.emit = NoThread
BY DEF IsCall, Idle

\* Goto moves the call to another point and keeps what it knows.
LEMMA GotoMoves ==
  ASSUME Globals, NEW o \in Objects, Formed(o), NEW p \in Points \ {"idle"}, Goto(o, p)
  PROVE  /\ Moved(o, call'[o]) /\ IsCall(call'[o])
         /\ call'[o].at = p /\ call'[o].asked = call[o].asked /\ call'[o].pages = call[o].pages
         /\ call'[o].emit = call[o].emit /\ call'[o].thread = call[o].thread
         /\ call'[o].reply = call[o].reply /\ call'[o].turn = call[o].turn
<1>1. Moved(o, [call[o] EXCEPT !.at = p])
  BY AdvanceMoves DEF Goto
<1>2. IsCall(call[o])
  BY DEF Formed, IsCall
<1> QED BY <1>1, <1>2 DEF Moved, IsCall

\* Going idle drops the call.
LEMMA GotoIdle ==
  ASSUME Globals, NEW o \in Objects, Goto(o, "idle")
  PROVE  Moved(o, Idle)
BY AdvanceMoves DEF Goto

\* Proceed ends the call, or makes the request of the thread it was given.
LEMMA ProceedMoves ==
  ASSUME Globals, NEW o \in Objects, Formed(o), At(o) # "idle",
         NEW thread, NEW last, NEW emit, Proceed(o, thread, last, emit)
  PROVE  /\ Moved(o, call'[o]) /\ IsCall(call'[o])
         /\ call'[o].pages = 0
         /\ \/ call'[o] = Idle
            \/ /\ call'[o].at = "calling" /\ call'[o].asked = Asked(o)
               /\ call'[o].thread = thread /\ call'[o].emit = emit
               /\ Asked(o).kind = "steer" /\ Asked(o).turn = NoTurn
                    => call'[o].turn = last /\ last # NoTurn
<1> DEFINE turn == IF Asked(o).kind = "steer" /\ Asked(o).turn = NoTurn THEN last ELSE Asked(o).turn
<1>1. CASE Asked(o).kind = "steer" /\ turn = NoTurn
  <2>1. Moved(o, Idle)
    BY <1>1, GotoIdle DEF Proceed
  <2> QED BY <2>1, IdleIsCall DEF Moved
<1>2. CASE ~(Asked(o).kind = "steer" /\ turn = NoTurn)
  <2>1. Moved(o, [Idle EXCEPT !.at = "calling", !.asked = Asked(o), !.thread = thread,
                              !.turn = turn, !.emit = emit])
    BY <1>2, AdvanceMoves DEF Proceed
  <2> QED BY <1>2, <2>1 DEF Moved, IsCall, Idle
<1> QED BY <1>1, <1>2

\* A step of one object keeps the invariant if it keeps the object's part.
LEMMA StepKeeps ==
  ASSUME Inv, NEW o \in Objects, Globals', Origins', Fits(o)',
         \A p \in Objects \ {o} : Keeps(p)
  PROVE  Inv'
<1>1. ASSUME NEW p \in Objects PROVE Fits(p)'
  BY <1>1, OthersKeep DEF Inv
<1> QED BY <1>1 DEF Inv

\* A step that changes only o's call, and may give up on a start, keeps the rest.
LEMMA QuietStep ==
  ASSUME Inv, NEW o \in Objects, Moved(o, call'[o]), Fits(o)',
         UNCHANGED <<objectVars, serverVars, announced, answered>>, calls' \in 0..MaxCalls,
         lost \subseteq lost', lost' \subseteq lost \cup {o}
  PROVE  Inv'
<1> USE DEF objectVars, serverVars
<1>1. Globals'
  BY DEF Inv, Globals, Moved
<1>2. Origins'
  BY DEF Inv, Origins
<1>3. \A p \in Objects \ {o} : Keeps(p)
  BY DEF Keeps, Moved
<1> QED BY <1>1, <1>2, <1>3, StepKeeps
-----------------------------------------------------------------------------
\* An object whose call is over fits if what it leaves does.
LEMMA IdleFits ==
  ASSUME Inv, NEW o \in Objects, Moved(o, Idle),
         UNCHANGED <<objectVars, serverVars, announced, answered>>,
         At(o) = "started" => o \in lost', lost \subseteq lost'
  PROVE  Fits(o)'
<1> USE DEF objectVars, serverVars
<1>1. call'[o] = Idle /\ Fits(o)
  BY DEF Moved, Inv
<1>2. MaxPages \in Nat /\ threads \in Nat
  BY Bounds DEF Inv
<1>3. Formed(o)'
  BY <1>1, <1>2, IdleIsCall DEF Formed, At, Asked, Points, IsCall, NoThread
<1>4. Attached(o)'
  BY <1>1, IdleIsCall DEF Fits, Attached, At
<1>5. StartsOnce(o)'
  BY <1>1, IdleIsCall DEF Fits, StartsOnce, At
<1>6. Proclaims(o)'
  <2>1. /\ Proclaims(o) /\ announced'[o] = announced[o] /\ starter' = starter
        /\ id'[o] = id[o] /\ call'[o].emit = NoThread
    BY <1>1, IdleIsCall DEF Fits
  <2> QED BY <2>1 DEF Proclaims, StartedBy
<1>7. Steers(o)'
  BY <1>1, IdleIsCall DEF Fits, Steers, At
<1> QED BY <1>3, <1>4, <1>5, <1>6, <1>7 DEF Fits

\* A call that ends keeps the invariant, if a start that was given up is recorded.
LEMMA EndKeeps ==
  ASSUME Inv, NEW o \in Objects, Goto(o, "idle"), At(o) # "started" \/ lost' = lost \cup {o},
         UNCHANGED <<objectVars, calls, serverVars, announced, answered>>,
         lost' = lost \/ lost' = lost \cup {o}
  PROVE  Inv'
<1>1. Globals /\ calls \in 0..MaxCalls
  BY DEF Inv, Globals
<1>2. Moved(o, Idle)
  BY <1>1, GotoIdle
<1>3. Moved(o, call'[o])
  BY <1>2 DEF Moved
<1>4. Fits(o)'
  BY <1>2, IdleFits
<1> QED BY <1>1, <1>3, <1>4, QuietStep

\* A call that goes on to ask for something else, its object unchanged.
LEMMA GoesOn ==
  ASSUME Inv, NEW o \in Objects, Moved(o, call'[o]), IsCall(call'[o]),
         UNCHANGED <<objectVars, serverVars, history>>, calls' \in 0..MaxCalls,
         call'[o].at \in {"initializing", "listing", "resuming", "starting", "calling"},
         call'[o].asked \in Requests, call'[o].pages \in 0..MaxPages,
         call'[o].emit \in {NoThread, call[o].emit}, At(o) # "started",
         call'[o].at = "starting" => pending_resume[o] = None /\ id[o] = NoThread,
         call'[o].at = "calling" => /\ pending_resume[o] = None /\ id[o] # NoThread
                                   /\ call'[o].thread = id[o],
         call'[o].at = "calling" /\ call'[o].asked.kind = "steer" /\ call'[o].asked.turn = NoTurn
           => call'[o].turn = last_turn_id[o] /\ last_turn_id[o] # NoTurn
  PROVE  Inv'
<1> USE DEF objectVars, serverVars, history
<1>1. Fits(o)
  BY DEF Inv
<1>2. threads \in Nat /\ Formed(o)
  BY Bounds DEF Inv, Fits
<1>3. Formed(o)'
  BY <1>2 DEF Formed, At, Asked, Points, IsCall, NoThread
<1>4. Attached(o)'
  BY <1>1 DEF Fits, Attached, At
<1>5. StartsOnce(o)'
  BY <1>1 DEF Fits, StartsOnce, At
<1>6. Proclaims(o)'
  <2>1. /\ Proclaims(o) /\ announced'[o] = announced[o] /\ starter' = starter
        /\ id'[o] = id[o] /\ call'[o].emit \in {NoThread, call[o].emit}
    BY <1>1 DEF Fits
  <2> QED BY <2>1 DEF Proclaims, StartedBy
<1>7. Steers(o)'
  BY <1>1 DEF Fits, Steers, At, Asked
<1>8. Fits(o)'
  BY <1>3, <1>4, <1>5, <1>6, <1>7 DEF Fits
<1>9. /\ UNCHANGED <<objectVars, serverVars, announced, answered>>
      /\ lost \subseteq lost' /\ lost' \subseteq lost \cup {o}
  OBVIOUS
<1> QED BY <1>8, <1>9, QuietStep

-----------------------------------------------------------------------------
\* Call: the object begins with ensure_initialized.
LEMMA CallKeeps ==
  ASSUME Inv, NEW o \in Objects, NEW c \in Requests, Call(o, c)
  PROVE  Inv'
<1>1. Globals /\ MaxPages \in Nat
  BY Bounds DEF Inv
<1>2. calls' \in 0..MaxCalls
  <2>1. calls \in 0..MaxCalls /\ MaxCalls \in Nat
    BY <1>1, Bounds DEF Globals
  <2>2. calls' = calls + 1 /\ calls < MaxCalls
    BY DEF Call
  <2> QED BY <2>1, <2>2
<1>3. Moved(o, [Idle EXCEPT !.at = "initializing", !.asked = c])
  BY <1>1, AdvanceMoves DEF Call
<1>4. /\ Moved(o, call'[o]) /\ IsCall(call'[o]) /\ call'[o].at = "initializing"
      /\ call'[o].asked = c /\ call'[o].pages = 0 /\ call'[o].emit = NoThread
  BY <1>3 DEF Moved, Idle, IsCall
<1>5. At(o) # "started"
  BY DEF Call
<1>6. UNCHANGED <<objectVars, serverVars, history>>
  BY DEF Call
<1> HIDE DEF NoThread
<1> QED BY <1>1, <1>2, <1>4, <1>5, <1>6, GoesOn

\* What a call that is under way may rely on.
LEMMA UnderWay ==
  ASSUME Inv, NEW o \in Objects, At(o) # "idle"
  PROVE  /\ Globals /\ Fits(o) /\ Formed(o) /\ IsCall(call[o]) /\ calls \in 0..MaxCalls
         /\ Asked(o) \in Requests /\ call[o].asked \in Requests
         /\ call[o].pages \in 0..MaxPages /\ call[o].emit \in 0..threads
         /\ MaxPages \in Nat /\ threads \in Nat
         /\ pending_resume[o] \in {None, "latest", "by id"} /\ id[o] \in 0..threads
         /\ last_turn_id[o] \in 0..Len(turns)
BY Bounds DEF Inv, Globals, Fits, Formed, Asked

\* Resume: the call asks to resume the thread chosen.
LEMMA ResumeMoves ==
  ASSUME Globals, NEW o \in Objects, Formed(o), NEW thread, NEW listed, Resume(o, thread, listed)
  PROVE  /\ Moved(o, call'[o]) /\ IsCall(call'[o]) /\ call'[o].at = "resuming"
         /\ call'[o].asked = call[o].asked /\ call'[o].pages = call[o].pages
         /\ call'[o].emit = call[o].emit
<1>1. Moved(o, [call[o] EXCEPT !.at = "resuming", !.thread = thread, !.listed = listed])
  BY AdvanceMoves DEF Resume
<1>2. IsCall(call[o])
  BY DEF Formed
<1> QED BY <1>1, <1>2 DEF Moved, IsCall

\* Initialized: ensure_thread_started_or_resumed decides.
LEMMA InitializedKeeps ==
  ASSUME Inv, NEW o \in Objects, Initialized(o)
  PROVE  Inv'
<1>1. /\ At(o) = "initializing" /\ Ensure(o) /\ calls' = calls
      /\ UNCHANGED <<objectVars, serverVars, history>>
  BY DEF Initialized
<1>2. /\ Globals /\ Fits(o) /\ Formed(o) /\ IsCall(call[o]) /\ calls \in 0..MaxCalls
      /\ Asked(o) \in Requests /\ call[o].asked \in Requests
      /\ call[o].pages \in 0..MaxPages /\ MaxPages \in Nat
      /\ pending_resume[o] \in {None, "latest", "by id"}
  BY <1>1, UnderWay
<1>3. CASE pending_resume[o] = "latest"
  <2>1. Goto(o, "listing")
    BY <1>1, <1>3 DEF Ensure
  <2>2. "listing" \in Points \ {"idle"}
    BY DEF Points
  <2> QED BY <1>1, <1>2, <2>1, <2>2, GotoMoves, GoesOn
<1>4. CASE pending_resume[o] = "by id"
  <2>1. Resume(o, id[o], <<>>)
    BY <1>1, <1>4 DEF Ensure
  <2> QED BY <1>1, <1>2, <2>1, ResumeMoves, GoesOn
<1>5. CASE pending_resume[o] = None /\ id[o] = NoThread
  <2>1. Goto(o, "starting")
    BY <1>1, <1>5 DEF Ensure, None
  <2>2. "starting" \in Points \ {"idle"}
    BY DEF Points
  <2> QED BY <1>1, <1>2, <1>5, <2>1, <2>2, GotoMoves, GoesOn
<1>6. CASE pending_resume[o] = None /\ id[o] # NoThread
  <2>1. Proceed(o, id[o], last_turn_id[o], NoThread)
    BY <1>1, <1>6 DEF Ensure, None
  <2>2. CASE call'[o] = Idle
    <3>1. Moved(o, Idle)
      BY <1>1, <1>2, <2>1, <2>2, ProceedMoves
    <3>2. Fits(o)'
      BY <1>1, <3>1, IdleFits DEF history
    <3> QED BY <1>1, <1>2, <2>2, <3>1, <3>2, QuietStep DEF history
  <2>3. CASE call'[o] # Idle
    BY <1>1, <1>2, <1>6, <2>1, <2>3, ProceedMoves, GoesOn DEF Asked
  <2> QED BY <2>2, <2>3
<1> QED BY <1>2, <1>3, <1>4, <1>5, <1>6

\* ListPage: another page, the thread to resume, or an error.
LEMMA ListPageKeeps ==
  ASSUME Inv, NEW o \in Objects, ListPage(o)
  PROVE  Inv'
<1>1. At(o) = "listing" /\ calls' = calls /\ UNCHANGED <<objectVars, serverVars, history>>
  BY DEF ListPage
<1>2. /\ Globals /\ Formed(o) /\ IsCall(call[o]) /\ calls \in 0..MaxCalls
      /\ call[o].asked \in Requests /\ call[o].pages \in 0..MaxPages /\ MaxPages \in Nat
  BY <1>1, UnderWay
<1>3. CASE Goto(o, "idle")
  BY <1>1, <1>3, EndKeeps DEF history
<1>4. ASSUME NEW listed, call[o].pages < MaxPages,
             Advance(o, [call[o] EXCEPT !.pages = @ + 1, !.listed = listed])
      PROVE  Inv'
  <2>1. Moved(o, [call[o] EXCEPT !.pages = @ + 1, !.listed = listed])
    BY <1>2, <1>4, AdvanceMoves
  <2>2. call[o].pages + 1 \in 0..MaxPages
    BY <1>2, <1>4
  <2>3. /\ Moved(o, call'[o]) /\ IsCall(call'[o]) /\ call'[o].at = call[o].at
        /\ call'[o].asked = call[o].asked /\ call'[o].pages = call[o].pages + 1
        /\ call'[o].emit = call[o].emit
    BY <1>2, <2>1 DEF Moved, IsCall
  <2>4. call'[o].at = "listing"
    BY <1>1, <2>3 DEF At
  <2> QED BY <1>1, <1>2, <2>2, <2>3, <2>4, GoesOn
<1>5. ASSUME NEW thread, NEW listed, Resume(o, thread, listed)
      PROVE  Inv'
  BY <1>1, <1>2, <1>5, ResumeMoves, GoesOn
<1>6. \/ Goto(o, "idle")
      \/ \E listed : /\ call[o].pages < MaxPages
                     /\ Advance(o, [call[o] EXCEPT !.pages = @ + 1, !.listed = listed])
      \/ \E thread, listed : Resume(o, thread, listed)
  BY DEF ListPage
<1> QED BY <1>3, <1>4, <1>5, <1>6

\* Refused and GiveUp end the call.
LEMMA RefusedKeeps ==
  ASSUME Inv, NEW o \in Objects, Refused(o)
  PROVE  Inv'
<1>1. /\ Goto(o, "idle") /\ At(o) # "started"
      /\ UNCHANGED <<objectVars, calls, serverVars, history>>
  BY DEF Refused, Refusable
<1> QED BY <1>1, EndKeeps DEF history

\* GiveUp: a start that was accepted may be lost.
LEMMA GiveUpKeeps ==
  ASSUME Inv, NEW o \in Objects, GiveUp(o)
  PROVE  Inv'
BY EndKeeps DEF GiveUp

-----------------------------------------------------------------------------
\* ServerResumes: the object now has the thread loaded.
LEMMA ServerResumesKeeps ==
  ASSUME Inv, NEW o \in Objects, ServerResumes(o)
  PROVE  Inv'
<1> DEFINE t == call[o].thread
<1>1. /\ At(o) = "resuming" /\ t \in 1..threads /\ loaded' = loaded \cup {<<o, t>>}
      /\ UNCHANGED <<objectVars, calls, threads, starter, turns, history>>
      /\ Advance(o, [call[o] EXCEPT !.at = "resumed", !.reply = t, !.listed = <<>>, !.pages = 0])
  BY DEF ServerResumes
<1>2. /\ Globals /\ Fits(o) /\ Formed(o) /\ IsCall(call[o]) /\ MaxPages \in Nat
      /\ Asked(o) \in Requests
  BY <1>1, UnderWay
<1>3. Moved(o, [call[o] EXCEPT !.at = "resumed", !.reply = t, !.listed = <<>>, !.pages = 0])
  BY <1>1, <1>2, AdvanceMoves
<1>4. /\ Moved(o, call'[o]) /\ IsCall(call'[o]) /\ call'[o].at = "resumed"
      /\ call'[o].asked = call[o].asked /\ call'[o].pages = 0 /\ call'[o].reply = t
      /\ call'[o].emit = call[o].emit
  BY <1>2, <1>3 DEF Moved, IsCall
<1> USE DEF objectVars, history
<1> HIDE DEF t
<1>5. Globals'
  <2>1. loaded' \subseteq Objects \X (1..threads)
    <3>1. loaded \subseteq Objects \X (1..threads)
      BY <1>2 DEF Globals
    <3>2. <<o, t>> \in Objects \X (1..threads)
      BY <1>1
    <3>3. loaded' = loaded \cup {<<o, t>>}
      BY <1>1
    <3> QED BY <3>1, <3>2, <3>3
  <2>2. call' = [p \in Objects |-> call'[p]]
    BY <1>4 DEF Moved
  <2> QED BY <1>1, <1>2, <2>1, <2>2 DEF Globals
<1>6. Origins'
  BY <1>1 DEF Inv, Origins
<1>7. \A p \in Objects \ {o} : Keeps(p)
  BY <1>1, <1>4 DEF Keeps, Moved
<1>8. Formed(o)'
  BY <1>1, <1>2, <1>4 DEF Formed, At, Asked, Points
<1>9. Attached(o)'
  BY <1>1, <1>2, <1>4 DEF Fits, Attached, At
<1>10. StartsOnce(o)'
  BY <1>1, <1>2, <1>4 DEF Fits, StartsOnce, At
<1>11. Proclaims(o)'
  <2>1. /\ Proclaims(o) /\ announced'[o] = announced[o] /\ starter' = starter
        /\ id'[o] = id[o] /\ call'[o].emit = call[o].emit
    BY <1>1, <1>2, <1>4 DEF Fits
  <2> QED BY <2>1 DEF Proclaims, StartedBy
<1>12. Steers(o)'
  BY <1>1, <1>2, <1>4 DEF Fits, Steers, At, Asked
<1> QED BY <1>5, <1>6, <1>7, <1>8, <1>9, <1>10, <1>11, <1>12, StepKeeps DEF Fits

\* Resumed: the object has its thread, and remembers no turn.
LEMMA ResumedKeeps ==
  ASSUME Inv, NEW o \in Objects, Resumed(o)
  PROVE  Inv'
<1> DEFINE t == call[o].reply
<1>1. /\ At(o) = "resumed" /\ Proceed(o, t, NoTurn, NoThread)
      /\ id' = [id EXCEPT ![o] = t]
      /\ pending_resume' = [pending_resume EXCEPT ![o] = None]
      /\ last_turn_id' = [last_turn_id EXCEPT ![o] = NoTurn]
      /\ UNCHANGED <<made, calls, serverVars, history>>
  BY DEF Resumed
<1>2. /\ Globals /\ Fits(o) /\ Formed(o) /\ Asked(o) \in Requests /\ MaxPages \in Nat
      /\ threads \in Nat
  BY <1>1, UnderWay
<1>3. <<o, t>> \in loaded
  BY <1>1, <1>2 DEF Fits, Attached
<1>4. t \in 1..threads
  BY <1>2, <1>3 DEF Globals
<1>5. /\ Moved(o, call'[o]) /\ IsCall(call'[o]) /\ call'[o].pages = 0
      /\ \/ call'[o] = Idle
         \/ /\ call'[o].at = "calling" /\ call'[o].asked = Asked(o)
            /\ call'[o].thread = t /\ call'[o].emit = NoThread
            /\ ~(Asked(o).kind = "steer" /\ Asked(o).turn = NoTurn)
  BY <1>1, <1>2, ProceedMoves
<1>6. call'[o].emit = NoThread /\ call'[o].at \in {"idle", "calling"}
  BY <1>5, IdleIsCall
<1> USE DEF serverVars, history
<1>7. id'[o] = t /\ pending_resume'[o] = None /\ last_turn_id'[o] = NoTurn
  BY <1>1, <1>2 DEF Globals
<1> HIDE DEF t
<1>8. Globals'
  <2>1. 0 \in 0..Len(turns) /\ t \in 0..threads
    <3>1. turns \in Seq(1..threads)
      BY <1>2 DEF Globals
    <3>2. Len(turns) \in Nat
      BY <3>1
    <3> QED BY <1>2, <1>4, <3>2
  <2>2. /\ id' \in [Objects -> 0..threads]
        /\ pending_resume' \in [Objects -> {None, "latest", "by id"}]
        /\ last_turn_id' \in [Objects -> 0..Len(turns)]
    BY <1>1, <1>2, <2>1 DEF Globals, NoTurn
  <2> QED BY <1>1, <1>2, <1>5, <2>2 DEF Globals, Moved
<1>9. Origins'
  BY <1>1 DEF Inv, Origins
<1>10. \A p \in Objects \ {o} : Keeps(p)
  BY <1>1, <1>2, <1>5 DEF Keeps, Moved, Globals
<1>11. Formed(o)'
  <2>1. call'[o].at # "idle" => call'[o].asked \in Requests
    BY <1>2, <1>5, IdleIsCall
  <2> QED BY <1>1, <1>2, <1>5, <1>6, <2>1 DEF Formed, At, Asked, Points, NoThread
<1>12. Attached(o)'
  <2>1. call'[o].at = "calling" => call'[o].thread = t
    BY <1>5, IdleIsCall
  <2> QED BY <1>1, <1>3, <1>4, <1>6, <1>7, <2>1 DEF Attached, At, NoThread
<1>13. StartsOnce(o)'
  BY <1>4, <1>6, <1>7 DEF StartsOnce, At, NoThread
<1>14. Proclaims(o)'
  <2>1. /\ Proclaims(o) /\ announced'[o] = announced[o] /\ starter' = starter
        /\ id'[o] # NoThread /\ call'[o].emit = NoThread
    BY <1>1, <1>2, <1>4, <1>6, <1>7 DEF Fits, NoThread
  <2> QED BY <2>1 DEF Proclaims, StartedBy
<1>15. Steers(o)'
  <2>1. call'[o].at = "calling" =>
          ~(call'[o].asked.kind = "steer" /\ call'[o].asked.turn = NoTurn)
    BY <1>5, IdleIsCall
  <2> QED BY <1>6, <1>7, <2>1 DEF Steers, At, Asked
<1> QED BY <1>8, <1>9, <1>10, <1>11, <1>12, <1>13, <1>14, <1>15, StepKeeps DEF Fits

\* A sequence of elements of a set is one of any larger set.
LEMMA WiderSeq ==
  ASSUME NEW S, NEW T, S \subseteq T, NEW s \in Seq(S)
  PROVE  s \in Seq(T)
OBVIOUS

\* The i-th start, and those before it, after one more.
LEMMA OneMore ==
  ASSUME NEW o \in Objects, Globals, starter' = Append(starter, o), threads' = threads + 1
  PROVE  /\ starter' \in Seq(Objects) /\ Len(starter') = Len(starter) + 1
         /\ Len(starter) \in Nat /\ Len(starter') = threads' - Recorded
         /\ starter'[Len(starter) + 1] = o
         /\ \A i \in 1..Len(starter) : starter'[i] = starter[i]
<1>1. starter \in Seq(Objects) /\ Len(starter) = threads - Recorded
  BY DEF Globals
<1>2. threads \in Nat /\ Recorded \in Nat
  BY Bounds
<1>3. Len(starter) \in Nat /\ Len(starter') = Len(starter) + 1 /\ starter' \in Seq(Objects)
  BY <1>1
<1>4. threads + 1 - Recorded = threads - Recorded + 1
  BY <1>2
<1>5. Len(starter') = threads' - Recorded
  <2>1. Len(starter) = threads - Recorded /\ threads' = threads + 1
    BY <1>1
  <2>2. Len(starter') = Len(starter) + 1
    BY <1>3
  <2> QED BY <1>2, <2>1, <2>2
<1>6. /\ starter'[Len(starter) + 1] = o
      /\ \A i \in 1..Len(starter) : starter'[i] = starter[i]
  BY <1>1
<1> QED BY <1>3, <1>5, <1>6

\* ServerStarts: the object, which had no thread, started one more.
LEMMA ServerStartsKeeps ==
  ASSUME Inv, NEW o \in Objects, ServerStarts(o)
  PROVE  Inv'
<1> DEFINE t == threads + 1
<1>1. /\ At(o) = "starting" /\ threads < MaxThreads /\ threads' = t
      /\ starter' = Append(starter, o) /\ loaded' = loaded \cup {<<o, t>>}
      /\ UNCHANGED <<objectVars, calls, turns, history>>
      /\ Advance(o, [call[o] EXCEPT !.at = "started", !.reply = t])
  BY DEF ServerStarts
<1>2. /\ Globals /\ Fits(o) /\ Formed(o) /\ IsCall(call[o]) /\ MaxPages \in Nat
      /\ Asked(o) \in Requests /\ threads \in Nat /\ call[o].pages \in 0..MaxPages
      /\ call[o].emit \in 0..threads
  BY <1>1, UnderWay
<1>3. Moved(o, [call[o] EXCEPT !.at = "started", !.reply = t])
  BY <1>1, <1>2, AdvanceMoves
<1>4. /\ Moved(o, call'[o]) /\ IsCall(call'[o]) /\ call'[o].at = "started"
      /\ call'[o].asked = call[o].asked /\ call'[o].pages = call[o].pages /\ call'[o].reply = t
      /\ call'[o].emit = call[o].emit
  BY <1>2, <1>3 DEF Moved, IsCall
<1> USE DEF objectVars, history
<1>5. /\ starter' \in Seq(Objects) /\ Len(starter') = Len(starter) + 1
      /\ Len(starter) \in Nat /\ Len(starter') = threads' - Recorded
      /\ starter'[Len(starter) + 1] = o
      /\ \A i \in 1..Len(starter) : starter'[i] = starter[i]
  BY <1>1, <1>2, OneMore
<1>6. t - Recorded = Len(starter) + 1
  <2>1. Len(starter) = threads - Recorded /\ Recorded \in Nat
    BY <1>2, Bounds DEF Globals
  <2> QED BY <1>2, <2>1
<1>7. pending_resume[o] = None /\ id[o] = NoThread
  BY <1>1, <1>2 DEF Fits, StartsOnce
<1>8. \A i \in 1..Len(starter) : starter[i] = o => o \in lost
  BY <1>1, <1>2, <1>7 DEF Fits, StartsOnce
<1>9. t \in Nat /\ t \in 1..threads' /\ 0..threads \subseteq 0..threads' /\ 1..threads \subseteq 1..threads'
  BY <1>1, <1>2
<1>10. t \in Recorded..MaxThreads
  <2>1. threads \in Recorded..MaxThreads /\ Recorded \in Nat /\ MaxThreads \in Nat
    BY <1>2, Bounds
  <2> QED BY <1>1, <2>1
<1> HIDE DEF t
<1>11. Globals'
  <2>1. id \in [Objects -> 0..threads']
    <3>1. id \in [Objects -> 0..threads]
      BY <1>2 DEF Globals
    <3> QED BY <1>9, <3>1
  <2>2. turns \in Seq(1..threads')
    <3>1. turns \in Seq(1..threads)
      BY <1>2 DEF Globals
    <3> QED BY <1>9, <3>1, WiderSeq
  <2>4. loaded' \subseteq Objects \X (1..threads')
    <3>1. loaded \subseteq Objects \X (1..threads)
      BY <1>2 DEF Globals
    <3>2. <<o, t>> \in Objects \X (1..threads')
      BY <1>9
    <3>3. Objects \X (1..threads) \subseteq Objects \X (1..threads')
      BY <1>9
    <3>4. loaded' = loaded \cup {<<o, t>>}
      BY <1>1
    <3> QED BY <3>1, <3>2, <3>3, <3>4
  <2>3. call' = [p \in Objects |-> call'[p]]
    BY <1>4 DEF Moved
  <2> QED BY <1>1, <1>2, <1>5, <1>10, <2>1, <2>2, <2>3, <2>4 DEF Globals
<1>12. Origins'
  <2>1. made[o].target = "new"
    BY <1>2, <1>7 DEF Fits, Attached
  <2>2. 1..Len(starter') = 1..Len(starter) \cup {Len(starter) + 1}
    BY <1>5
  <2>3. Origins
    BY DEF Inv
  <2>4. \A i \in 1..Len(starter') : made[starter'[i]].target = "new"
    BY <1>5, <2>1, <2>2, <2>3 DEF Origins
  <2>5. \A i, j \in 1..Len(starter') : i # j /\ starter'[i] = starter'[j] => starter'[i] \in lost
    BY <1>5, <1>8, <2>2, <2>3 DEF Origins
  <2> QED BY <1>1, <2>4, <2>5 DEF Origins
<1>13. \A p \in Objects \ {o} : Keeps(p)
  BY <1>1, <1>4 DEF Keeps, Moved, t
<1>14. Formed(o)'
  BY <1>1, <1>2, <1>4, <1>9 DEF Formed, At, Asked, Points
<1>15. Attached(o)'
  BY <1>1, <1>2, <1>4 DEF Fits, Attached, At
<1>16. StartsOnce(o)'
  <2>1. t - Recorded \in 1..Len(starter') /\ starter'[t - Recorded] = o
    BY <1>5, <1>6
  <2>2. call'[o].at = "started" /\ call'[o].reply = t
    BY <1>4
  <2>3. /\ call'[o].reply \in 1..threads' /\ <<o, call'[o].reply>> \in loaded'
        /\ call'[o].reply - Recorded \in 1..Len(starter')
        /\ starter'[call'[o].reply - Recorded] = o
    BY <1>1, <1>9, <2>1, <2>2
  <2> QED BY <1>1, <1>7, <2>2, <2>3 DEF StartsOnce, StartedBy, At
<1>17. Proclaims(o)'
  <2>1. /\ Proclaims(o) /\ announced'[o] = announced[o] /\ id'[o] = id[o]
        /\ call'[o].emit = call[o].emit
    BY <1>1, <1>2, <1>4 DEF Fits
  <2>2. announced[o] = <<>>
    BY <1>7, <2>1 DEF Proclaims
  <2>3. call[o].emit # NoThread => StartedBy(call[o].emit - Recorded, o)'
    <3> DEFINE k == call[o].emit - Recorded
    <3>1. call[o].emit # NoThread => k \in 1..Len(starter) /\ starter[k] = o
      BY <2>1 DEF Proclaims, StartedBy
    <3> HIDE DEF k
    <3>2. call[o].emit # NoThread => k \in 1..Len(starter') /\ starter'[k] = o
      BY <1>5, <3>1
    <3> QED BY <2>1, <3>2 DEF k, StartedBy
  <2> QED BY <2>1, <2>2, <2>3 DEF Proclaims
<1>18. Steers(o)'
  BY <1>1, <1>2, <1>4 DEF Fits, Steers, At, Asked
<1> QED BY <1>11, <1>12, <1>13, <1>14, <1>15, <1>16, <1>17, <1>18, StepKeeps DEF Fits

\* Started: the object has the thread it started, and will announce it.
LEMMA StartedKeeps ==
  ASSUME Inv, NEW o \in Objects, Started(o)
  PROVE  Inv'
<1> DEFINE t == call[o].reply
<1>1. /\ At(o) = "started" /\ Proceed(o, t, NoTurn, t)
      /\ id' = [id EXCEPT ![o] = t]
      /\ last_turn_id' = [last_turn_id EXCEPT ![o] = NoTurn]
      /\ UNCHANGED <<made, pending_resume, calls, serverVars, history>>
  BY DEF Started
<1>2. /\ Globals /\ Fits(o) /\ Formed(o) /\ Asked(o) \in Requests /\ MaxPages \in Nat
      /\ threads \in Nat
  BY <1>1, UnderWay
<1>3. /\ <<o, t>> \in loaded /\ t \in 1..threads /\ StartedBy(t - Recorded, o)
      /\ pending_resume[o] = None /\ id[o] = NoThread
  BY <1>1, <1>2 DEF Fits, StartsOnce
<1>4. announced[o] = <<>>
  BY <1>2, <1>3 DEF Fits, Proclaims
<1>5. /\ Moved(o, call'[o]) /\ IsCall(call'[o]) /\ call'[o].pages = 0
      /\ \/ call'[o] = Idle
         \/ /\ call'[o].at = "calling" /\ call'[o].asked = Asked(o)
            /\ call'[o].thread = t /\ call'[o].emit = t
            /\ ~(Asked(o).kind = "steer" /\ Asked(o).turn = NoTurn)
  BY <1>1, <1>2, ProceedMoves
<1>6. call'[o].emit \in {NoThread, t} /\ call'[o].at \in {"idle", "calling"}
  BY <1>5, IdleIsCall
<1> USE DEF serverVars, history
<1>7. id'[o] = t /\ last_turn_id'[o] = NoTurn
  BY <1>1, <1>2 DEF Globals
<1> HIDE DEF t
<1>8. Globals'
  <2>1. 0 \in 0..Len(turns) /\ t \in 0..threads
    <3>1. turns \in Seq(1..threads)
      BY <1>2 DEF Globals
    <3>2. Len(turns) \in Nat
      BY <3>1
    <3> QED BY <1>2, <1>3, <3>2
  <2>2. /\ id' \in [Objects -> 0..threads]
        /\ last_turn_id' \in [Objects -> 0..Len(turns)]
    BY <1>1, <1>2, <2>1 DEF Globals, NoTurn
  <2> QED BY <1>1, <1>2, <1>5, <2>2 DEF Globals, Moved
<1>9. Origins'
  BY <1>1 DEF Inv, Origins
<1>10. \A p \in Objects \ {o} : Keeps(p)
  BY <1>1, <1>2, <1>5 DEF Keeps, Moved, Globals
<1>11. Formed(o)'
  <2>1. call'[o].at # "idle" => call'[o].asked \in Requests
    BY <1>2, <1>5, IdleIsCall
  <2>2. call'[o].emit \in 0..threads
    BY <1>2, <1>3, <1>6 DEF NoThread
  <2> QED BY <1>1, <1>2, <1>5, <1>6, <2>1, <2>2 DEF Formed, At, Asked, Points
<1>12. Attached(o)'
  <2>1. call'[o].at = "calling" => call'[o].thread = t
    BY <1>5, IdleIsCall
  <2> QED BY <1>1, <1>3, <1>6, <1>7, <2>1 DEF Attached, At, NoThread
<1>13. StartsOnce(o)'
  BY <1>3, <1>6, <1>7 DEF StartsOnce, At, NoThread
<1>14. Proclaims(o)'
  <2>1. announced'[o] = <<>> /\ starter' = starter
    BY <1>1, <1>4
  <2> QED BY <1>3, <1>6, <2>1 DEF Proclaims, StartedBy
<1>15. Steers(o)'
  <2>1. call'[o].at = "calling" =>
          ~(call'[o].asked.kind = "steer" /\ call'[o].asked.turn = NoTurn)
    BY <1>5, IdleIsCall
  <2> QED BY <1>6, <1>7, <2>1 DEF Steers, At, Asked
<1> QED BY <1>8, <1>9, <1>10, <1>11, <1>12, <1>13, <1>14, <1>15, StepKeeps DEF Fits

\* ServerAccepts: a turn more of the object's thread, or none.
LEMMA ServerAcceptsKeeps ==
  ASSUME Inv, NEW o \in Objects, ServerAccepts(o)
  PROVE  Inv'
<1> DEFINE t == call[o].thread
<1>1. /\ At(o) = "calling"
      /\ UNCHANGED <<objectVars, calls, threads, starter, loaded, history>>
  BY DEF ServerAccepts
<1>2. /\ Globals /\ Fits(o) /\ Formed(o) /\ IsCall(call[o]) /\ MaxPages \in Nat
      /\ Asked(o) \in Requests /\ threads \in Nat
      /\ id[o] \in 0..threads /\ last_turn_id[o] \in 0..Len(turns)
  BY <1>1, UnderWay
<1>3. /\ t = id[o] /\ id[o] # NoThread /\ pending_resume[o] = None
      /\ <<o, id[o]>> \in loaded
  BY <1>1, <1>2 DEF Fits, Attached
<1>4. t \in 1..threads
  BY <1>2, <1>3 DEF NoThread
<1> USE DEF objectVars, history
<1>5. /\ Moved(o, call'[o]) /\ IsCall(call'[o]) /\ call'[o].at = "accepted"
      /\ call'[o].asked = call[o].asked /\ call'[o].pages = call[o].pages
      /\ call'[o].emit = call[o].emit /\ call'[o].thread = t
      /\ \/ Asked(o).kind = "run" /\ turns' = Append(turns, t) /\ call'[o].reply = Len(turns) + 1
         \/ Asked(o).kind # "run" /\ turns' = turns
  <2>1. CASE Asked(o).kind = "run"
    <3>1. /\ turns' = Append(turns, t)
          /\ Advance(o, [call[o] EXCEPT !.at = "accepted", !.reply = Len(turns) + 1])
      BY <2>1 DEF ServerAccepts
    <3>2. Moved(o, [call[o] EXCEPT !.at = "accepted", !.reply = Len(turns) + 1])
      BY <1>2, <3>1, AdvanceMoves
    <3> QED BY <1>2, <2>1, <3>1, <3>2 DEF Moved, IsCall
  <2>2. CASE Asked(o).kind # "run"
    <3>1. Goto(o, "accepted") /\ turns' = turns
      BY <2>2 DEF ServerAccepts
    <3>2. "accepted" \in Points \ {"idle"}
      BY DEF Points
    <3> QED BY <1>2, <2>2, <3>1, <3>2, GotoMoves
  <2> QED BY <2>1, <2>2
<1> HIDE DEF t
<1>6. turns \in Seq(1..threads)
  BY <1>2 DEF Globals
<1>7. /\ turns' \in Seq(1..threads) /\ Len(turns) \in Nat /\ Len(turns') \in Nat
      /\ Len(turns) <= Len(turns') /\ \A i \in 1..Len(turns) : turns'[i] = turns[i]
  <2>1. CASE turns' = turns
    BY <1>6, <2>1
  <2>2. CASE turns' = Append(turns, t)
    BY <1>4, <1>6, <2>2
  <2> QED BY <1>5, <2>1, <2>2
<1>8. Globals'
  <2>1. last_turn_id \in [Objects -> 0..Len(turns')]
    <3>1. last_turn_id \in [Objects -> 0..Len(turns)]
      BY <1>2 DEF Globals
    <3>2. 0..Len(turns) \subseteq 0..Len(turns')
      BY <1>7
    <3> QED BY <3>1, <3>2
  <2>2. call' = [p \in Objects |-> call'[p]]
    BY <1>5 DEF Moved
  <2> QED BY <1>1, <1>2, <1>7, <2>1, <2>2 DEF Globals
<1>9. Origins'
  BY <1>1 DEF Inv, Origins
<1>10. \A p \in Objects \ {o} : Keeps(p)
  BY <1>1, <1>4, <1>5 DEF Keeps, Moved
<1>11. Formed(o)'
  BY <1>1, <1>2, <1>5 DEF Formed, At, Asked, Points
<1>12. Attached(o)'
  BY <1>1, <1>2, <1>3, <1>5 DEF Attached, At
<1>13. StartsOnce(o)'
  BY <1>1, <1>3, <1>5 DEF StartsOnce, At
<1>14. Proclaims(o)'
  <2>1. /\ Proclaims(o) /\ announced'[o] = announced[o] /\ starter' = starter
        /\ id'[o] = id[o] /\ call'[o].emit = call[o].emit
    BY <1>1, <1>2, <1>5 DEF Fits
  <2> QED BY <2>1 DEF Proclaims, StartedBy
<1>15. Steers(o)'
  <2>1. last_turn_id[o] # NoTurn => turns'[last_turn_id[o]] = turns[last_turn_id[o]]
    BY <1>2, <1>7 DEF NoTurn
  <2>2. call'[o].asked.kind = "run" =>
          call'[o].reply \in 1..Len(turns') /\ turns'[call'[o].reply] = t
    BY <1>4, <1>5, <1>6 DEF Asked
  <2>3. Steers(o) /\ UNCHANGED <<last_turn_id, answered, id>>
    BY <1>1, <1>2 DEF Fits
  <2> HIDE DEF NoTurn
  <2> QED BY <1>3, <1>5, <2>1, <2>2, <2>3 DEF Steers, At, Asked
<1> QED BY <1>8, <1>9, <1>10, <1>11, <1>12, <1>13, <1>14, <1>15, StepKeeps DEF Fits

\* Accepted: the object remembers the turn, and its stream opens with the thread started.
LEMMA AcceptedKeeps ==
  ASSUME Inv, NEW o \in Objects, Accepted(o)
  PROVE  Inv'
<1>1. /\ At(o) = "accepted" /\ Goto(o, "idle")
      /\ UNCHANGED <<made, id, pending_resume, calls, serverVars, lost>>
  BY DEF Accepted
<1>2. CASE Asked(o).kind # "run"
  <2>1. UNCHANGED <<last_turn_id, answered, announced>>
    BY <1>2 DEF Accepted
  <2> QED BY <1>1, <2>1, EndKeeps DEF objectVars
<1>3. CASE Asked(o).kind = "run"
  <2> DEFINE u == call[o].reply
             e == call[o].emit
  <2>1. /\ last_turn_id' = [last_turn_id EXCEPT ![o] = u]
        /\ answered' = [answered EXCEPT ![o] = u] /\ Announce(o, e)
    BY <1>3 DEF Accepted
  <2>2. /\ Globals /\ Fits(o) /\ Formed(o) /\ MaxPages \in Nat /\ threads \in Nat
        /\ e \in 0..threads
    BY <1>1, UnderWay
  <2>3. Moved(o, Idle) /\ call'[o] = Idle /\ Moved(o, call'[o])
    BY <1>1, <2>2, GotoIdle DEF Moved
  <2>4. /\ u \in 1..Len(turns) /\ turns[u] = id[o]
        /\ pending_resume[o] = None /\ id[o] # NoThread
    BY <1>1, <1>3, <2>2 DEF Fits, Steers, Attached
  <2>5. /\ announced \in [Objects -> Seq(Nat)] /\ answered \in [Objects -> Nat]
        /\ last_turn_id \in [Objects -> 0..Len(turns)] /\ turns \in Seq(1..threads)
    BY <2>2 DEF Globals
  <2>6. Len(turns) \in Nat /\ u \in Nat /\ u \in 0..Len(turns) /\ u # NoTurn
    <3>1. Len(turns) \in Nat
      BY <2>5
    <3> QED BY <2>4, <3>1 DEF NoTurn
  <2>7. /\ Proclaims(o) /\ StartsOnce(o) /\ Attached(o)
    BY <2>2 DEF Fits
  <2>8. \/ announced' = announced /\ e = NoThread
        \/ /\ announced' = [announced EXCEPT ![o] = <<e>>]
           /\ announced'[o] = <<e>> /\ StartedBy(e - Recorded, o)
    <3>1. CASE e = NoThread
      BY <2>1, <3>1 DEF Announce
    <3>2. CASE e # NoThread
      <4>1. announced[o] = <<>> /\ StartedBy(e - Recorded, o)
        BY <2>7, <3>2 DEF Proclaims
      <4>2. announced' = [announced EXCEPT ![o] = Append(announced[o], e)]
        BY <2>1, <3>2 DEF Announce
      <4> QED BY <2>5, <4>1, <4>2
    <3> QED BY <3>1, <3>2
  <2> HIDE DEF u, e
  <2>9. Globals'
    <3>1. last_turn_id' \in [Objects -> 0..Len(turns)] /\ answered' \in [Objects -> Nat]
      BY <2>1, <2>5, <2>6
    <3>2. announced' \in [Objects -> Seq(Nat)]
      <4>1. e \in Nat
        BY <2>2
      <4>2. <<e>> \in Seq(Nat)
        BY <4>1
      <4> QED BY <2>5, <2>8, <4>2
    <3>3. call' = [p \in Objects |-> call'[p]]
      BY <2>3 DEF Moved
    <3> QED BY <1>1, <2>2, <3>1, <3>2, <3>3 DEF Globals, serverVars
  <2>10. Origins'
    BY <1>1 DEF Inv, Origins, serverVars
  <2>11. \A p \in Objects \ {o} : Keeps(p)
    BY <1>1, <2>1, <2>3, <2>5, <2>8 DEF Keeps, Moved, serverVars
  <2>12. Formed(o)'
    BY <1>1, <2>2, <2>3, IdleIsCall DEF Formed, At, Asked, Points, IsCall, NoThread, serverVars
  <2>13. Attached(o)'
    BY <1>1, <2>3, <2>7, IdleIsCall DEF Attached, At, serverVars
  <2>14. StartsOnce(o)'
    BY <1>1, <2>3, <2>4, IdleIsCall DEF StartsOnce, At, serverVars
  <2>15. Proclaims(o)'
    <3>1. call'[o].emit = NoThread /\ id'[o] # NoThread /\ starter' = starter
      BY <1>1, <2>3, <2>4, IdleIsCall DEF serverVars
    <3>2. /\ Len(announced'[o]) <= 1
          /\ \A i \in 1..Len(announced'[o]) : StartedBy(announced'[o][i] - Recorded, o)
      <4>1. CASE announced' = announced
        BY <2>7, <4>1 DEF Proclaims
      <4>2. CASE announced'[o] = <<e>> /\ StartedBy(e - Recorded, o)
        BY <4>2
      <4> QED BY <2>8, <4>1, <4>2
    <3> QED BY <3>1, <3>2 DEF Proclaims, StartedBy
  <2>16. Steers(o)'
    <3>1. last_turn_id'[o] = u /\ answered'[o] = u /\ turns'[u] = id'[o]
      BY <1>1, <2>1, <2>4, <2>5 DEF serverVars
    <3> QED BY <2>3, <3>1, IdleIsCall DEF Steers, At
  <2> QED BY <2>9, <2>10, <2>11, <2>12, <2>13, <2>14, <2>15, <2>16, StepKeeps DEF Fits
<1> QED BY <1>2, <1>3

-----------------------------------------------------------------------------
\* Objects as start_thread and resume_thread make them.
LEMMA InitInv == Init => Inv
<1> SUFFICES ASSUME Init PROVE Inv
  OBVIOUS
<1> USE DEF NoThread, NoTurn
<1>1. /\ made \in [Objects -> Made] /\ starter = <<>> /\ turns = <<>> /\ loaded = {} /\ lost = {}
      /\ threads = Recorded /\ calls = 0
      /\ \A o \in Objects : /\ id[o] = made[o].id /\ last_turn_id[o] = 0 /\ call[o] = Idle
                            /\ announced[o] = <<>> /\ answered[o] = 0
                            /\ pending_resume[o] = IF made[o].target = "new" THEN None
                                                   ELSE made[o].target
  BY DEF Init
<1>2. ASSUME NEW o \in Objects
      PROVE  /\ made[o].target \in {"new", "latest", "by id"} /\ made[o].id \in 0..Recorded
             /\ made[o].id # 0 => made[o].target = "by id"
  <2>1. made[o] \in Made
    BY <1>1
  <2> QED BY <2>1, MadeAssumption
<1>3. Recorded \in Nat /\ MaxThreads \in Nat /\ Recorded <= MaxThreads /\ MaxCalls \in Nat
      /\ MaxPages \in Nat
  BY BoundAssumption
<1>4. Globals
  <2>1. id \in [Objects -> 0..threads]
    <3>1. id = [o \in Objects |-> made[o].id]
      BY DEF Init
    <3>2. \A o \in Objects : made[o].id \in 0..threads
      BY <1>1, <1>2
    <3> QED BY <3>1, <3>2
  <2>2. pending_resume \in [Objects -> {None, "latest", "by id"}]
    <3>1. pending_resume =
            [o \in Objects |-> IF made[o].target = "new" THEN None ELSE made[o].target]
      BY DEF Init
    <3>2. \A o \in Objects : made[o].target \in {"new", "latest", "by id"}
      BY <1>2
    <3> QED BY <3>1, <3>2
  <2>3. last_turn_id \in [Objects -> 0..Len(turns)]
    BY <1>1 DEF Init
  <2>4. call = [o \in Objects |-> call[o]]
    BY DEF Init
  <2>5. /\ calls \in 0..MaxCalls /\ threads \in Recorded..MaxThreads
    BY <1>1, <1>3
  <2>6. /\ starter \in Seq(Objects) /\ Len(starter) = threads - Recorded
        /\ turns \in Seq(1..threads)
    BY <1>1, <1>3
  <2>7. announced \in [Objects -> Seq(Nat)] /\ answered \in [Objects -> Nat]
    BY DEF Init
  <2> QED BY <1>1, <2>1, <2>2, <2>3, <2>4, <2>5, <2>6, <2>7 DEF Globals
<1>5. Origins
  BY <1>1 DEF Origins
<1>6. ASSUME NEW o \in Objects PROVE Fits(o)
  <2>1. Formed(o)
    BY <1>1, <1>3, IdleIsCall DEF Formed, At, Points
  <2>2. Attached(o)
    <3>1. /\ made[o].target \in {"new", "latest", "by id"}
          /\ id[o] # 0 => made[o].target = "by id"
          /\ made[o].target # "new" => pending_resume[o] = made[o].target
          /\ call[o].at = "idle"
      BY <1>1, <1>2, IdleIsCall
    <3>2. pending_resume[o] = None => made[o].target = "new"
      BY <3>1 DEF None
    <3> QED BY <3>1, <3>2 DEF Attached, At
  <2>3. StartsOnce(o)
    BY <1>1, IdleIsCall DEF StartsOnce, At
  <2>4. Proclaims(o)
    BY <1>1, IdleIsCall DEF Proclaims
  <2>5. Steers(o)
    BY <1>1, IdleIsCall DEF Steers, At
  <2> QED BY <2>1, <2>2, <2>3, <2>4, <2>5 DEF Fits
<1> QED BY <1>4, <1>5, <1>6 DEF Inv

\* Every step keeps the invariant.
LEMMA NextKeeps ==
  ASSUME Inv, [Next]_vars
  PROVE  Inv'
<1>1. CASE Next
  BY <1>1, CallKeeps, InitializedKeeps, ListPageKeeps, ServerResumesKeeps, ResumedKeeps,
     ServerStartsKeeps, StartedKeeps, ServerAcceptsKeeps, AcceptedKeeps, RefusedKeeps,
     GiveUpKeeps DEF Next, Step
<1>2. CASE UNCHANGED vars
  <2>1. /\ Globals' /\ Origins'
    BY <1>2 DEF Inv, Globals, Origins, vars, objectVars, serverVars, history
  <2>2. ASSUME NEW o \in Objects PROVE Fits(o)'
    BY <1>2 DEF Inv, Fits, Formed, Attached, StartsOnce, Proclaims, Steers, StartedBy, IsCall,
                At, Asked, vars, objectVars, serverVars, history
  <2> QED BY <2>1, <2>2 DEF Inv
<1> QED BY <1>1, <1>2

\* The state of the objects, of their calls and of the server always fit together.
THEOREM Invariant == Spec => []Inv
<1>1. Init => Inv
  BY InitInv
<1>2. Inv /\ [Next]_vars => Inv'
  BY NextKeeps
<1> QED BY <1>1, <1>2, PTL DEF Spec

\* The fields of every object, its call and the server's records have their types.
THEOREM TypeCorrect == Spec => []TypeOK
<1>1. Inv => TypeOK
  BY DEF Inv, Globals, Fits, Formed, TypeOK
<1> QED BY <1>1, Invariant, PTL

\* A request names a thread that the server started or resumed for the object before
\* (ensure_thread_started_or_resumed).
THEOREM RequestsNameLoadedThreads == Spec => []LoadedFirst
<1>1. Inv => LoadedFirst
  BY DEF Inv, Fits, Attached, LoadedFirst
<1> QED BY <1>1, Invariant, PTL

\* An object made by resume_thread never starts a thread, and one made by start_thread
\* starts a second only after it gave up on a thread/start that had been accepted.
THEOREM ObjectsStartOneThread == Spec => []OneThreadEach
<1>1. Inv => OneThreadEach
  <2> SUFFICES ASSUME Inv PROVE OneThreadEach
    OBVIOUS
  <2>1. starter \in Seq(Objects) /\ Origins
    BY DEF Inv, Globals
  <2>2. DOMAIN starter = 1..Len(starter)
    BY <2>1
  <2> QED BY <2>1, <2>2 DEF Origins, OneThreadEach
<1> QED BY <1>1, Invariant, PTL

\* steer without a turn id goes to the last turn this object saw started, in the thread
\* that turn belongs to.
THEOREM SteersFindTheirTurn == Spec => []SteersOwnTurn
<1>1. Inv => SteersOwnTurn
  BY DEF Inv, Fits, Steers, Attached, SteersOwnTurn
<1> QED BY <1>1, Invariant, PTL

\* run_streamed emits ThreadStarted at most once per object, for a thread the object started.
THEOREM ThreadsAnnouncedOnce == Spec => []AnnouncedOnce
<1>1. Inv => AnnouncedOnce
  <2> SUFFICES ASSUME Inv, NEW o \in Objects
               PROVE  /\ Len(announced[o]) <= 1
                      /\ \A i \in DOMAIN announced[o] :
                           /\ announced[o][i] > Recorded
                           /\ starter[announced[o][i] - Recorded] = o
    BY DEF AnnouncedOnce
  <2>1. Proclaims(o) /\ announced[o] \in Seq(Nat) /\ Recorded \in Nat /\ starter \in Seq(Objects)
    BY Bounds DEF Inv, Globals, Fits
  <2>2. DOMAIN announced[o] = 1..Len(announced[o])
    BY <2>1
  <2>3. ASSUME NEW i \in 1..Len(announced[o])
        PROVE  announced[o][i] > Recorded /\ starter[announced[o][i] - Recorded] = o
    <3> DEFINE k == announced[o][i]
    <3>1. k - Recorded \in 1..Len(starter) /\ starter[k - Recorded] = o
      BY <2>1 DEF Proclaims, StartedBy
    <3>2. k \in Nat
      BY <2>1
    <3> HIDE DEF k
    <3>3. k > Recorded
      BY <2>1, <3>1, <3>2
    <3> QED BY <3>1, <3>3 DEF k
  <2> QED BY <2>1, <2>2, <2>3 DEF Proclaims
<1> QED BY <1>1, Invariant, PTL

-----------------------------------------------------------------------------
\* Among the first n summaries of s, i is the first one of the directory if that has
\* no time, else the first with the greatest time.
Best(s, cwd, n, i) ==
  /\ i \in 1..n /\ Matches(s[i], cwd)
  /\ \E first \in 1..n :
       /\ Matches(s[first], cwd)
       /\ \A j \in 1..n : Matches(s[j], cwd) => first <= j
       /\ IF Recency(s[first]) = NoTime THEN i = first
          ELSE \A j \in 1..n : Matches(s[j], cwd) =>
                 /\ Recency(s[j]) <= Recency(s[i])
                 /\ Recency(s[j]) = Recency(s[i]) => i <= j

\* What has been selected of the first n.
SelectedOf(s, cwd, n, x) ==
  \/ x = <<>> /\ \A i \in 1..n : ~Matches(s[i], cwd)
  \/ \E i \in 1..n : Best(s, cwd, n, i) /\ x = <<s[i]>>

\* What one more summary makes of it.
Selects(x, t, cwd) == IF Matches(t, cwd) /\ Newer(x, t) THEN <<t>> ELSE x

\* With one summary more, the selected one is still a newest of the cwd.
LEMMA SelectsOneMore ==
  ASSUME NEW s \in Seq(Summaries), NEW cwd, NEW n \in Nat, n + 1 <= Len(s), NEW x,
         SelectedOf(s, cwd, n, x)
  PROVE  SelectedOf(s, cwd, n + 1, Selects(x, s[n + 1], cwd))
<1> DEFINE R(j) == Recency(s[j])
           M(j) == Matches(s[j], cwd)
<1>1. \A j \in 1..(n + 1) : R(j) \in Nat
  BY PagesAssumption DEF Recency
<1>2. NoTime \in Nat /\ \A m \in Nat : m # NoTime => m > NoTime
  BY DEF NoTime
<1>3. CASE x = <<>> /\ \A i \in 1..n : ~Matches(s[i], cwd)
  <2>1. CASE M(n + 1)
    <3>1. Selects(x, s[n + 1], cwd) = <<s[n + 1]>>
      BY <1>3, <2>1 DEF Selects, Newer
    <3>2. Best(s, cwd, n + 1, n + 1)
      <4> HIDE DEF R
      <4>1. \A j \in 1..(n + 1) : M(j) => j = n + 1
        BY <1>3
      <4> QED
        BY <1>1, <2>1, <4>1 DEF Best, R
    <3> QED
      BY <3>1, <3>2 DEF SelectedOf
  <2>2. CASE ~M(n + 1)
    <3>1. \A i \in 1..(n + 1) : ~M(i)
      BY <1>3, <2>2
    <3> QED
      BY <1>3, <2>2, <3>1 DEF Selects, SelectedOf
  <2> QED
    BY <2>1, <2>2
<1>4. ASSUME NEW i \in 1..n, Best(s, cwd, n, i), x = <<s[i]>>
      PROVE  SelectedOf(s, cwd, n + 1, Selects(x, s[n + 1], cwd))
  <2>1. PICK first \in 1..n :
          /\ M(first)
          /\ \A j \in 1..n : M(j) => first <= j
          /\ IF R(first) = NoTime THEN i = first
             ELSE \A j \in 1..n : M(j) => R(j) <= R(i) /\ (R(j) = R(i) => i <= j)
    BY <1>4 DEF Best
  <2>2. M(i)
    BY <1>4 DEF Best
  <2>3. Newer(x, s[n + 1]) <=> R(i) # NoTime /\ R(n + 1) > R(i)
    BY <1>4 DEF Newer
  <2>4. \A j \in 1..(n + 1) : M(j) => first <= j
    BY <2>1
  <2>5. CASE M(n + 1) /\ Newer(x, s[n + 1])
    <3>1. R(first) # NoTime
      BY <2>1, <2>3, <2>5
    <3>2. \A j \in 1..(n + 1) : M(j) => R(j) <= R(n + 1) /\ (R(j) = R(n + 1) => n + 1 <= j)
      <4> HIDE DEF R, M
      <4>1. \A j \in 1..n : M(j) => R(j) < R(n + 1)
        BY <1>1, <2>1, <2>3, <2>5, <3>1
      <4> QED
        BY <1>1, <4>1
    <3>3. Best(s, cwd, n + 1, n + 1)
      BY <2>1, <2>4, <2>5, <3>1, <3>2 DEF Best
    <3> QED
      BY <2>5, <3>3 DEF Selects, SelectedOf
  <2>6. CASE ~(M(n + 1) /\ Newer(x, s[n + 1]))
    <3>1. IF R(first) = NoTime THEN i = first
          ELSE \A j \in 1..(n + 1) : M(j) => R(j) <= R(i) /\ (R(j) = R(i) => i <= j)
      <4> SUFFICES ASSUME R(first) # NoTime, NEW j \in 1..(n + 1), M(j)
                   PROVE  R(j) <= R(i) /\ (R(j) = R(i) => i <= j)
        BY <2>1
      <4> HIDE DEF R, M
      <4>1. CASE j \in 1..n
        BY <2>1, <4>1
      <4>2. CASE j = n + 1
        <5>1. R(i) # NoTime
          BY <1>1, <1>2, <2>1
        <5> QED
          BY <1>1, <2>3, <2>6, <4>2, <5>1
      <4> QED
        BY <4>1, <4>2
    <3>2. Best(s, cwd, n + 1, i)
      <4> HIDE DEF R, M
      <4>1. i \in 1..(n + 1) /\ first \in 1..(n + 1)
        OBVIOUS
      <4> QED
        BY <2>1, <2>2, <2>4, <3>1, <4>1 DEF Best, R, M
    <3>3. Selects(x, s[n + 1], cwd) = <<s[i]>>
      BY <1>4, <2>6 DEF Selects
    <3> QED
      BY <3>2, <3>3 DEF SelectedOf
  <2> QED
    BY <2>5, <2>6
<1> QED
  BY <1>3, <1>4 DEF SelectedOf

\* select_latest_thread_id, for every list.
LEMMA SelectLatestIs ==
  ASSUME NEW s \in Seq(Summaries), NEW cwd
  PROVE  SelectedOf(s, cwd, Len(s), SelectLatest(s, cwd))
<1> DEFINE selected == CHOOSE h : h = [k \in Nat |-> IF k = 0 THEN <<>>
                                         ELSE IF Matches(s[k], cwd) /\ Newer(h[k - 1], s[k])
                                           THEN <<s[k]>>
                                         ELSE h[k - 1]]
           V == {<<>>} \cup {<<s[k]>> : k \in Nat}
           step == [k \in Nat |-> [v \in V |-> Selects(v, s[k + 1], cwd)]]
<1>1. SelectLatest(s, cwd) = selected[Len(s)]
  BY DEF SelectLatest
<1>2. step \in [Nat -> [V -> V]]
  <2>1. ASSUME NEW k \in Nat, NEW v \in V PROVE Selects(v, s[k + 1], cwd) \in V
    BY DEF Selects
  <2> HIDE DEF V
  <2> QED
    BY <2>1
<1>3. PICK f \in [Nat -> V] : Repeats(f, <<>>, step)
  <2>1. <<>> \in V
    OBVIOUS
  <2> HIDE DEF V, step
  <2> QED
    BY <1>2, <2>1, Repeated
<1>4. f[0] = <<>> /\ \A k \in Nat : f[k + 1] = Selects(f[k], s[k + 1], cwd)
  <2> HIDE DEF V
  <2> QED
    BY <1>3 DEF Repeats
<1>5. f = [k \in Nat |-> IF k = 0 THEN <<>>
                         ELSE IF Matches(s[k], cwd) /\ Newer(f[k - 1], s[k]) THEN <<s[k]>>
                         ELSE f[k - 1]]
  <2>1. ASSUME NEW k \in Nat
        PROVE  f[k] = IF k = 0 THEN <<>>
                      ELSE IF Matches(s[k], cwd) /\ Newer(f[k - 1], s[k]) THEN <<s[k]>>
                      ELSE f[k - 1]
    <3>1. CASE k = 0
      BY <1>4, <3>1
    <3>2. CASE k # 0
      <4>1. PICK j \in Nat : k = j + 1
        BY <3>2
      <4>2. j = k - 1
        BY <4>1
      <4> HIDE DEF V
      <4> QED
        BY <1>4, <3>2, <4>1, <4>2 DEF Selects
    <3> QED
      BY <3>1, <3>2
  <2> HIDE DEF V
  <2> QED
    BY <2>1
<1>6. selected = [k \in Nat |-> IF k = 0 THEN <<>>
                                ELSE IF Matches(s[k], cwd) /\ Newer(selected[k - 1], s[k])
                                  THEN <<s[k]>>
                                ELSE selected[k - 1]]
  BY <1>5
<1>7. selected[0] = <<>> /\ \A k \in Nat : selected[k + 1] = Selects(selected[k], s[k + 1], cwd)
  <2> HIDE DEF selected
  <2>1. selected[0] = <<>>
    BY <1>6
  <2>2. ASSUME NEW k \in Nat PROVE selected[k + 1] = Selects(selected[k], s[k + 1], cwd)
    <3>1. k + 1 \in Nat /\ k + 1 # 0 /\ (k + 1) - 1 = k
      OBVIOUS
    <3> QED
      BY <1>6, <3>1 DEF Selects
  <2> QED
    BY <2>1, <2>2
<1> HIDE DEF selected
<1> DEFINE S == {k \in Nat : k <= Len(s) => SelectedOf(s, cwd, k, selected[k])}
<1>8. 0 \in S
  BY <1>7 DEF SelectedOf
<1>9. ASSUME NEW k \in Nat, k \in S PROVE k + 1 \in S
  <2> SUFFICES ASSUME k + 1 <= Len(s) PROVE SelectedOf(s, cwd, k + 1, selected[k + 1])
    OBVIOUS
  <2>1. SelectedOf(s, cwd, k, selected[k])
    BY <1>9
  <2> QED
    BY <1>7, <2>1, SelectsOneMore
<1>10. Nat \subseteq S
  <2> HIDE DEF S
  <2> QED
    BY <1>8, <1>9, EveryNumber
<1> QED
  BY <1>1, <1>10

\* What LatestIsLatest asks for is the best of all.
LEMMA BestIsChosen ==
  ASSUME NEW s \in Seq(Summaries), NEW cwd, NEW i, Best(s, cwd, Len(s), i)
  PROVE  LET matching == {k \in DOMAIN s : Matches(s[k], cwd)}
             first == CHOOSE k \in matching : \A j \in matching : k <= j
             best == {k \in matching : \A j \in matching : Recency(s[j]) <= Recency(s[k])}
         IN  /\ matching # {}
             /\ i = IF Recency(s[first]) = NoTime THEN first
                    ELSE CHOOSE k \in best : \A j \in best : k <= j
<1> DEFINE R(j) == Recency(s[j])
           matching == {k \in DOMAIN s : Matches(s[k], cwd)}
           Least(k, S) == k \in S /\ \A j \in S : k <= j
           best == {k \in matching : \A j \in matching : R(j) <= R(k)}
<1>1. matching = {k \in 1..Len(s) : Matches(s[k], cwd)} /\ matching \subseteq Nat
  OBVIOUS
<1>2. \A k \in matching : R(k) \in Nat
  BY PagesAssumption DEF Recency
<1>3. PICK n \in matching : /\ \A j \in matching : n <= j
                            /\ IF R(n) = NoTime THEN i = n
                               ELSE \A j \in matching : R(j) <= R(i) /\ (R(j) = R(i) => i <= j)
  BY <1>1 DEF Best
<1>4. i \in matching
  BY <1>1 DEF Best
<1> HIDE DEF R, matching
<1>5. (CHOOSE k \in matching : \A j \in matching : k <= j) = n
  <2>1. \A k \in matching : (\A j \in matching : k <= j) => k = n
    BY <1>1, <1>3
  <2> QED
    BY <1>3, <2>1
<1>6. CASE R(n) # NoTime
  <2>1. i \in best /\ \A j \in best : i <= j
    BY <1>2, <1>3, <1>4, <1>6
  <2>2. \A k \in best : (\A j \in best : k <= j) => k = i
    <3>1. best \subseteq Nat
      BY <1>1
    <3> HIDE DEF best
    <3> QED
      BY <2>1, <3>1
  <2>3. (CHOOSE k \in best : \A j \in best : k <= j) = i
    <3> HIDE DEF best
    <3> QED
      BY <2>1, <2>2
  <2> QED
    BY <1>4, <1>5, <1>6, <2>3 DEF R, matching
<1>7. CASE R(n) = NoTime
  BY <1>3, <1>4, <1>5, <1>7 DEF R, matching
<1> QED
  BY <1>6, <1>7

\* A call lists what pages may hold; one that resumes the latest thread has chosen it
\* from what it listed.
Listing(o) ==
  /\ At(o) \in {"initializing", "listing"} => call[o].listed \in Seq(Summaries)
  /\ At(o) = "resuming" /\ pending_resume[o] = "latest" =>
       /\ call[o].listed \in Seq(Summaries) /\ call[o].pages < MaxPages
       /\ \E i : /\ Best(call[o].listed, Cwd(o), Len(call[o].listed), i)
                 /\ call[o].thread = call[o].listed[i].id

Lists == /\ DOMAIN settings = 1..MaxThreads
         /\ \A o \in Objects : Listing(o)

\* An object that no step touches lists what it did.
LEMMA ListingStays ==
  ASSUME NEW o \in Objects, Listing(o), made' = made, call'[o] = call[o],
         pending_resume'[o] = pending_resume[o]
  PROVE  Listing(o)'
BY DEF Listing, At, Cwd

\* An object whose call is past its resume, or has none, lists nothing.
LEMMA ListsNoMore ==
  ASSUME NEW o \in Objects, call'[o].at \notin {"initializing", "listing", "resuming"}
  PROVE  Listing(o)'
BY DEF Listing, At

\* A step of o leaves the others as they are.
LEMMA OnlyMoved ==
  ASSUME Globals, NEW o \in Objects, NEW c, Advance(o, c)
  PROVE  call'[o] = c /\ \A p \in Objects \ {o} : call'[p] = call[p]
<1>1. Moved(o, c)
  BY AdvanceMoves
<1> QED
  BY <1>1 DEF Moved

\* ensure_initialized, and the choice between a resume, a start and the request.
LEMMA InitializedLists ==
  ASSUME Inv, NEW o \in Objects, Listing(o), Initialized(o)
  PROVE  Listing(o)' /\ \A p \in Objects \ {o} : call'[p] = call[p]
<1>1. Globals /\ Formed(o) /\ IsCall(call[o]) /\ At(o) = "initializing" /\ Ensure(o)
  BY DEF Inv, Fits, Formed, Initialized
<1>2. pending_resume' = pending_resume
  BY DEF Initialized, objectVars
<1>3. call[o].listed \in Seq(Summaries)
  BY <1>1 DEF Listing
<1>4. CASE pending_resume[o] = "latest"
  <2>1. Advance(o, [call[o] EXCEPT !.at = "listing"])
    BY <1>1, <1>4 DEF Ensure, Goto
  <2>2. /\ call'[o] = [call[o] EXCEPT !.at = "listing"]
        /\ \A p \in Objects \ {o} : call'[p] = call[p]
    BY <1>1, <2>1, OnlyMoved
  <2>3. call'[o].at = "listing" /\ call'[o].listed = call[o].listed
    BY <1>1, <2>2 DEF IsCall
  <2> QED
    BY <1>3, <2>2, <2>3 DEF Listing, At
<1>5. CASE pending_resume[o] = "by id"
  <2>1. Advance(o, [call[o] EXCEPT !.at = "resuming", !.thread = id[o], !.listed = <<>>])
    BY <1>1, <1>5 DEF Ensure, Resume
  <2>2. /\ call'[o] = [call[o] EXCEPT !.at = "resuming", !.thread = id[o], !.listed = <<>>]
        /\ \A p \in Objects \ {o} : call'[p] = call[p]
    BY <1>1, <2>1, OnlyMoved
  <2>3. call'[o].at = "resuming" /\ pending_resume'[o] # "latest"
    BY <1>1, <1>2, <1>5, <2>2 DEF IsCall
  <2> QED
    BY <2>2, <2>3 DEF Listing, At
<1>6. CASE pending_resume[o] \notin {"latest", "by id"} /\ id[o] = NoThread
  <2>1. Advance(o, [call[o] EXCEPT !.at = "starting"])
    BY <1>1, <1>6 DEF Ensure, Goto
  <2>2. /\ call'[o] = [call[o] EXCEPT !.at = "starting"]
        /\ \A p \in Objects \ {o} : call'[p] = call[p]
    BY <1>1, <2>1, OnlyMoved
  <2>3. call'[o].at = "starting"
    BY <1>1, <2>2 DEF IsCall
  <2> QED
    BY <2>2, <2>3, ListsNoMore
<1>7. CASE pending_resume[o] \notin {"latest", "by id"} /\ id[o] # NoThread
  <2>1. Proceed(o, id[o], last_turn_id[o], NoThread)
    BY <1>1, <1>7 DEF Ensure
  <2>2. Moved(o, call'[o]) /\ call'[o].at \in {"calling", "idle"}
    BY <1>1, <2>1, ProceedMoves, IdleIsCall
  <2> QED
    BY <2>2, ListsNoMore DEF Moved
<1> QED
  BY <1>4, <1>5, <1>6, <1>7

\* resolve_latest_thread_id: one page more, and the choice when there is no further one.
LEMMA ListPageLists ==
  ASSUME Inv, NEW o \in Objects, Listing(o), ListPage(o)
  PROVE  Listing(o)' /\ \A p \in Objects \ {o} : call'[p] = call[p]
<1>1. Globals /\ Formed(o) /\ IsCall(call[o]) /\ At(o) = "listing"
  BY DEF Inv, Fits, Formed, ListPage
<1>2. pending_resume' = pending_resume /\ made' = made
  BY DEF ListPage, objectVars
<1>3. call[o].listed \in Seq(Summaries)
  BY <1>1 DEF Listing
<1>4. CASE Goto(o, "idle")
  <2>1. Moved(o, Idle)
    BY <1>1, <1>4, GotoIdle
  <2> QED
    BY <2>1, IdleIsCall, ListsNoMore DEF Moved
<1>5. ASSUME NEW page \in Pages, call[o].pages < MaxPages,
             Advance(o, [call[o] EXCEPT !.pages = @ + 1, !.listed = call[o].listed \o page])
      PROVE  Listing(o)' /\ \A p \in Objects \ {o} : call'[p] = call[p]
  <2>1. /\ call'[o] = [call[o] EXCEPT !.pages = @ + 1, !.listed = call[o].listed \o page]
        /\ \A p \in Objects \ {o} : call'[p] = call[p]
    BY <1>1, <1>5, OnlyMoved
  <2>2. call'[o].at = "listing" /\ call'[o].listed = call[o].listed \o page
    BY <1>1, <2>1 DEF IsCall, At
  <2>3. call'[o].listed \in Seq(Summaries)
    BY <1>3, <2>2, PagesAssumption
  <2> QED
    BY <2>1, <2>2, <2>3 DEF Listing, At
<1>6. ASSUME NEW page \in Pages, call[o].pages < MaxPages,
             SelectLatest(call[o].listed \o page, Cwd(o)) # <<>>,
             Resume(o, SelectLatest(call[o].listed \o page, Cwd(o))[1].id, call[o].listed \o page)
      PROVE  Listing(o)' /\ \A p \in Objects \ {o} : call'[p] = call[p]
  <2> DEFINE s == call[o].listed \o page
             t == SelectLatest(s, Cwd(o))[1].id
  <2>1. s \in Seq(Summaries)
    BY <1>3, PagesAssumption
  <2>2. PICK i : Best(s, Cwd(o), Len(s), i) /\ SelectLatest(s, Cwd(o)) = <<s[i]>>
    BY <1>6, <2>1, SelectLatestIs DEF SelectedOf
  <2>3. t = s[i].id
    <3> HIDE DEF s
    <3>1. SelectLatest(s, Cwd(o))[1] = s[i]
      BY <2>2
    <3> QED
      BY <3>1
  <2>4. Advance(o, [call[o] EXCEPT !.at = "resuming", !.thread = t, !.listed = s])
    BY <1>6 DEF Resume
  <2> HIDE DEF s, t
  <2>5. /\ call'[o] = [call[o] EXCEPT !.at = "resuming", !.thread = t, !.listed = s]
        /\ \A p \in Objects \ {o} : call'[p] = call[p]
    BY <1>1, <2>4, OnlyMoved
  <2>6. /\ call'[o].at = "resuming" /\ call'[o].thread = t /\ call'[o].listed = s
        /\ call'[o].pages = call[o].pages
    BY <1>1, <2>5 DEF IsCall
  <2>7. Cwd(o)' = Cwd(o)
    BY <1>2 DEF Cwd
  <2> QED
    BY <1>6, <2>1, <2>2, <2>3, <2>5, <2>6, <2>7 DEF Listing, At
<1> QED
  BY <1>4, <1>5, <1>6 DEF ListPage

\* Every other step of o leaves it past the choice of a thread.
LEMMA OthersListNothing ==
  ASSUME Inv, NEW o \in Objects,
         \/ ServerResumes(o) \/ Resumed(o) \/ ServerStarts(o) \/ Started(o)
         \/ ServerAccepts(o) \/ Accepted(o) \/ Refused(o) \/ GiveUp(o)
  PROVE  Listing(o)' /\ \A p \in Objects \ {o} : call'[p] = call[p]
<1>1. Globals /\ Formed(o) /\ IsCall(call[o])
  BY DEF Inv, Fits, Formed
<1>2. ASSUME Goto(o, "idle")
      PROVE  Moved(o, call'[o]) /\ call'[o].at = "idle"
  BY <1>1, <1>2, GotoIdle, IdleIsCall DEF Moved
<1>3. ASSUME NEW c, Advance(o, c), c.at \in {"resumed", "started", "accepted"}
      PROVE  Moved(o, call'[o]) /\ call'[o].at \in {"resumed", "started", "accepted"}
  BY <1>1, <1>3, AdvanceMoves DEF Moved
<1>4. ASSUME At(o) # "idle", NEW thread, NEW last, NEW emit, Proceed(o, thread, last, emit)
      PROVE  Moved(o, call'[o]) /\ call'[o].at \in {"calling", "idle"}
  BY <1>1, <1>4, ProceedMoves, IdleIsCall
<1>5. Moved(o, call'[o]) /\ call'[o].at \notin {"initializing", "listing", "resuming"}
  <2>1. CASE ServerResumes(o)
    <3>1. Advance(o, [call[o] EXCEPT !.at = "resumed", !.reply = call[o].thread,
                                     !.listed = <<>>, !.pages = 0])
      BY <2>1 DEF ServerResumes
    <3> QED
      BY <1>1, <1>3, <3>1 DEF IsCall
  <2>2. CASE Resumed(o) \/ Started(o)
    <3>1. At(o) # "idle" /\ \E thread, last, emit : Proceed(o, thread, last, emit)
      BY <2>2 DEF Resumed, Started
    <3> QED
      BY <1>4, <3>1
  <2>3. CASE ServerStarts(o)
    <3>1. Advance(o, [call[o] EXCEPT !.at = "started", !.reply = threads + 1])
      BY <2>3 DEF ServerStarts
    <3> QED
      BY <1>1, <1>3, <3>1 DEF IsCall
  <2>4. CASE ServerAccepts(o)
    <3>1. \/ Advance(o, [call[o] EXCEPT !.at = "accepted", !.reply = Len(turns) + 1])
          \/ Advance(o, [call[o] EXCEPT !.at = "accepted"])
      BY <2>4 DEF ServerAccepts, Goto
    <3> QED
      BY <1>1, <1>3, <3>1 DEF IsCall
  <2>5. CASE Accepted(o) \/ Refused(o) \/ GiveUp(o)
    BY <1>2, <2>5 DEF Accepted, Refused, GiveUp
  <2> QED
    BY <2>1, <2>2, <2>3, <2>4, <2>5
<1> QED
  BY <1>5, ListsNoMore DEF Moved

\* Every call that is under way lists what it should.
LEMMA ListsHolds == Spec => []Lists
<1>1. Init => Lists
  <2> SUFFICES ASSUME Init PROVE Lists
    OBVIOUS
  <2>1. DOMAIN settings = 1..MaxThreads
    BY DEF Init
  <2>2. ASSUME NEW o \in Objects PROVE call[o].at = "idle"
    BY IdleIsCall DEF Init
  <2> QED
    BY <2>1, <2>2 DEF Lists, Listing, At
<1>2. Inv /\ Lists /\ [Next]_vars => Lists'
  <2> SUFFICES ASSUME Inv, Lists, [Next]_vars PROVE Lists'
    OBVIOUS
  <2>1. CASE Next
    <3>1. PICK o \in Objects : (\E c \in Requests : Call(o, c)) \/ Step(o) \/ GiveUp(o)
      BY <2>1 DEF Next
    <3>2. Listing(o) /\ Globals
      BY DEF Lists, Inv
    <3>3. Listing(o)' /\ \A p \in Objects \ {o} : call'[p] = call[p]
      <4>1. ASSUME NEW c \in Requests, Call(o, c)
            PROVE  Listing(o)' /\ \A p \in Objects \ {o} : call'[p] = call[p]
        <5>1. /\ call'[o] = [Idle EXCEPT !.at = "initializing", !.asked = c]
              /\ \A p \in Objects \ {o} : call'[p] = call[p]
          BY <3>2, <4>1, OnlyMoved DEF Call
        <5>2. call'[o].at = "initializing" /\ call'[o].listed = <<>>
          BY <5>1 DEF Idle
        <5>3. call'[o].listed \in Seq(Summaries)
          BY <5>2
        <5> QED
          BY <5>1, <5>2, <5>3 DEF Listing, At
      <4> QED
        BY <3>1, <3>2, <4>1, InitializedLists, ListPageLists, OthersListNothing DEF Step
    <3>4. /\ made' = made /\ \A p \in Objects \ {o} : pending_resume'[p] = pending_resume[p]
          /\ DOMAIN settings' = DOMAIN settings
      <4>1. CASE \/ \E c \in Requests : Call(o, c)
                 \/ Initialized(o) \/ ListPage(o) \/ Accepted(o) \/ Refused(o) \/ GiveUp(o)
        BY <4>1 DEF Call, Initialized, ListPage, Accepted, Refused, GiveUp, objectVars, serverVars
      <4>2. CASE ServerResumes(o) \/ ServerStarts(o) \/ ServerAccepts(o)
        BY <4>2 DEF ServerResumes, ServerStarts, ServerAccepts, objectVars
      <4>3. CASE Resumed(o) \/ Started(o)
        <5>1. pending_resume = [p \in Objects |-> pending_resume[p]]
          BY <3>2 DEF Globals
        <5> QED
          BY <4>3, <5>1 DEF Resumed, Started, serverVars
      <4> QED
        BY <3>1, <4>1, <4>2, <4>3 DEF Step
    <3>5. ASSUME NEW p \in Objects \ {o} PROVE Listing(p)'
      <4>1. Listing(p)
        BY DEF Lists
      <4> QED
        BY <3>3, <3>4, <4>1, ListingStays
    <3> QED
      BY <3>3, <3>4, <3>5 DEF Lists
  <2>2. CASE UNCHANGED vars
    <3>1. made' = made /\ call' = call /\ pending_resume' = pending_resume /\ settings' = settings
      BY <2>2 DEF vars, objectVars, serverVars
    <3> QED
      BY <3>1, ListingStays DEF Lists
  <2> QED
    BY <2>1, <2>2
<1> QED
  BY <1>1, <1>2, Invariant, PTL DEF Spec

\* resolve_latest_thread_id: whatever the pages hold, the thread resumed is the newest one
\* listed for the directory, and no more than MAX_THREAD_LIST_PAGES were read for it.
THEOREM TheLatestIsResumed == Spec => []LatestIsLatest
<1>1. Lists => LatestIsLatest
  <2> SUFFICES ASSUME Lists, NEW o \in Objects, At(o) = "resuming", pending_resume[o] = "latest"
               PROVE  LET s == call[o].listed
                          matching == {k \in DOMAIN s : Matches(s[k], Cwd(o))}
                          first == CHOOSE k \in matching : \A j \in matching : k <= j
                          best == {k \in matching : \A j \in matching : Recency(s[j]) <= Recency(s[k])}
                          chosen == IF Recency(s[first]) = NoTime THEN first
                                    ELSE CHOOSE k \in best : \A j \in best : k <= j
                      IN  /\ call[o].pages < MaxPages
                          /\ matching # {} /\ call[o].thread = s[chosen].id
    BY DEF LatestIsLatest
  <2> DEFINE s == call[o].listed
             matching == {k \in DOMAIN s : Matches(s[k], Cwd(o))}
             first == CHOOSE k \in matching : \A j \in matching : k <= j
             best == {k \in matching : \A j \in matching : Recency(s[j]) <= Recency(s[k])}
             chosen == IF Recency(s[first]) = NoTime THEN first
                       ELSE CHOOSE k \in best : \A j \in best : k <= j
  <2>1. s \in Seq(Summaries) /\ call[o].pages < MaxPages
    BY DEF Lists, Listing
  <2>2. PICK i : Best(s, Cwd(o), Len(s), i) /\ call[o].thread = s[i].id
    BY DEF Lists, Listing
  <2>3. matching # {} /\ i = chosen
    <3> HIDE DEF s
    <3> QED
      BY <2>1, <2>2, BestIsChosen
  <2> HIDE DEF chosen, matching, s
  <2>4. call[o].thread = s[chosen].id
    BY <2>2, <2>3
  <2> QED
    BY <2>1, <2>3, <2>4 DEF chosen, matching, s
<1> QED
  BY ListsHolds, <1>1, PTL

-----------------------------------------------------------------------------
\* Parameters over others, and some of the fields of options.
LEMMA OverIs ==
  ASSUME NEW p, NEW q
  PROVE  /\ DOMAIN Over(p, q) = DOMAIN p \cup DOMAIN q
         /\ \A f \in DOMAIN q : Over(p, q)[f] = q[f]
         /\ \A f \in DOMAIN p \ DOMAIN q : Over(p, q)[f] = p[f]
BY DEF Over

\* Only keeps the values of the fields it keeps.
LEMMA OnlyIs ==
  ASSUME NEW p, NEW fields
  PROVE  /\ DOMAIN Only(p, fields) = DOMAIN p \cap fields
         /\ \A f \in DOMAIN p \cap fields : Only(p, fields)[f] = p[f]
BY DEF Only

\* ResolvedOptions::merge: a field of the turn's own options wins.
LEMMA MergeIs ==
  ASSUME NEW options, NEW turn
  PROVE  /\ DOMAIN Merge(options, turn) = (DOMAIN options \cup DOMAIN turn) \cap ResolvedFields
         /\ \A f \in DOMAIN turn \cap ResolvedFields : Merge(options, turn)[f] = turn[f]
         /\ \A f \in (DOMAIN options \ DOMAIN turn) \cap ResolvedFields :
              Merge(options, turn)[f] = options[f]
<1> DEFINE p == Only(options, ResolvedFields)
           q == Only(turn, ResolvedFields)
<1>1. /\ DOMAIN p = DOMAIN options \cap ResolvedFields
      /\ \A f \in DOMAIN options \cap ResolvedFields : p[f] = options[f]
      /\ DOMAIN q = DOMAIN turn \cap ResolvedFields
      /\ \A f \in DOMAIN turn \cap ResolvedFields : q[f] = turn[f]
  BY OnlyIs
<1>2. Merge(options, turn) = Over(p, q)
  BY DEF Merge
<1> HIDE DEF p, q
<1>3. /\ DOMAIN Over(p, q) = DOMAIN p \cup DOMAIN q
      /\ \A f \in DOMAIN q : Over(p, q)[f] = q[f]
      /\ \A f \in DOMAIN p \ DOMAIN q : Over(p, q)[f] = p[f]
  BY OverIs
<1> HIDE DEF ResolvedFields
<1> QED
  BY <1>1, <1>2, <1>3

\* build_turn_start_params: extra parameters win over merged options.
LEMMA TurnParamsAre ==
  ASSUME NEW thread, NEW input, NEW options, NEW turn, NEW f \in ResolvedFields
  PROVE  LET params == TurnStartParams(thread, input, options, turn)
             merged == Merge(options, turn)
         IN  /\ f \in DOMAIN ExtraOf(turn) => f \in DOMAIN params /\ params[f] = ExtraOf(turn)[f]
             /\ f \in DOMAIN merged \ DOMAIN ExtraOf(turn) =>
                  f \in DOMAIN params /\ params[f] = merged[f]
<1> DEFINE merged == Merge(options, turn)
           extra == ExtraOf(turn)
           base == [threadId |-> thread, input |-> NormalizeInput(input)]
           plain == Only(merged, ResolvedFields \ CommonExtras)
           schema == Only(turn, {"outputSchema"})
           common == Only(merged, CommonExtras)
           typed == Over(base, Over(plain, schema))
           more == Over(common, extra)
<1>1. TurnStartParams(thread, input, options, turn) = Over(typed, more)
  BY DEF TurnStartParams, Params
<1>2. f # "outputSchema"
  BY DEF ResolvedFields, CommonExtras
<1> HIDE DEF merged, extra, base
<1>3. /\ DOMAIN plain = DOMAIN merged \cap (ResolvedFields \ CommonExtras)
      /\ \A g \in DOMAIN merged \cap (ResolvedFields \ CommonExtras) : plain[g] = merged[g]
  BY OnlyIs
<1>4. DOMAIN schema \subseteq {"outputSchema"}
  BY OnlyIs
<1>5. /\ DOMAIN common = DOMAIN merged \cap CommonExtras
      /\ \A g \in DOMAIN merged \cap CommonExtras : common[g] = merged[g]
  BY OnlyIs
<1> HIDE DEF plain, schema, common
<1>6. ASSUME f \in DOMAIN plain PROVE f \in DOMAIN typed /\ typed[f] = plain[f]
  <2> DEFINE rest == Over(plain, schema)
  <2>1. f \in DOMAIN rest /\ rest[f] = plain[f]
    BY <1>2, <1>4, <1>6, OverIs
  <2> HIDE DEF rest
  <2>2. /\ DOMAIN Over(base, rest) = DOMAIN base \cup DOMAIN rest
        /\ \A g \in DOMAIN rest : Over(base, rest)[g] = rest[g]
    BY OverIs
  <2> QED
    BY <2>1, <2>2 DEF rest
<1>7. /\ DOMAIN more = DOMAIN common \cup DOMAIN extra
      /\ \A g \in DOMAIN extra : more[g] = extra[g]
      /\ \A g \in DOMAIN common \ DOMAIN extra : more[g] = common[g]
  BY OverIs
<1> HIDE DEF typed, more
<1>8. /\ DOMAIN Over(typed, more) = DOMAIN typed \cup DOMAIN more
      /\ \A g \in DOMAIN more : Over(typed, more)[g] = more[g]
      /\ \A g \in DOMAIN typed \ DOMAIN more : Over(typed, more)[g] = typed[g]
  BY OverIs
<1>9. CASE f \in DOMAIN extra
  BY <1>1, <1>7, <1>8, <1>9 DEF extra
<1>10. CASE f \notin DOMAIN extra /\ f \in CommonExtras
  <2> HIDE DEF CommonExtras
  <2> QED
    BY <1>1, <1>5, <1>7, <1>8, <1>10 DEF merged, extra
<1>11. CASE f \notin DOMAIN extra /\ f \notin CommonExtras
  <2> HIDE DEF CommonExtras, ResolvedFields
  <2> QED
    BY <1>1, <1>3, <1>5, <1>6, <1>7, <1>8, <1>11 DEF merged, extra
<1> QED
  BY <1>9, <1>10, <1>11

\* What the server keeps for a thread once it accepted a turn.
LEMMA SettingsAre ==
  ASSUME NEW before, NEW thread, NEW input, NEW inherited, NEW own, NEW now,
         now = Over(before, Only(TurnStartParams(thread, input, inherited, own), ResolvedFields)),
         NEW f \in ResolvedFields
  PROVE  /\ f \in DOMAIN ExtraOf(own) => now[f] = ExtraOf(own)[f]
         /\ f \in DOMAIN own \ DOMAIN ExtraOf(own) => now[f] = own[f]
         /\ f \in DOMAIN inherited \ (DOMAIN own \cup DOMAIN ExtraOf(own)) => now[f] = inherited[f]
<1> DEFINE params == TurnStartParams(thread, input, inherited, own)
           chosen == Only(params, ResolvedFields)
           merged == Merge(inherited, own)
<1>1. /\ f \in DOMAIN ExtraOf(own) => f \in DOMAIN params /\ params[f] = ExtraOf(own)[f]
      /\ f \in DOMAIN merged \ DOMAIN ExtraOf(own) => f \in DOMAIN params /\ params[f] = merged[f]
  BY TurnParamsAre
<1> HIDE DEF params
<1>2. f \in DOMAIN params => f \in DOMAIN chosen /\ chosen[f] = params[f]
  BY OnlyIs
<1>3. f \in DOMAIN chosen => now[f] = chosen[f]
  <2>1. now = Over(before, chosen)
    BY DEF params
  <2> HIDE DEF chosen
  <2>2. \A g \in DOMAIN chosen : Over(before, chosen)[g] = chosen[g]
    BY OverIs
  <2> QED
    BY <2>1, <2>2
<1>4. /\ f \in DOMAIN own => f \in DOMAIN merged /\ merged[f] = own[f]
      /\ f \in DOMAIN inherited \ DOMAIN own => f \in DOMAIN merged /\ merged[f] = inherited[f]
  <2>1. /\ DOMAIN merged = (DOMAIN inherited \cup DOMAIN own) \cap ResolvedFields
        /\ \A g \in DOMAIN own \cap ResolvedFields : merged[g] = own[g]
        /\ \A g \in (DOMAIN inherited \ DOMAIN own) \cap ResolvedFields : merged[g] = inherited[g]
    BY MergeIs
  <2> HIDE DEF merged
  <2> QED
    BY <2>1
<1> HIDE DEF chosen, merged
<1> QED
  BY <1>1, <1>2, <1>3, <1>4

\* Only the server makes a call that is out an accepted one.
LEMMA AcceptedByServer ==
  ASSUME Inv, Next, NEW o \in Objects, At(o) = "calling", call'[o].at = "accepted"
  PROVE  ServerAccepts(o)
<1>1. PICK p \in Objects : (\E c \in Requests : Call(p, c)) \/ Step(p) \/ GiveUp(p)
  BY DEF Next
<1>2. \A c : c = "idle" => c # "accepted"
  OBVIOUS
<1>3. p = o
  <2> SUFFICES ASSUME p # o PROVE FALSE
    OBVIOUS
  <2>1. call' = [call EXCEPT ![p] = call'[p]] /\ call = [q \in Objects |-> call[q]]
    <3>1. call = [q \in Objects |-> call[q]]
      BY DEF Inv, Globals
    <3>2. \E c : call' = [call EXCEPT ![p] = c]
      BY <1>1 DEF Step, Call, Initialized, ListPage, ServerResumes, Resumed, ServerStarts, Started,
         ServerAccepts, Accepted, Refused, GiveUp, Ensure, Proceed, Resume, Goto, Advance
    <3> QED
      BY <3>1, <3>2
  <2>2. call'[o] = call[o]
    BY <1>3, <2>1
  <2> QED
    BY <2>2 DEF At
<1>4. ~Goto(o, "idle")
  <2> SUFFICES ASSUME Goto(o, "idle") PROVE FALSE
    OBVIOUS
  <2>1. call'[o].at = "idle"
    BY GotoIdle, IdleIsCall DEF Inv, Moved
  <2> QED
    BY <2>1
<1>5. ~Refused(o) /\ ~GiveUp(o)
  BY <1>4 DEF Refused, GiveUp
<1> QED
  BY <1>1, <1>3, <1>5 DEF Step, Call, Initialized, ListPage, ServerResumes, Resumed, ServerStarts,
     Started, Accepted

\* run_streamed: in whatever order objects share a thread, the server runs each turn with
\* that call's extra parameters, then its own options, then its object's.
THEOREM TurnsRunWithTheirOptions == Spec => OverridesLastOneTurn
<1> DEFINE Given == \A o \in Objects :
             Asked(o).kind = "run" /\ At(o) = "calling" /\ call'[o].at = "accepted" =>
               LET own == Asked(o).options
                   extra == ExtraOf(own)
                   inherited == made[o].options
                   now == settings'[call[o].thread]
               IN  \A f \in ResolvedFields :
                     /\ f \in DOMAIN extra => now[f] = extra[f]
                     /\ f \in DOMAIN own \ DOMAIN extra => now[f] = own[f]
                     /\ f \in DOMAIN inherited \ (DOMAIN own \cup DOMAIN extra) =>
                          now[f] = inherited[f]
<1>1. Inv /\ Lists /\ [Next]_vars => [Given]_vars
  <2> SUFFICES ASSUME Inv, Lists, Next, NEW o \in Objects,
                      Asked(o).kind = "run", At(o) = "calling", call'[o].at = "accepted",
                      NEW f \in ResolvedFields
               PROVE  LET own == Asked(o).options
                          extra == ExtraOf(own)
                          inherited == made[o].options
                          now == settings'[call[o].thread]
                      IN  /\ f \in DOMAIN extra => now[f] = extra[f]
                          /\ f \in DOMAIN own \ DOMAIN extra => now[f] = own[f]
                          /\ f \in DOMAIN inherited \ (DOMAIN own \cup DOMAIN extra) =>
                               now[f] = inherited[f]
    OBVIOUS
  <2> DEFINE t == call[o].thread
             own == Asked(o).options
             extra == ExtraOf(own)
             inherited == made[o].options
             params == TurnStartParams(t, Asked(o).input, inherited, own)
             chosen == Only(params, ResolvedFields)
  <2>1. settings' = [settings EXCEPT ![t] = Over(settings[t], chosen)]
    BY AcceptedByServer DEF ServerAccepts
  <2>2. t \in DOMAIN settings
    <3>1. t = id[o] /\ id[o] # NoThread /\ id \in [Objects -> 0..threads]
      BY DEF Inv, Globals, Fits, Attached
    <3>2. threads \in Recorded..MaxThreads /\ Recorded \in Nat /\ MaxThreads \in Nat
      BY Bounds DEF Inv
    <3>3. id[o] \in 1..MaxThreads
      BY <3>1, <3>2 DEF NoThread
    <3> QED
      BY <3>1, <3>3 DEF Lists
  <2>3. settings'[t] = Over(settings[t], chosen)
    <3> HIDE DEF t, chosen
    <3> QED
      BY <2>1, <2>2
  <2> QED
    BY <2>3, SettingsAre
<1> QED
  BY <1>1, Invariant, ListsHolds, PTL DEF Spec, OverridesLastOneTurn
=============================================================================
