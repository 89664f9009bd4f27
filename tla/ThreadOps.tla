------------------------------ MODULE ThreadOps ------------------------------
(***************************************************************************)
(* Thread objects of the high-level API (crates/sdk/src/api.rs): several   *)
(* of them, made by start_thread or resume_thread, name threads of one     *)
(* app server.                                                             *)
(*                                                                         *)
(* A call of an object (run_streamed, steer, interrupt, or one of the      *)
(* simple ones: set_name, read, archive, unarchive, rollback,              *)
(* compact_start) first starts or resumes its thread.  An object has one   *)
(* call at a time.  A call may be refused by the server, time out, or be   *)
(* dropped by its caller at any await; the server may have acted then.     *)
(*                                                                         *)
(* The server is external: it numbers threads and turns, and it keeps for  *)
(* each thread the settings it was last given.                             *)
(***************************************************************************)
EXTENDS ThreadOptions

CONSTANTS Objects,   \* Thread objects
          Made,      \* how an object may be made, in this instance
          Requests,  \* the calls made of it
          Recorded,  \* threads recorded before: 1..Recorded
          MaxThreads, MaxTurns, MaxCalls,  \* bounds of the instance
          Pages,     \* pages thread/list may answer
          MaxPages   \* MAX_THREAD_LIST_PAGES (100 in the code)

NoThread == 0
NoTurn == 0

ASSUME MadeAssumption ==
  \A m \in Made : /\ m.target \in {"new", "latest", "by id"}
                  /\ m.id \in 0..Recorded
                  /\ m.id # NoThread <=> m.target = "by id"
ASSUME RequestsAssumption ==
  \A c \in Requests : /\ c.kind \in {"run", "steer", "interrupt", "simple"}
                      /\ c.turn \in Nat

\* What thread/list answers: summaries with two times, in seconds.
Summaries == UNION {Range(page) : page \in Pages}

ASSUME PagesAssumption ==
  /\ Pages \subseteq Seq(Summaries)
  /\ \A t \in Summaries : {t.updatedAt, t.createdAt} \subseteq Nat

ASSUME BoundAssumption == /\ {Recorded, MaxThreads, MaxTurns, MaxCalls, MaxPages} \subseteq Nat
                          /\ Recorded <= MaxThreads

VARIABLES made,      \* how each object was made
          id, pending_resume, last_turn_id,  \* the fields of each object
          call,      \* the call each object has, or Idle
          calls,     \* calls made so far
          threads,   \* number of threads the server has
          starter,   \* who started each of them since
          loaded,    \* <<object, thread>>: starts and resumes the server accepted
          turns,     \* the thread of each turn, in order
          settings,  \* what the server keeps for each thread
          announced, \* history: ThreadStarted events of each object's streams
          answered,  \* history: the last turn each object saw accepted
          lost       \* history: objects that gave up on a thread/start

objectVars == <<made, id, pending_resume, last_turn_id>>
serverVars == <<threads, starter, loaded, turns, settings>>
history == <<announced, answered, lost>>
vars == <<objectVars, call, calls, serverVars, history>>

\* What a call knows: the pages scanned and summaries listed, the thread and turn its
\* request names, the server's answer, and emit_thread_started.
Idle == [at |-> "idle", asked |-> [kind |-> None], pages |-> 0, listed |-> <<>>,
         thread |-> NoThread, turn |-> NoTurn, reply |-> 0, emit |-> NoThread]

At(o) == call[o].at
Asked(o) == call[o].asked

Advance(o, c) == call' = [call EXCEPT ![o] = c]

Goto(o, p) == Advance(o, IF p = "idle" THEN Idle ELSE [call[o] EXCEPT !.at = p])

\* start_thread, resume_thread
Init ==
  /\ made \in [Objects -> Made]
  /\ id = [o \in Objects |-> made[o].id]
  /\ pending_resume = [o \in Objects |-> IF made[o].target = "new" THEN None ELSE made[o].target]
  /\ last_turn_id = [o \in Objects |-> NoTurn]
  /\ call = [o \in Objects |-> Idle]
  /\ calls = 0
  /\ threads = Recorded
  /\ starter = <<>>
  /\ loaded = {}
  /\ turns = <<>>
  /\ settings = [t \in 1..MaxThreads |-> <<>>]
  /\ announced = [o \in Objects |-> <<>>]
  /\ answered = [o \in Objects |-> NoTurn]
  /\ lost = {}

-----------------------------------------------------------------------------
(* The calls                                                               *)

Call(o, c) ==
  /\ At(o) = "idle" /\ calls < MaxCalls
  /\ calls' = calls + 1
  /\ Advance(o, [Idle EXCEPT !.at = "initializing", !.asked = c])
  /\ UNCHANGED <<objectVars, serverVars, history>>

\* The request itself, once the thread is there: a steer without a turn to name
\* is refused only now.
Proceed(o, thread, last, emit) ==
  LET turn == IF Asked(o).kind = "steer" /\ Asked(o).turn = NoTurn THEN last ELSE Asked(o).turn
  IN  IF Asked(o).kind = "steer" /\ turn = NoTurn
      THEN Goto(o, "idle")
      ELSE Advance(o, [Idle EXCEPT !.at = "calling", !.asked = Asked(o), !.thread = thread,
                                   !.turn = turn, !.emit = emit])

Resume(o, thread, listed) ==
  Advance(o, [call[o] EXCEPT !.at = "resuming", !.thread = thread, !.listed = listed])

\* ensure_initialized returned: resume, start, or neither.
Ensure(o) == IF pending_resume[o] = "latest" THEN Goto(o, "listing")
             ELSE IF pending_resume[o] = "by id" THEN Resume(o, id[o], <<>>)
             ELSE IF id[o] = NoThread THEN Goto(o, "starting")
             ELSE Proceed(o, id[o], last_turn_id[o], NoThread)

\* Variant: the target is taken, not cloned.
InitializedTakes(o) ==
  /\ At(o) = "initializing"
  /\ Ensure(o)
  /\ pending_resume' = [pending_resume EXCEPT ![o] = None]
  /\ UNCHANGED <<made, id, last_turn_id, calls, serverVars, history>>

Initialized(o) ==
  /\ At(o) = "initializing"
  /\ Ensure(o)
  /\ UNCHANGED <<objectVars, calls, serverVars, history>>

Cwd(o) == IF "cwd" \in DOMAIN made[o].options THEN made[o].options.cwd ELSE None

\* resolve_latest_thread_id: the pages are counted before they are asked for.
ListPage(o) ==
  /\ At(o) = "listing"
  /\ \/ call[o].pages = MaxPages /\ Goto(o, "idle")
     \/ \E page \in Pages, more \in BOOLEAN :
          LET listed == call[o].listed \o page
              latest == SelectLatest(listed, Cwd(o))
          IN  /\ call[o].pages < MaxPages
              /\ IF more THEN Advance(o, [call[o] EXCEPT !.pages = @ + 1, !.listed = listed])
                 ELSE IF latest = <<>> THEN Goto(o, "idle")
                 ELSE Resume(o, latest[1].id, listed)
  /\ UNCHANGED <<objectVars, calls, serverVars, history>>

ServerResumes(o) ==
  LET t == call[o].thread
      params == ThreadResumeParams(t, made[o].options)
  IN  /\ At(o) = "resuming" /\ t \in 1..threads
      /\ Advance(o, [call[o] EXCEPT !.at = "resumed", !.reply = t, !.listed = <<>>, !.pages = 0])
      /\ loaded' = loaded \cup {<<o, t>>}
      /\ settings' = [settings EXCEPT ![t] = Over(@, Only(params, ThreadFields))]
      /\ UNCHANGED <<objectVars, calls, threads, starter, turns, history>>

Resumed(o) ==
  /\ At(o) = "resumed"
  /\ id' = [id EXCEPT ![o] = call[o].reply]
  /\ pending_resume' = [pending_resume EXCEPT ![o] = None]
  /\ last_turn_id' = [last_turn_id EXCEPT ![o] = NoTurn]
  /\ Proceed(o, call[o].reply, NoTurn, NoThread)
  /\ UNCHANGED <<made, calls, serverVars, history>>

ServerStarts(o) ==
  /\ At(o) = "starting" /\ threads < MaxThreads
  /\ Advance(o, [call[o] EXCEPT !.at = "started", !.reply = threads + 1])
  /\ threads' = threads + 1
  /\ starter' = Append(starter, o)
  /\ loaded' = loaded \cup {<<o, threads + 1>>}
  /\ settings' = [settings EXCEPT ![threads + 1] = ThreadStartParams(made[o].options)]
  /\ UNCHANGED <<objectVars, calls, turns, history>>

\* Variant: the id is kept only by a call that starts a turn.
StartedForRun(o) ==
  /\ At(o) = "started"
  /\ id' = [id EXCEPT ![o] = IF Asked(o).kind = "run" THEN call[o].reply ELSE NoThread]
  /\ last_turn_id' = [last_turn_id EXCEPT ![o] = NoTurn]
  /\ Proceed(o, call[o].reply, NoTurn, call[o].reply)
  /\ UNCHANGED <<made, pending_resume, calls, serverVars, history>>

Started(o) ==
  /\ At(o) = "started"
  /\ id' = [id EXCEPT ![o] = call[o].reply]
  /\ last_turn_id' = [last_turn_id EXCEPT ![o] = NoTurn]
  /\ Proceed(o, call[o].reply, NoTurn, call[o].reply)
  /\ UNCHANGED <<made, pending_resume, calls, serverVars, history>>

\* The server does what was asked of the thread; the options of a turn stay.
ServerAccepts(o) ==
  LET t == call[o].thread
      params == TurnStartParams(t, Asked(o).input, made[o].options, Asked(o).options)
  IN  /\ At(o) = "calling"
      /\ IF Asked(o).kind = "run"
           THEN /\ Len(turns) < MaxTurns
                /\ turns' = Append(turns, t)
                /\ Advance(o, [call[o] EXCEPT !.at = "accepted", !.reply = Len(turns) + 1])
                /\ settings' = [settings EXCEPT ![t] = Over(@, Only(params, ResolvedFields))]
           ELSE /\ Goto(o, "accepted")
                /\ UNCHANGED <<turns, settings>>
      /\ UNCHANGED <<objectVars, calls, threads, starter, loaded, history>>

Announce(o, thread) ==
  announced' = IF thread = NoThread THEN announced
               ELSE [announced EXCEPT ![o] = Append(@, thread)]

\* Variant: the turn is remembered only if there was none.
AcceptedFirst(o) ==
  /\ At(o) = "accepted"
  /\ Goto(o, "idle")
  /\ IF Asked(o).kind = "run"
       THEN /\ last_turn_id' = [last_turn_id EXCEPT ![o] = IF @ = NoTurn THEN call[o].reply ELSE @]
            /\ answered' = [answered EXCEPT ![o] = call[o].reply]
            /\ Announce(o, call[o].emit)
       ELSE UNCHANGED <<last_turn_id, answered, announced>>
  /\ UNCHANGED <<made, id, pending_resume, calls, serverVars, lost>>

\* Variant: every stream begins with the thread's id.
AcceptedAnnounces(o) ==
  /\ At(o) = "accepted"
  /\ Goto(o, "idle")
  /\ IF Asked(o).kind = "run"
       THEN /\ last_turn_id' = [last_turn_id EXCEPT ![o] = call[o].reply]
            /\ answered' = [answered EXCEPT ![o] = call[o].reply]
            /\ Announce(o, id[o])
       ELSE UNCHANGED <<last_turn_id, answered, announced>>
  /\ UNCHANGED <<made, id, pending_resume, calls, serverVars, lost>>

\* run_streamed opens its stream with the thread the call started, if it did.
Accepted(o) ==
  /\ At(o) = "accepted"
  /\ Goto(o, "idle")
  /\ IF Asked(o).kind = "run"
       THEN /\ last_turn_id' = [last_turn_id EXCEPT ![o] = call[o].reply]
            /\ answered' = [answered EXCEPT ![o] = call[o].reply]
            /\ Announce(o, call[o].emit)
       ELSE UNCHANGED <<last_turn_id, answered, announced>>
  /\ UNCHANGED <<made, id, pending_resume, calls, serverVars, lost>>

Refusable == {"initializing", "listing", "resuming", "starting", "calling"}

\* The server answers with an error, or the connection is lost.
Refused(o) ==
  /\ At(o) \in Refusable
  /\ Goto(o, "idle")
  /\ UNCHANGED <<objectVars, calls, serverVars, history>>

\* The request times out or the caller drops the call.
GiveUp(o) ==
  /\ At(o) # "idle"
  /\ Goto(o, "idle")
  /\ lost' = IF At(o) = "started" THEN lost \cup {o} ELSE lost
  /\ UNCHANGED <<objectVars, calls, serverVars, announced, answered>>

-----------------------------------------------------------------------------
Step(o) == \/ Initialized(o)
           \/ ListPage(o)
           \/ ServerResumes(o)
           \/ Resumed(o)
           \/ ServerStarts(o)
           \/ Started(o)
           \/ ServerAccepts(o)
           \/ Accepted(o)
           \/ Refused(o)

Next == \E o \in Objects : \/ \E c \in Requests : Call(o, c)
                           \/ Step(o)
                           \/ GiveUp(o)

Spec == Init /\ [][Next]_vars

-----------------------------------------------------------------------------
Points == {"idle", "initializing", "listing", "resuming", "resumed", "starting", "started",
           "calling", "accepted"}

TypeOK ==
  /\ made \in [Objects -> Made]
  /\ id \in [Objects -> 0..threads]
  /\ pending_resume \in [Objects -> {None, "latest", "by id"}]
  /\ last_turn_id \in [Objects -> 0..Len(turns)]
  /\ \A o \in Objects : /\ At(o) \in Points
                        /\ At(o) # "idle" => Asked(o) \in Requests
                        /\ call[o].pages \in 0..MaxPages
                        /\ call[o].emit \in 0..threads
  /\ threads \in Recorded..MaxThreads
  /\ starter \in Seq(Objects) /\ Len(starter) = threads - Recorded
  /\ loaded \subseteq Objects \X (1..threads)
  /\ turns \in Seq(1..threads)
  /\ calls \in 0..MaxCalls
  /\ lost \subseteq Objects

\* An object asks something of a thread only after the server accepted its own
\* start or resume of that thread.
LoadedFirst ==
  \A o \in Objects : At(o) \in {"calling", "accepted"} => <<o, call[o].thread>> \in loaded

\* Whatever fails before, an object made to resume never starts a thread, and a new
\* one starts one, unless it gave up on a start the server had accepted.
OneThreadEach ==
  /\ \A i \in DOMAIN starter : made[starter[i]].target = "new"
  /\ \A i, j \in DOMAIN starter : i # j /\ starter[i] = starter[j] => starter[i] \in lost

\* A steer that names no turn goes to the last turn its object saw started, and to
\* the thread of that turn.
SteersOwnTurn ==
  \A o \in Objects : At(o) = "calling" /\ Asked(o).kind = "steer" /\ Asked(o).turn = NoTurn =>
    /\ call[o].turn = answered[o]
    /\ call[o].thread = turns[call[o].turn]

\* An object's streams announce at most one thread, one that it started itself.
AnnouncedOnce ==
  \A o \in Objects : /\ Len(announced[o]) <= 1
                     /\ \A i \in DOMAIN announced[o] :
                          /\ announced[o][i] > Recorded
                          /\ starter[announced[o][i] - Recorded] = o

\* The thread taken for the latest one is the first listed for the directory if that
\* has no time, else the first among those with the greatest; and the list was read to
\* its end within the pages allowed.
LatestIsLatest ==
  \A o \in Objects : At(o) = "resuming" /\ pending_resume[o] = "latest" =>
    LET matching == {i \in DOMAIN call[o].listed : Matches(call[o].listed[i], Cwd(o))}
        first == CHOOSE i \in matching : \A j \in matching : i <= j
        best == {i \in matching : \A j \in matching : Recency(call[o].listed[j]) <= Recency(call[o].listed[i])}
        chosen == IF Recency(call[o].listed[first]) = NoTime THEN first
                  ELSE CHOOSE i \in best : \A j \in best : i <= j
    IN  /\ call[o].pages < MaxPages
        /\ matching # {} /\ call[o].thread = call[o].listed[chosen].id

\* A turn runs with its extra parameters, its own options and, where it has neither,
\* with its thread object's, whatever earlier turns or other objects gave the thread.
OverridesLastOneTurn ==
  [][\A o \in Objects : Asked(o).kind = "run" /\ At(o) = "calling" /\ call'[o].at = "accepted" =>
       LET own == Asked(o).options
           extra == ExtraOf(own)
           inherited == made[o].options
           now == settings'[call[o].thread]
       IN  \A f \in ResolvedFields :
             /\ f \in DOMAIN extra => now[f] = extra[f]
             /\ f \in DOMAIN own \ DOMAIN extra => now[f] = own[f]
             /\ f \in DOMAIN inherited \ (DOMAIN own \cup DOMAIN extra) => now[f] = inherited[f]]_vars
=============================================================================
