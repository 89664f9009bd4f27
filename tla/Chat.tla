-------------------------------- MODULE Chat --------------------------------
(***************************************************************************)
(* The interactive loop of `luna chat` (crates/luna/src/commands/chat.rs): *)
(* keys and pastes edit the Composer's line; a submitted line is a command *)
(* or a prompt; a prompt starts a turn, whose events run_prompt() appends  *)
(* to the transcript while it watches for Ctrl-C.                          *)
(*                                                                         *)
(* The turn's stream is TurnStream's: its events arrive in order and end   *)
(* with the turn or the transport, and a pump that lags skips some.  The   *)
(* server sends the deltas of an item, then its snapshot.  Drawing,        *)
(* scrolling and wording are left out.                                     *)
(***************************************************************************)
EXTENDS Composer, ThreadItems

CONSTANTS Sessions,    \* [mode, prompt, turns, keys]: the output mode, does the command
                       \* line bring a prompt?, the items of each turn (a sequence of
                       \* sets, its length a bound), and a bound on the keys
          MaxHistory,  \* bound: lines submitted
          MaxRefusals  \* bound: interrupts refused

\* The items of a session's turns
WireItems(s) == UNION {s.turns[i] : i \in DOMAIN s.turns}

ASSUME SessionsAssumption ==
  \A s \in Sessions : /\ s.mode \in {"human", "final", "json"} /\ s.prompt \in BOOLEAN
                      /\ s.prompt => s.turns # <<>>
                      /\ s.keys \in 0..MaxKeys
                      /\ s.turns \in Seq(SUBSET WireItems(s))
                      /\ \A w \in WireItems(s) : /\ {"type", "id", "text"} \subseteq DOMAIN w
                                                 /\ w.text \in Seq(Nat)

VARIABLES at,             \* where the loop is
          session,
          effort,         \* the reasoning effort of the next turn
          busy, turn_running,
          transcript,     \* blocks: kind, id and text
          streamed,       \* what the renderer remembers
          fallback,       \* fallback_final_response
          emitted,        \* emitted_final_response
          turns,          \* history: prompts submitted
          sent,           \* the server: pieces of each item of the turn, then its snapshot
          lagged,         \* history: did the turn's pump skip events?
          interrupt_requested,
          interrupts,     \* history: interrupts accepted in this turn
          refusals        \* history: interrupts refused

turnVars == <<streamed, fallback, emitted, turns, sent, lagged, interrupt_requested,
              interrupts>>
appVars == <<session, effort, busy, turn_running, transcript, refusals>>
vars == <<inputVars, at, appVars, turnVars>>

Block(kind, id, t) == [kind |-> kind, id |-> id, text |-> t]

Push(kind, id, t) == transcript' = Append(transcript, Block(kind, id, t))

mode == session.mode

NothingSent == [w \in {} |-> 0]

Init == /\ ComposerInit
        /\ session \in Sessions
        /\ keys = session.keys
        /\ at = IF session.prompt THEN "pending" ELSE "idle"
        /\ effort = <<>>
        /\ busy = FALSE /\ turn_running = FALSE
        /\ transcript = <<>>
        /\ streamed = {} /\ fallback = <<>> /\ emitted = FALSE
        /\ turns = 0 /\ sent = NothingSent /\ lagged = "no"
        /\ interrupt_requested = FALSE /\ interrupts = 0
        /\ refusals = 0

-----------------------------------------------------------------------------
(* handle_idle_key and execute_command                                     *)

EditLine == /\ at = "idle"
            /\ ComposerKey
            /\ UNCHANGED <<at, appVars, turnVars>>

\* Ctrl-D, or Ctrl-C, on an empty line
QuitKey == /\ at = "idle"
           /\ text = <<>>
           /\ at' = "quit"
           /\ UNCHANGED <<inputVars, appVars, turnVars>>

IsEffort(name) == \E k \in 1..Len(Efforts) : Efforts[k] = name

\* parse_input
ParseInput(t) ==
  LET input == Trim(t)
      command == CommandOf(input)
      argument == Trim(ArgumentOf(input))
      Is(name) == command = <<"/", name>>
  IN  CASE input = <<>>                       -> "empty"
        [] StartsWith(input, <<"/", "/">>)    -> "prompt"
        [] ~StartsWith(input, <<"/">>)        -> "prompt"
        [] Is("quit")                         -> "quit"
        [] Is("clear")                        -> "clear"
        [] Is("compact")                      -> "compact"
        [] Is("skill") /\ argument # <<>>     -> "skill"
        [] Is("effort") /\ IsEffort(argument) -> "effort"
        [] \/ Is("help") \/ Is("skills")
           \/ Is("effort") /\ argument = <<>> -> "note"
        [] OTHER                              -> "unknown"

\* The line is taken.  A prompt waits for the next round of the loop; a note only
\* appends a block.
Submit ==
  /\ at = "idle"
  /\ LET input == ParseInput(text)
         argument == Trim(ArgumentOf(Trim(text)))
         known == Skills = <<>> \/ \E k \in 1..Len(Skills) : Skills[k] = argument
     IN  /\ Len(history) < MaxHistory
         /\ input = "prompt" => turns < Len(session.turns)
         /\ IF input = "skill" /\ known
              THEN /\ Set(<<"$">> \o argument \o <<" ">>)
                   /\ history' = Append(history, text)
                   /\ history_cursor' = 0 /\ history_draft' = <<>>
                   /\ dismissed' = FALSE /\ selected' = 0
                   /\ pasted' = FALSE
              ELSE TakeInput
         /\ Compose
         /\ UNCHANGED keys
         /\ at' = CASE input = "prompt"  -> "pending"
                    [] input = "quit"    -> "quit"
                    [] input = "compact" -> "compacting"
                    [] OTHER             -> "idle"
         /\ effort' = IF input = "effort" THEN argument ELSE effort
         /\ CASE input = "unknown" \/ (input = "skill" /\ ~known) ->
                   Push("Error", NoId, <<>>)
              [] input \in {"note", "effort"} \/ (input = "skill" /\ known) ->
                   Push("Status", NoId, <<>>)
              [] input = "clear" -> transcript' = <<>>
              [] OTHER           -> UNCHANGED transcript
  /\ UNCHANGED <<session, busy, turn_running, refusals, turnVars>>

\* Ctrl-L
ClearTranscript == /\ at = "idle"
                   /\ transcript' = <<>>
                   /\ UNCHANGED <<inputVars, at, session, effort, busy, turn_running, refusals, turnVars>>

\* compact_start returns, with an error or not.
Compacted == /\ at = "compacting"
             /\ at' = "idle"
             /\ \E kind \in {"Status", "Error"} : Push(kind, NoId, <<>>)
             /\ UNCHANGED <<inputVars, session, effort, busy, turn_running, refusals, turnVars>>

\* The terminal's event stream, or the turn's, fails: so does the chat.
StreamFails == /\ at \in {"idle", "streaming"}
                /\ at' = "failed"
                /\ UNCHANGED <<inputVars, appVars, turnVars>>

-----------------------------------------------------------------------------
(* run_prompt                                                              *)

\* submit_user_message, and run_streamed is called.
StartTurn == /\ at = "pending"
             /\ at' = "starting"
             /\ turns' = turns + 1
             /\ Push("User", NoId, <<>>)
             /\ streamed' = {} /\ fallback' = <<>> /\ emitted' = FALSE
             /\ busy' = TRUE /\ turn_running' = TRUE
             /\ sent' = [w \in session.turns[turns + 1] |-> 0]
             /\ lagged' = "no"
             /\ interrupt_requested' = FALSE /\ interrupts' = 0
             /\ UNCHANGED <<inputVars, session, effort, refusals>>

TurnAccepted == /\ at = "starting"
                /\ at' = "streaming"
                /\ UNCHANGED <<inputVars, appVars, turnVars>>

\* finish_turn
Finish == at' = "idle" /\ busy' = FALSE /\ turn_running' = FALSE

\* run_streamed fails: finish_turn_with_error.
TurnRefused == /\ at = "starting"
               /\ Finish
               /\ Push("Error", NoId, <<>>)
               /\ UNCHANGED <<inputVars, session, effort, refusals, turnVars>>

\* TranscriptKind::from
TranscriptKind(kind) ==
  CASE kind = "UserMessage"                                     -> "User"
    [] kind = "AgentMessage"                                    -> "Agent"
    [] kind \in {"Reasoning", "Plan"}                           -> "Reasoning"
    [] kind \in {"ToolCall", "CommandExecution", "FileChange"}  -> "Tool"
    [] kind = "Error"                                           -> "Error"
    [] OTHER                                                    -> "Status"

\* Variant: a continuation goes to the last block of its kind.
PushFragmentByKind(f) ==
  LET kind == TranscriptKind(f.kind)
      same == {k \in 1..Len(transcript) : transcript[k].kind = kind}
  IN  IF f.continuation /\ same # {}
        THEN [transcript EXCEPT ![LastOrZero(same)].text = @ \o f.text]
        ELSE Append(transcript, Block(kind, f.id, f.text))

\* push_fragment: a continuation goes to the last block of its item.
PushFragment(f) ==
  LET kind == TranscriptKind(f.kind)
      same == {k \in 1..Len(transcript) : /\ transcript[k].kind = kind
                                          /\ f.id # NoId /\ transcript[k].id = f.id}
  IN  IF f.continuation /\ same # {}
        THEN [transcript EXCEPT ![LastOrZero(same)].text = @ \o f.text]
        ELSE Append(transcript, Block(kind, f.id, f.text))

Answer(e) == <<Block("Agent", NoId, e.item.text)>>

\* Is e an agent message that is, or is not, a final answer?
Message(e, final) == /\ e.kind = "itemCompleted" /\ e.item.type = "agentMessage"
                     /\ IsFinalAnswer(e.item) = final

\* Variant: the last commentary is a response even after a final answer.
FinalResponseTwice(e) == IF Message(e, TRUE) THEN Answer(e)
                         ELSE IF e.kind = "turnCompleted" THEN fallback ELSE <<>>

\* What an event shows of the final response: each final answer as it comes, or
\* else, when the turn completes, the last other message
FinalResponse(e) == IF Message(e, TRUE) THEN Answer(e)
                    ELSE IF e.kind = "turnCompleted" /\ ~emitted THEN fallback ELSE <<>>

\* consume_thread_event: the transcript, and the rest of the app.
Shown(e) ==
  LET out == Render(streamed, e).out
  IN  CASE mode = "json"  -> Append(transcript, Block("Raw", NoId, <<>>))
        [] mode = "final" -> transcript \o FinalResponse(e)
        [] OTHER          -> IF out = <<>> \/ Head(out).kind = "UserMessage"
                               THEN transcript ELSE PushFragment(Head(out))

Consumed(e) ==
  /\ streamed' = IF mode = "human" THEN Render(streamed, e).streamed ELSE streamed
  /\ emitted' = (emitted \/ (mode = "final" /\ FinalResponse(e) # <<>>))
  /\ fallback' = CASE mode # "final"                          -> fallback
                   [] Message(e, FALSE)                       -> Answer(e)
                   [] e.kind = "turnCompleted" /\ ~emitted     -> <<>>
                   [] OTHER                                   -> fallback

-----------------------------------------------------------------------------
(* The stream                                                              *)

\* What the server may send next of an item: a delta, or its snapshot.
Whole(w) == Len(w.text) + 1

NextPieces(w) ==
  {n \in 1..Whole(w) : /\ n > sent[w]
                       /\ IF n = Whole(w) THEN sent[w] \in {0, Len(w.text)}
                          ELSE n = sent[w] + 1 /\ w.type \in DeltaTypes}

PieceEvent(w, n) == IF n = Whole(w) THEN CompletedEvent(w) ELSE Head(DeltaEvents(w, n))

Streaming == at = "streaming" /\ lagged # "end"

Deliver(w, n) == /\ Streaming
                 /\ sent' = [sent EXCEPT ![w] = n]
                 /\ transcript' = Shown(PieceEvent(w, n))
                 /\ Consumed(PieceEvent(w, n))
                 /\ UNCHANGED <<inputVars, at, session, effort, busy, turn_running, refusals, turns,
                                lagged, interrupt_requested, interrupts>>

\* The pump lags: the event is skipped, or with it all to come.
Skip(w, n) == /\ Streaming
              /\ sent' = [sent EXCEPT ![w] = n]
              /\ lagged' \in {"items", "end"}
              /\ UNCHANGED <<inputVars, at, appVars, streamed, fallback, emitted, turns,
                             interrupt_requested, interrupts>>

\* Variant: only a completed turn ends the loop.
TurnEndsCompleted(kind) ==
  /\ Streaming
  /\ transcript' = Shown(TurnEvent(kind))
  /\ Consumed(TurnEvent(kind))
  /\ IF kind = "turnCompleted" THEN Finish
     ELSE at' = "waiting" /\ UNCHANGED <<busy, turn_running>>
  /\ UNCHANGED <<inputVars, session, effort, refusals, turns, sent, lagged, interrupt_requested,
                 interrupts>>

\* The terminal events: the turn is over for the chat, with an error block or not.
TurnEnds(kind) ==
  /\ Streaming
  /\ LET e == TurnEvent(kind)
     IN  /\ transcript' = IF kind = "turnCompleted" THEN Shown(e)
                          ELSE Append(Shown(e), Block("Error", NoId, <<>>))
         /\ Consumed(e)
  /\ Finish
  /\ UNCHANGED <<inputVars, session, effort, refusals, turns, sent, lagged, interrupt_requested,
                 interrupts>>

\* The stream ends without an end of the turn: finish_turn_with_error.
StreamCloses == /\ Streaming
                /\ Finish
                /\ Push("Error", NoId, <<>>)
                /\ UNCHANGED <<inputVars, session, effort, refusals, turnVars>>

EndKinds == {"turnCompleted", "turnFailed", "error"}

\* Variant: Ctrl-C always interrupts.
InterruptAgain == /\ at = "streaming"
                  /\ at' = "interrupting"
                  /\ UNCHANGED <<inputVars, appVars, turnVars>>

\* Ctrl-C: turn/interrupt is awaited, unless one was accepted.
Interrupt == /\ at = "streaming"
             /\ ~interrupt_requested
             /\ at' = "interrupting"
             /\ UNCHANGED <<inputVars, appVars, turnVars>>

InterruptAccepted == /\ at = "interrupting"
                     /\ at' = "streaming"
                     /\ interrupt_requested' = TRUE
                     /\ interrupts' = interrupts + 1
                     /\ UNCHANGED <<inputVars, appVars, streamed, fallback, emitted, turns,
                                    sent, lagged>>

\* It may be asked for again.
InterruptRefused == /\ at = "interrupting"
                    /\ refusals < MaxRefusals
                    /\ at' = "streaming"
                    /\ Push("Error", NoId, <<>>)
                    /\ refusals' = refusals + 1
                    /\ UNCHANGED <<inputVars, session, effort, busy, turn_running, turnVars>>

-----------------------------------------------------------------------------
Next == \/ EditLine \/ QuitKey \/ Submit \/ ClearTranscript \/ Compacted \/ StreamFails
        \/ StreamCloses \/ StartTurn \/ TurnAccepted \/ TurnRefused
        \/ \E w \in DOMAIN sent : \E n \in NextPieces(w) : Deliver(w, n) \/ Skip(w, n)
        \/ \E kind \in EndKinds : TurnEnds(kind)
        \/ Interrupt \/ InterruptAccepted \/ InterruptRefused

Spec == Init /\ [][Next]_vars

\* The loop runs, its requests return, and the server ends every turn.
FairSpec == /\ Spec
            /\ WF_vars(StartTurn)
            /\ WF_vars(TurnAccepted \/ TurnRefused)
            /\ WF_vars(Compacted)
            /\ WF_vars(InterruptAccepted \/ InterruptRefused)
            /\ SF_vars(\E kind \in EndKinds : TurnEnds(kind))

-----------------------------------------------------------------------------
Points == {"idle", "pending", "compacting", "starting", "streaming", "interrupting",
           "quit", "failed"}

\* The app looks busy exactly while a turn is in progress, on every path out of it.
BusyIsTurn == /\ busy = turn_running
              /\ busy => at \in {"starting", "streaming", "interrupting", "failed"}
              /\ at \in {"starting", "streaming", "interrupting"} => busy

\* At most one interrupt of a turn is accepted: none is sent after it.
OneInterrupt == interrupts <= 1 /\ (interrupts = 1 <=> interrupt_requested)

\* The blocks of an item
BlocksOf(w) == {k \in 1..Len(transcript) : transcript[k].id = w.id}

\* What was received of an item is in one block of its own, in order and once; a
\* snapshot without anything to show has none.
InItsPlace(w) ==
  LET item == ParseThreadItem(w)
      n == IF sent[w] = Whole(w) THEN Len(w.text) ELSE sent[w]
  IN  IF sent[w] = 0 \/ w.type = "userMessage" THEN BlocksOf(w) = {}
      ELSE IF Empty(RenderThreadItem(item)) /\ BlocksOf(w) = {} THEN sent[w] = Whole(w)
      ELSE \E k \in BlocksOf(w) : /\ BlocksOf(w) = {k}
                                  /\ transcript[k].text = SubSeq(item.text, 1, n)

\* In the running turn every item is in its place, whatever other items were
\* interleaved: all that was sent of it if the pump kept up.
StreamedOnce ==
  mode = "human" /\ at \in {"streaming", "interrupting"} /\ lagged = "no" =>
    \A w \in DOMAIN sent : InItsPlace(w)

NoTextTwice ==
  \A k, l \in 1..Len(transcript) :
    \A i \in 1..Len(transcript[k].text), j \in 1..Len(transcript[l].text) :
      /\ <<k, i>> # <<l, j>>
      /\ transcript[k].text[i] = transcript[l].text[j]
      => transcript[k].text[i] = Blank

\* The items of a session have ids of their own, and no two pieces say the same:
\* what TextShownOnce tells items and their pieces apart by.
DistinctItems ==
  \A s \in Sessions : \A i, j \in DOMAIN s.turns : \A v \in s.turns[i], w \in s.turns[j] :
    /\ v.id # NoId
    /\ v.id = w.id => i = j /\ v = w
    /\ \A k \in 1..Len(v.text), l \in 1..Len(w.text) :
         v.text[k] = w.text[l] /\ v.text[k] # Blank => i = j /\ v = w /\ k = l

\* However items interleave, what was received is shown in its place while the pump
\* keeps up, and, lagging or not, no piece of it twice, by its deltas, its snapshot or
\* the final response.
TextShownOnce == StreamedOnce /\ NoTextTwice

\* With final_response_only, a turn that completes has shown its final answers, or
\* if it had none its last message, and no other message.
Done(final) == {w \in DOMAIN sent : /\ sent[w] = Whole(w)
                                    /\ Message(CompletedEvent(w), final)}

TextsShown(tr) == {tr[k].text : k \in {l \in 1..Len(tr) : tr[l].kind = "Agent"}}

\* Two messages of a session never say the same: what AnswersShown tells apart by text.
DistinctMessages ==
  \A s \in Sessions : \A i, j \in DOMAIN s.turns : \A v \in s.turns[i], w \in s.turns[j] :
    v.type = "agentMessage" /\ w.type = "agentMessage" /\ v.text = w.text => i = j /\ v = w

AnswersShown ==
  [][mode = "final" /\ at = "streaming" /\ at' = "idle" /\ lagged = "no" =>
       LET final == {w.text : w \in Done(TRUE)}
           other == {w.text : w \in Done(FALSE)}
       IN  IF final # {} THEN /\ final \subseteq TextsShown(transcript')
                              /\ other \cap TextsShown(transcript') = {}
           ELSE (other # {} /\ transcript'[Len(transcript')].kind # "Error")
                  => other \cap TextsShown(transcript') # {}]_vars

\* A turn leaves the loop idle or ended again, unless its end was lost to a lag.
TurnReturns == at \in {"pending", "starting", "interrupting", "streaming"}
                 ~> at \in {"idle", "quit", "failed"} \/ lagged = "end"
=============================================================================
