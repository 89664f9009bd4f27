----------------------------- MODULE ThreadItems -----------------------------
(***************************************************************************)
(* Thread items on their way from the wire to a reader: parsing            *)
(* (crates/sdk/src/api.rs) and the event renderer that turns deltas and    *)
(* completed snapshots into fragments (crates/sdk/src/events/render.rs).   *)
(*                                                                         *)
(* An item on the wire is a function on the fields it has.  Text is a      *)
(* sequence of pieces, Blank one that is only white space; for an item     *)
(* without text of its own it stands for its other contents.  Markdown     *)
(* decoration is left out.                                                 *)
(***************************************************************************)
EXTENDS Naturals, Sequences

Blank == 0
NoId == "no id"
NoPhase == "no phase"

Field(w, f, default) == IF f \in DOMAIN w THEN w[f] ELSE default

-----------------------------------------------------------------------------
(* parse_thread_item and what it calls: it never fails                     *)

\* RenderedItem's kind of each type of item
RenderKind == [agentMessage |-> "AgentMessage", userMessage |-> "UserMessage",
               plan |-> "Plan", todoList |-> "Plan", reasoning |-> "Reasoning",
               commandExecution |-> "CommandExecution", fileChange |-> "FileChange",
               mcpToolCall |-> "ToolCall", dynamicToolCall |-> "ToolCall",
               collabToolCall |-> "ToolCall", webSearch |-> "ToolCall",
               imageView |-> "ToolCall", enteredReviewMode |-> "Status",
               exitedReviewMode |-> "Status", contextCompaction |-> "Status",
               error |-> "Error", unknown |-> "Unknown"]

KnownTypes == DOMAIN RenderKind \ {"unknown"}

\* The types whose deltas the pump forwards
DeltaTypes == {"agentMessage", "plan", "reasoning"}

Phase(w) == IF "phase" \notin DOMAIN w THEN NoPhase
            ELSE IF w.phase \in {"commentary", "final_answer"} THEN w.phase
            ELSE "unknown"

ReasoningText(w) == IF "text" \in DOMAIN w THEN w.text
                    ELSE Field(w, "summary", <<>>) \o Field(w, "content", <<>>)

ThreadItem(type, id, text, phase) ==
  [type |-> type, id |-> id, text |-> text, phase |-> phase]

ParseThreadItem(w) ==
  IF Field(w, "type", "unknown") \in KnownTypes
    THEN ThreadItem(w.type, Field(w, "id", ""),
                    IF w.type = "reasoning" THEN ReasoningText(w) ELSE Field(w, "text", <<>>),
                    IF w.type = "agentMessage" THEN Phase(w) ELSE NoPhase)
    ELSE ThreadItem("unknown", Field(w, "id", NoId), Field(w, "text", <<>>), NoPhase)

-----------------------------------------------------------------------------
(* ThreadEvents: the item events, and the end of a turn                    *)

NoItem == ThreadItem("unknown", NoId, <<>>, NoPhase)
ItemEvent(kind, item) == [kind |-> kind, item |-> item]
TurnEvent(kind) == ItemEvent(kind, NoItem)

\* delta_item_updated: a delta without text is no event.
DeltaItemUpdated(type, w) ==
  LET text == Field(w, "delta", Field(w, "text", <<>>))
  IN  IF text = <<>> THEN <<>>
      ELSE <<ItemEvent("itemUpdated", ThreadItem(type, Field(w, "id", ""), text, NoPhase))>>

-----------------------------------------------------------------------------
(* render_thread_item and ThreadEventRenderer                              *)

Fragment(item, text) == [kind |-> RenderKind[item.type], id |-> item.id, text |-> text,
                         continuation |-> FALSE]

\* quote_block leaves nothing of a blank text.
IsBlank(text) == \A k \in 1..Len(text) : text[k] = Blank

RenderThreadItem(item) ==
  Fragment(item, IF item.type = "reasoning" /\ IsBlank(item.text) THEN <<>> ELSE item.text)

\* Only these have no markdown without text; the others say what they are.
Empty(f) == f.kind \in {"AgentMessage", "Reasoning"} /\ f.text = <<>>

Streamed(f) == <<f.kind, f.id>>

Rendered(out, streamed) == [out |-> out, streamed |-> streamed]

\* Variant: what was streamed is remembered by kind.
RenderCompletedByKind(streamed, item) ==
  LET f == RenderThreadItem(item)
  IN  Rendered(IF Empty(f) \/ \E s \in streamed : s[1] = f.kind THEN <<>> ELSE <<f>>,
               streamed \ {Streamed(f)})

\* The snapshot of a streamed item is suppressed, once.
RenderCompleted(streamed, item) ==
  LET f == RenderThreadItem(item)
  IN  Rendered(IF Empty(f) \/ Streamed(f) \in streamed THEN <<>> ELSE <<f>>,
               streamed \ {Streamed(f)})

\* The text of a delta is rendered as it is.
RenderUpdated(streamed, item) ==
  LET f == IF item.type \in DeltaTypes THEN Fragment(item, item.text)
                                       ELSE RenderThreadItem(item)
  IN  IF item.type \in DeltaTypes /\ item.text = <<>> THEN Rendered(<<>>, streamed)
      ELSE Rendered(<<[f EXCEPT !.continuation = TRUE]>>,
                    IF f.id = NoId THEN streamed ELSE streamed \cup {Streamed(f)})

ErrorFragment == [kind |-> "Error", id |-> NoId, text |-> <<>>, continuation |-> FALSE]

\* The renderer's next event: what it shows, and what it remembers.
Render(streamed, e) ==
  CASE e.kind = "itemUpdated"            -> RenderUpdated(streamed, e.item)
    [] e.kind = "itemCompleted"          -> RenderCompleted(streamed, e.item)
    [] e.kind \in {"error", "turnFailed"} -> Rendered(<<ErrorFragment>>, streamed)
    [] OTHER                             -> Rendered(<<>>, streamed)

\* AgentMessageItem::is_final_answer
IsFinalAnswer(item) == item.type = "agentMessage" /\ item.phase = "final_answer"

-----------------------------------------------------------------------------
(* What the app-server sends for an item, as the tests record it: deltas   *)
(* of a text, then the snapshot with all of it.                            *)

DeltaEvents(w, k) == DeltaItemUpdated(w.type, [id |-> w.id, delta |-> <<w.text[k]>>])

CompletedEvent(w) == ItemEvent("itemCompleted", ParseThreadItem(w))
=============================================================================
