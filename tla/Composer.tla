------------------------------ MODULE Composer ------------------------------
(***************************************************************************)
(* The input line of `luna chat` (crates/luna/src/commands/chat.rs): the   *)
(* buffer and its cursor, the prompt history, and the completion of        *)
(* commands, efforts and skills.  One operator per key that idle ChatApp   *)
(* handles.                                                                *)
(*                                                                         *)
(* A text is a sequence of characters.  The byte offsets of the code move  *)
(* by whole characters: the cursor here counts the characters before it.   *)
(* Case, and white space other than a blank, are left out.                 *)
(***************************************************************************)
EXTENDS Naturals, Sequences

CONSTANTS Characters, \* what a text is made of
          Typed,      \* characters the user types
          Pasted,     \* texts the user pastes
          Commands,   \* COMMANDS: [name, argument], does it take an argument?
          Efforts,    \* EFFORTS
          Skills,     \* names of the enabled skills
          MaxKeys     \* bound: the most keys a session presses

Texts == Seq(Characters)

ASSUME TextsAssumption ==
  /\ Typed \cup {" ", "/", "$", "effort", "skill"} \subseteq Characters
  /\ Pasted \subseteq Texts
  /\ Commands \in Seq([name : Texts, argument : BOOLEAN])
  /\ Efforts \in Seq(Texts) /\ Skills \in Seq(Texts)
  /\ MaxKeys \in Nat

VARIABLES text,             \* InputBuffer.text
          cursor,           \* InputBuffer.cursor
          history,          \* submitted inputs, oldest first
          history_cursor,   \* 0: none; or the entry shown
          history_draft,
          dismissed,        \* suggestions_dismissed
          selected,         \* selected_suggestion, from 0
          keys,             \* bound: keys and pastes still to come
          pasted,           \* history: was a history entry pasted into?
          composed          \* history: the text when no history entry was shown last

inputVars == <<text, cursor, history, history_cursor, history_draft, dismissed,
               selected, keys, pasted, composed>>

ComposerInit == /\ text = <<>> /\ cursor = 0
                /\ history = <<>> /\ history_cursor = 0 /\ history_draft = <<>>
                /\ dismissed = FALSE /\ selected = 0
                /\ pasted = FALSE /\ composed = <<>>

-----------------------------------------------------------------------------
(* suggestions_for: the replacements it offers                             *)

StartsWith(t, p) == Len(p) <= Len(t) /\ SubSeq(t, 1, Len(p)) = p

Drop(t, n) == SubSeq(t, n + 1, Len(t))

HasBlank(t) == \E k \in 1..Len(t) : t[k] = " "

FirstBlank(t) == CHOOSE k \in 1..Len(t) : t[k] = " " /\ \A j \in 1..(k - 1) : t[j] # " "

LastOrZero(S) == IF S = {} THEN 0 ELSE CHOOSE n \in S : \A m \in S : m <= n

\* trim_start, and trim
TrimStart(t) == Drop(t, LastOrZero({k \in 1..Len(t) : \A j \in 1..k : t[j] = " "}))
Trim(t) == LET u == TrimStart(t)
           IN  SubSeq(u, 1, LastOrZero({k \in 1..Len(u) : u[k] # " "}))

CommandOf(t) == IF HasBlank(t) THEN SubSeq(t, 1, FirstBlank(t) - 1) ELSE t
ArgumentOf(t) == IF HasBlank(t) THEN Drop(t, FirstBlank(t)) ELSE <<>>

\* The names that start with a prefix, each with what goes before and after it
Completions(names, prefix, before, after) ==
  LET found[k \in Nat] == IF k = 0 THEN <<>>
                          ELSE IF StartsWith(names[k], prefix)
                            THEN Append(found[k - 1], before \o names[k] \o after)
                          ELSE found[k - 1]
  IN  found[Len(names)]

CommandNames == [k \in 1..Len(Commands) |-> Commands[k].name]

TakesArgument(name) == \E k \in 1..Len(Commands) : Commands[k].name = name
                                                    /\ Commands[k].argument

SuggestionsFor(t) ==
  IF StartsWith(t, <<"$">>) /\ ~HasBlank(t)
    THEN Completions(Skills, Drop(t, 1), <<"$">>, <<" ">>)
  ELSE IF ~StartsWith(t, <<"/">>) THEN <<>>
  ELSE IF ~HasBlank(t)
    THEN LET names == Completions(CommandNames, t, <<>>, <<>>)
         IN  [k \in 1..Len(names) |-> IF TakesArgument(names[k]) THEN names[k] \o <<" ">>
                                                                 ELSE names[k]]
  ELSE LET command == CommandOf(t)
           argument == TrimStart(ArgumentOf(t))
       IN  CASE command = <<"/", "effort">> ->
                  Completions(Efforts, argument, <<"/", "effort", " ">>, <<>>)
             [] command = <<"/", "skill">> ->
                  Completions(Skills, argument, <<"/", "skill", " ">>, <<>>)
             [] OTHER -> <<>>

\* ChatApp::suggestions in the idle loop, where the app is never busy
Suggestions == IF dismissed THEN <<>> ELSE SuggestionsFor(text)

-----------------------------------------------------------------------------
(* InputBuffer                                                             *)

\* draw clamps the selection to what is offered.
Clamped(n) == selected' = IF n < Len(Suggestions') THEN n ELSE 0

\* Text without what is between two positions, and with t at the cursor
Cut(first, last) == SubSeq(text, 1, first) \o Drop(text, last)
Inserted(t) == SubSeq(text, 1, cursor) \o t \o Drop(text, cursor)

\* An edit ends with after_input_edit.
Edit(t, c) == /\ text' = t
              /\ cursor' = c
              /\ history_cursor' = 0
              /\ dismissed' = FALSE
              /\ selected' = 0
              /\ pasted' = FALSE
              /\ UNCHANGED <<history, history_draft>>

\* InputBuffer::set: the cursor is at the end.
Set(t) == text' = t /\ cursor' = Len(t)

Type(ch) == Edit(Inserted(<<ch>>), cursor + 1)

Backspace == IF cursor = 0 THEN Edit(text, cursor)
             ELSE Edit(Cut(cursor - 1, cursor), cursor - 1)

Delete == IF cursor = Len(text) THEN Edit(text, cursor)
          ELSE Edit(Cut(cursor, cursor + 1), cursor)

\* Ctrl-U, and Ctrl-C when there is text
ClearLine == Edit(<<>>, 0)

\* A paste is not followed by after_input_edit.
Paste(t) == /\ text' = Inserted(t)
            /\ cursor' = cursor + Len(t)
            /\ pasted' = (pasted \/ history_cursor # 0)
            /\ UNCHANGED <<history, history_cursor, history_draft, dismissed>>
            /\ Clamped(selected)

\* Left, Right, Home and End
MoveCursor == /\ cursor' \in {IF cursor > 0 THEN cursor - 1 ELSE cursor,
                             IF cursor < Len(text) THEN cursor + 1 ELSE cursor,
                             0, Len(text)}
              /\ UNCHANGED <<text, history, history_cursor, history_draft, dismissed,
                             selected, pasted>>

-----------------------------------------------------------------------------
(* Suggestions                                                             *)

\* Tab
AcceptSuggestion ==
  /\ selected < Len(Suggestions)
  /\ Set(Suggestions[selected + 1])
  /\ dismissed' = FALSE
  /\ selected' = 0
  /\ UNCHANGED <<history, history_cursor, history_draft, pasted>>

\* Up and BackTab, and Down
MoveSelection ==
  /\ Suggestions # <<>>
  /\ selected' \in {IF selected = 0 THEN Len(Suggestions) - 1 ELSE selected - 1,
                    (selected + 1) % Len(Suggestions)}
  /\ UNCHANGED <<text, cursor, history, history_cursor, history_draft, dismissed,
                 pasted>>

\* Esc
Dismiss == /\ dismissed' = TRUE
           /\ selected' = 0
           /\ UNCHANGED <<text, cursor, history, history_cursor, history_draft, pasted>>

-----------------------------------------------------------------------------
(* History: Up and Down while nothing is suggested                         *)

Show(k) == /\ history_cursor' = k
           /\ Set(history[k])
           /\ pasted' = FALSE
           /\ dismissed' = TRUE
           /\ Clamped(selected)
           /\ UNCHANGED history

\* Variant: the draft is saved at every step.
HistoryUpSaves == /\ Suggestions = <<>> /\ history # <<>>
                  /\ history_draft' = text
                  /\ Show(CASE history_cursor = 0 -> Len(history)
                            [] history_cursor = 1 -> 1
                            [] OTHER              -> history_cursor - 1)

\* The first step saves what was being composed.
HistoryUp == /\ Suggestions = <<>> /\ history # <<>>
             /\ history_draft' = IF history_cursor = 0 THEN text ELSE history_draft
             /\ Show(CASE history_cursor = 0 -> Len(history)
                       [] history_cursor = 1 -> 1
                       [] OTHER              -> history_cursor - 1)

\* Variant: the text is replaced under the cursor.
HistoryDownInPlace ==
  /\ Suggestions = <<>> /\ history_cursor # 0
  /\ history_cursor' = 0
  /\ text' = history_draft
  /\ history_draft' = <<>>
  /\ dismissed' = TRUE
  /\ pasted' = FALSE
  /\ Clamped(selected)
  /\ UNCHANGED <<cursor, history>>

\* Past the newest entry the draft comes back.
HistoryDown ==
  /\ Suggestions = <<>> /\ history_cursor # 0
  /\ IF history_cursor < Len(history)
       THEN Show(history_cursor + 1) /\ UNCHANGED history_draft
       ELSE /\ history_cursor' = 0
            /\ Set(history_draft)
            /\ history_draft' = <<>>
            /\ dismissed' = TRUE
            /\ pasted' = FALSE
            /\ Clamped(selected)
            /\ UNCHANGED history

\* Enter takes the text; what is not blank enters the history.
TakeInput == /\ Set(<<>>)
             /\ history' = IF Trim(text) = <<>> THEN history ELSE Append(history, text)
             /\ history_cursor' = 0
             /\ history_draft' = <<>>
             /\ dismissed' = FALSE
             /\ selected' = 0
             /\ pasted' = FALSE

\* What the line holds while no entry of the history is shown
Compose == composed' = IF history_cursor' = 0 THEN text' ELSE composed

\* The keys that leave the chat as it is
ComposerKey == /\ keys > 0
               /\ keys' = keys - 1
               /\ \/ \E ch \in Typed : Type(ch)
                  \/ \E t \in Pasted : Paste(t)
                  \/ Backspace \/ Delete \/ ClearLine \/ MoveCursor
                  \/ AcceptSuggestion \/ MoveSelection \/ Dismiss
                  \/ HistoryUp \/ HistoryDown
               /\ Compose

-----------------------------------------------------------------------------
ComposerTypeOK ==
  /\ text \in Texts /\ cursor \in Nat
  /\ history \in Seq(Texts) /\ history_cursor \in Nat /\ history_draft \in Texts
  /\ dismissed \in BOOLEAN /\ selected \in Nat
  /\ keys \in 0..MaxKeys /\ pasted \in BOOLEAN /\ composed \in Texts

\* After any sequence of keys, slicing the buffer at the cursor, and the history at its
\* cursor, cannot panic; while an entry of the history is shown the text is that entry,
\* so nothing typed is lost by moving on.  (A paste into it is: it does not leave the
\* history.)
CursorsFit ==
  /\ ComposerTypeOK
  /\ cursor <= Len(text) /\ history_cursor <= Len(history)
  /\ history_cursor # 0 /\ ~pasted => text = history[history_cursor]

\* What was being composed when a walk through the history began is in the line again
\* when Down leaves the history, whatever entries were shown and pasted into between.
DraftSurvives ==
  [][HistoryDown /\ history_cursor' = 0 => text' = composed]_inputVars
=============================================================================
