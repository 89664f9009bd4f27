----------------------------- MODULE Chat_proofs -----------------------------
(***************************************************************************)
(* What the chat's loop guarantees for every session: every line typed,    *)
(* every set of commands and skills, every number and size of turns.       *)
(***************************************************************************)
EXTENDS Chat, NumberFacts, SequenceTheorems, TLAPS

\* An interrupt is awaited only while none was accepted in this turn.
Loop == /\ busy \in BOOLEAN /\ turn_running \in BOOLEAN /\ interrupt_requested \in BOOLEAN
        /\ at \in Points
        /\ BusyIsTurn
        /\ interrupts = IF interrupt_requested THEN 1 ELSE 0
        /\ at = "interrupting" => ~interrupt_requested

\* The flags of the loop agree with its point at every step.
LEMMA LoopInvariant == Spec => []Loop
<1> USE DEF Loop, BusyIsTurn, Points
<1>1. Init => Loop
  <2> SUFFICES ASSUME Init PROVE Loop
    OBVIOUS
  <2>1. at \in {"pending", "idle"} /\ busy = FALSE /\ turn_running = FALSE
    BY DEF Init
  <2>2. interrupt_requested = FALSE /\ interrupts = 0
    BY DEF Init
  <2> QED
    BY <2>1, <2>2
<1>2. Loop /\ [Next]_vars => Loop'
  <2> SUFFICES ASSUME Loop, [Next]_vars PROVE Loop'
    OBVIOUS
  <2> USE DEF appVars, turnVars, Finish
  <2>1. ASSUME \/ EditLine \/ QuitKey \/ ClearTranscript \/ Compacted \/ StreamFails
        PROVE  Loop'
    BY <2>1 DEF EditLine, QuitKey, ClearTranscript, Compacted, StreamFails
  <2>2. ASSUME Submit PROVE Loop'
    <3>1. /\ at = "idle" /\ at' \in {"pending", "quit", "compacting", "idle"}
          /\ UNCHANGED <<busy, turn_running, interrupt_requested, interrupts>>
      BY <2>2 DEF Submit
    <3> QED
      BY <3>1
  <2>3. ASSUME StartTurn \/ TurnAccepted \/ TurnRefused PROVE Loop'
    <3>1. CASE StartTurn
      <4>1. at' = "starting" /\ busy' = TRUE /\ turn_running' = TRUE
        BY <3>1 DEF StartTurn
      <4>2. interrupt_requested' = FALSE /\ interrupts' = 0
        BY <3>1 DEF StartTurn
      <4> QED
        BY <4>1, <4>2
    <3>2. CASE TurnAccepted
      BY <3>2 DEF TurnAccepted
    <3>3. CASE TurnRefused
      BY <3>3 DEF TurnRefused
    <3> QED
      BY <2>3, <3>1, <3>2, <3>3
  <2>4. ASSUME NEW w, NEW n, Deliver(w, n) \/ Skip(w, n) PROVE Loop'
    BY <2>4 DEF Deliver, Skip
  <2>5. ASSUME NEW kind, TurnEnds(kind) PROVE Loop'
    BY <2>5 DEF TurnEnds
  <2>6. ASSUME Interrupt \/ InterruptAccepted \/ InterruptRefused PROVE Loop'
    <3>1. CASE Interrupt
      BY <3>1 DEF Interrupt
    <3>2. CASE InterruptAccepted
      BY <3>2 DEF InterruptAccepted
    <3>3. CASE InterruptRefused
      BY <3>3 DEF InterruptRefused
    <3> QED
      BY <2>6, <3>1, <3>2, <3>3
  <2>7. ASSUME UNCHANGED vars PROVE Loop'
    BY <2>7 DEF vars
  <2>8. ASSUME StreamCloses PROVE Loop'
    BY <2>8 DEF StreamCloses
  <2> QED
    BY <2>1, <2>2, <2>3, <2>4, <2>5, <2>6, <2>7, <2>8 DEF Next
<1> QED
  BY <1>1, <1>2, PTL DEF Spec

\* BusyIsTurn: no way out of a turn leaves the app looking busy.
THEOREM BusyWhileTurn == Spec => []BusyIsTurn
BY LoopInvariant, PTL DEF Loop

\* OneInterrupt, however often Ctrl-C is pressed and refused.
THEOREM InterruptedOnce == Spec => []OneInterrupt
<1>1. Loop => OneInterrupt
  BY DEF Loop, OneInterrupt
<1> QED
  BY <1>1, LoopInvariant, PTL

-----------------------------------------------------------------------------
\* While an entry of the history is shown, the draft is what was being composed.
Drafted == IF history_cursor = 0 THEN composed = text ELSE history_draft = composed

\* The draft is saved by the first step into the history and by no later one.
LEMMA DraftInvariant == Spec => []Drafted
<1>1. Init => Drafted
  BY DEF Init, ComposerInit, Drafted
<1>2. Drafted /\ [Next]_vars => Drafted'
  <2> SUFFICES ASSUME Drafted, [Next]_vars PROVE Drafted'
    OBVIOUS
  <2>1. ASSUME Compose,
               history_cursor' # 0 => history_draft' = IF history_cursor = 0 THEN text
                                                       ELSE history_draft
        PROVE  Drafted'
    BY <2>1 DEF Compose, Drafted
  <2>2. ASSUME EditLine PROVE Drafted'
    <3>c. Compose
      BY <2>2 DEF EditLine, ComposerKey
    <3>1. CASE \/ \E ch \in Typed : Type(ch)
               \/ Backspace \/ Delete \/ ClearLine
      BY <2>1, <3>c, <3>1 DEF Type, Backspace, Delete, ClearLine, Edit
    <3>2. CASE (\E t \in Pasted : Paste(t)) \/ MoveCursor
               \/ AcceptSuggestion \/ MoveSelection \/ Dismiss
      <4>1. history_cursor' = history_cursor /\ history_draft' = history_draft
        BY <3>2 DEF Paste, MoveCursor, AcceptSuggestion, MoveSelection, Dismiss
      <4> QED
        BY <3>c, <4>1 DEF Compose, Drafted
    <3>3. CASE HistoryUp
      BY <2>1, <3>c, <3>3 DEF HistoryUp
    <3>4. CASE HistoryDown
      BY <2>1, <3>c, <3>4 DEF HistoryDown
    <3> QED
      BY <2>2, <3>1, <3>2, <3>3, <3>4 DEF EditLine, ComposerKey
  <2>3. ASSUME Submit PROVE Drafted'
    BY <2>1, <2>3 DEF Submit, TakeInput
  <2>4. ASSUME \/ QuitKey \/ ClearTranscript \/ Compacted \/ StreamFails \/ StreamCloses
               \/ StartTurn \/ TurnAccepted \/ TurnRefused
               \/ Interrupt \/ InterruptAccepted \/ InterruptRefused \/ UNCHANGED vars
        PROVE  UNCHANGED inputVars
    BY <2>4 DEF QuitKey, ClearTranscript, Compacted, StreamFails, StreamCloses, StartTurn,
       TurnAccepted, TurnRefused, Interrupt, InterruptAccepted, InterruptRefused, vars
  <2>5. ASSUME NEW w, NEW n, Deliver(w, n) \/ Skip(w, n) PROVE UNCHANGED inputVars
    BY <2>5 DEF Deliver, Skip
  <2>6. ASSUME NEW kind, TurnEnds(kind) PROVE UNCHANGED inputVars
    BY <2>6 DEF TurnEnds
  <2>7. ASSUME UNCHANGED inputVars PROVE Drafted'
    BY <2>7 DEF inputVars, Drafted
  <2> QED
    BY <2>2, <2>3, <2>4, <2>5, <2>6, <2>7 DEF Next
<1> QED
  BY <1>1, <1>2, PTL DEF Spec

-----------------------------------------------------------------------------
\* A part of a text is a text.
LEMMA PartOfText ==
  ASSUME NEW C, NEW t \in Seq(C), NEW m \in 0..Len(t), NEW n \in 0..Len(t), m <= n
  PROVE  /\ SubSeq(t, m + 1, n) \in Seq(C)
         /\ Len(SubSeq(t, m + 1, n)) = n - m
<1>1. m + 1 \in 1..(Len(t) + 1) /\ n \in ((m + 1) - 1)..Len(t)
  BY LenProperties
<1> QED
  BY <1>1, SubSeqProperties

\* What Drop leaves of a text.
LEMMA DropIs ==
  ASSUME NEW C, NEW t \in Seq(C), NEW n \in 0..Len(t)
  PROVE  Drop(t, n) \in Seq(C) /\ Len(Drop(t, n)) = Len(t) - n
<1>1. Len(t) \in 0..Len(t) /\ n <= Len(t)
  BY LenProperties
<1> QED
  BY <1>1, PartOfText DEF Drop

\* The first characters of a text.
LEMMA HeadIs ==
  ASSUME NEW C, NEW t \in Seq(C), NEW n \in 0..Len(t)
  PROVE  SubSeq(t, 1, n) \in Seq(C) /\ Len(SubSeq(t, 1, n)) = n
<1>1. 0 \in 0..Len(t) /\ 0 <= n /\ 0 + 1 = 1 /\ n - 0 = n
  BY LenProperties
<1> QED
  BY <1>1, PartOfText

\* The last of some places is one of them, or zero.
LEMMA LastOrZeroIs ==
  ASSUME NEW b \in Nat, NEW S \in SUBSET (1..b)
  PROVE  LastOrZero(S) \in 0..b /\ (S # {} => LastOrZero(S) \in S)
<1>1. CASE S = {}
  BY <1>1 DEF LastOrZero
<1>2. CASE S # {}
  <2>1. S \subseteq Nat /\ \A n \in S : n <= b
    OBVIOUS
  <2>2. \E n \in S : \A m \in S : m <= n
    BY <1>2, <2>1, GreatestNumber
  <2>3. LastOrZero(S) \in S
    BY <1>2, <2>2 DEF LastOrZero
  <2> DEFINE n == LastOrZero(S)
  <2>4. n \in S
    BY <2>3
  <2> HIDE DEF n
  <2>5. n \in 0..b
    BY <2>4
  <2> QED
    BY <2>3, <2>5 DEF n
<1> QED
  BY <1>1, <1>2

\* A trimmed text is a text.
LEMMA TrimIs ==
  ASSUME NEW C, NEW t \in Seq(C)
  PROVE  TrimStart(t) \in Seq(C) /\ Trim(t) \in Seq(C)
<1>1. ASSUME NEW u \in Seq(C) PROVE TrimStart(u) \in Seq(C)
  <2>1. LastOrZero({k \in 1..Len(u) : \A j \in 1..k : u[j] = " "}) \in 0..Len(u)
    BY LenProperties, LastOrZeroIs
  <2> QED
    BY <2>1, DropIs DEF TrimStart
<1>2. ASSUME NEW u \in Seq(C)
      PROVE  SubSeq(u, 1, LastOrZero({k \in 1..Len(u) : u[k] # " "})) \in Seq(C)
  <2>1. LastOrZero({k \in 1..Len(u) : u[k] # " "}) \in 0..Len(u)
    BY LenProperties, LastOrZeroIs
  <2> QED
    BY <2>1, HeadIs
<1> QED
  BY <1>1, <1>2 DEF Trim

\* The first of some places.
LEMMA FirstPlace ==
  ASSUME NEW b \in Nat, NEW S \in SUBSET (1..b), S # {}
  PROVE  \E n \in 1..b : n \in S /\ \A j \in 1..(n - 1) : j \notin S
<1>1. S \subseteq Nat
  OBVIOUS
<1>2. PICK n \in S : \A m \in S : n <= m
  BY <1>1, LeastNumber
<1>3. n \in 1..b
  OBVIOUS
<1>4. ASSUME NEW j \in 1..(n - 1) PROVE j \notin S
  BY <1>2, <1>3
<1> QED
  BY <1>3, <1>4

\* The argument is what follows the first blank.
LEMMA ArgumentIs ==
  ASSUME NEW C, NEW t \in Seq(C)
  PROVE  ArgumentOf(t) \in Seq(C)
<1>1. <<>> \in Seq(C)
  OBVIOUS
<1>2. CASE HasBlank(t)
  <2>1. Len(t) \in Nat
    BY LenProperties
  <2>2. \E n \in 1..Len(t) : t[n] = " " /\ \A j \in 1..(n - 1) : t[j] # " "
    <3> DEFINE blanks == {k \in 1..Len(t) : t[k] = " "}
    <3>1. blanks \in SUBSET (1..Len(t)) /\ blanks # {}
      BY <1>2 DEF HasBlank
    <3>2. \A k \in 1..Len(t) : k \in blanks <=> t[k] = " "
      OBVIOUS
    <3> HIDE DEF blanks
    <3>3. PICK n \in 1..Len(t) : n \in blanks /\ \A j \in 1..(n - 1) : j \notin blanks
      BY <2>1, <3>1, FirstPlace
    <3>4. \A j \in 1..(n - 1) : j \in 1..Len(t)
      BY <2>1
    <3> QED
      BY <3>2, <3>3, <3>4
  <2>4. FirstBlank(t) \in 1..Len(t)
    BY <2>2 DEF FirstBlank
  <2> DEFINE m == FirstBlank(t)
  <2>5. m \in 0..Len(t)
    <3>1. m \in 1..Len(t)
      BY <2>4
    <3> HIDE DEF m
    <3> QED
      BY <2>1, <3>1
  <2>6. Drop(t, m) \in Seq(C)
    <3> HIDE DEF m
    <3> QED
      BY <2>5, DropIs
  <2> QED
    BY <1>2, <2>6 DEF ArgumentOf
<1> QED
  BY <1>1, <1>2 DEF ArgumentOf

\* Completions: texts, for every list of names.
LEMMA CompletionsAreTexts ==
  ASSUME NEW names \in Seq(Texts), NEW prefix, NEW before \in Texts, NEW after \in Texts
  PROVE  Completions(names, prefix, before, after) \in Seq(Texts)
<1> DEFINE Offered(x, k) == IF StartsWith(names[k], prefix)
                              THEN Append(x, before \o names[k] \o after) ELSE x
           found == CHOOSE h : h = [k \in Nat |-> IF k = 0 THEN <<>>
                                      ELSE IF StartsWith(names[k], prefix)
                                        THEN Append(h[k - 1], before \o names[k] \o after)
                                      ELSE h[k - 1]]
           V == Seq({before \o names[k] \o after : k \in Nat})
           step == [k \in Nat |-> [v \in V |-> Offered(v, k + 1)]]
<1>1. Completions(names, prefix, before, after) = found[Len(names)]
  BY DEF Completions
<1>2. step \in [Nat -> [V -> V]]
  <2>1. ASSUME NEW k \in Nat, NEW v \in V PROVE Offered(v, k + 1) \in V
    <3> DEFINE E == {before \o names[i] \o after : i \in Nat}
               e == before \o names[k + 1] \o after
    <3>1. e \in E
      <4>1. k + 1 \in Nat
        OBVIOUS
      <4> HIDE DEF V
      <4> QED
        BY <4>1, Zenon
    <3> HIDE DEF E, e
    <3>2. V = Seq(E)
      BY DEF E
    <3> HIDE DEF V
    <3>3. Append(v, e) \in V
      BY <3>1, <3>2
    <3> QED
      BY <3>3 DEF e
  <2> HIDE DEF V, Offered
  <2> QED
    BY <2>1
<1>3. PICK f \in [Nat -> V] : Repeats(f, <<>>, step)
  <2>1. <<>> \in V
    OBVIOUS
  <2> HIDE DEF V, step
  <2> QED
    BY <1>2, <2>1, Repeated
<1>4. f[0] = <<>> /\ \A k \in Nat : f[k + 1] = Offered(f[k], k + 1)
  <2> HIDE DEF V, Offered
  <2> QED
    BY <1>3 DEF Repeats
<1>5. f = [k \in Nat |-> IF k = 0 THEN <<>>
                         ELSE IF StartsWith(names[k], prefix)
                           THEN Append(f[k - 1], before \o names[k] \o after)
                         ELSE f[k - 1]]
  <2>1. ASSUME NEW k \in Nat
        PROVE  f[k] = IF k = 0 THEN <<>>
                      ELSE IF StartsWith(names[k], prefix)
                        THEN Append(f[k - 1], before \o names[k] \o after)
                      ELSE f[k - 1]
    <3>1. CASE k = 0
      BY <1>4, <3>1
    <3>2. CASE k # 0
      <4>1. PICK j \in Nat : k = j + 1
        BY <3>2
      <4>2. j = k - 1
        BY <4>1
      <4>3. f[k] = Offered(f[j], k)
        <5> HIDE DEF V, Offered
        <5> QED
          BY <1>4, <4>1
      <4> HIDE DEF V
      <4> QED
        BY <3>2, <4>2, <4>3
    <3> QED
      BY <3>1, <3>2
  <2> HIDE DEF V
  <2> QED
    BY <2>1
<1>6. found = [k \in Nat |-> IF k = 0 THEN <<>>
                             ELSE IF StartsWith(names[k], prefix)
                               THEN Append(found[k - 1], before \o names[k] \o after)
                             ELSE found[k - 1]]
  BY <1>5
<1> HIDE DEF found
<1>7. found[0] = <<>> /\ \A k \in Nat : found[k + 1] = Offered(found[k], k + 1)
  <2>1. found[0] = <<>>
    BY <1>6
  <2>2. ASSUME NEW k \in Nat PROVE found[k + 1] = Offered(found[k], k + 1)
    <3>1. k + 1 \in Nat /\ k + 1 # 0 /\ (k + 1) - 1 = k
      OBVIOUS
    <3> QED
      BY <1>6, <3>1
  <2> QED
    BY <2>1, <2>2
<1> DEFINE S == {k \in Nat : k <= Len(names) => found[k] \in Seq(Texts)}
<1>8. 0 \in S
  <2>1. found[0] \in Seq(Texts)
    BY <1>7, EmptySeq
  <2> QED
    BY <2>1
<1>9. ASSUME NEW k \in Nat, k \in S PROVE k + 1 \in S
  <2> SUFFICES ASSUME k + 1 <= Len(names) PROVE found[k + 1] \in Seq(Texts)
    OBVIOUS
  <2>1. found[k] \in Seq(Texts)
    BY <1>9, LenProperties
  <2>2. before \o names[k + 1] \o after \in Texts
    <3>1. names[k + 1] \in Texts
      BY LenProperties, ElementOfSeq
    <3> QED
      BY <3>1 DEF Texts
  <2>3. Append(found[k], before \o names[k + 1] \o after) \in Seq(Texts)
    BY <2>1, <2>2
  <2> QED
    BY <1>7, <2>1, <2>3
<1>10. Nat \subseteq S
  <2> HIDE DEF S
  <2> QED
    BY <1>8, <1>9, EveryNumber
<1>11. Len(names) \in Nat
  BY LenProperties
<1> QED
  BY <1>1, <1>10, <1>11

\* suggestions_for offers texts.
LEMMA SuggestionsAreTexts ==
  ASSUME NEW t \in Texts
  PROVE  SuggestionsFor(t) \in Seq(Texts)
<1>1. /\ <<"$">> \in Texts /\ <<" ">> \in Texts /\ <<>> \in Texts
      /\ <<"/", "effort", " ">> \in Texts /\ <<"/", "skill", " ">> \in Texts
  <2> USE DEF Texts
  <2>1. ASSUME NEW c \in Characters PROVE <<c>> \in Seq(Characters)
    OBVIOUS
  <2>2. ASSUME NEW c \in Characters, NEW d \in Characters, NEW e \in Characters
        PROVE  <<c, d, e>> \in Seq(Characters)
    OBVIOUS
  <2>3. " " \in Characters /\ "/" \in Characters /\ "$" \in Characters
    BY TextsAssumption
  <2>4. "effort" \in Characters /\ "skill" \in Characters
    BY TextsAssumption
  <2>5. <<>> \in Seq(Characters)
    OBVIOUS
  <2> QED
    BY <2>1, <2>2, <2>3, <2>4, <2>5
<1>2. Efforts \in Seq(Texts) /\ Skills \in Seq(Texts)
  BY TextsAssumption
<1>3. CommandNames \in Seq(Texts)
  <2>1. Commands \in Seq([name : Texts, argument : BOOLEAN]) /\ Len(Commands) \in Nat
    BY TextsAssumption, LenProperties
  <2>2. ASSUME NEW k \in 1..Len(Commands) PROVE Commands[k].name \in Texts
    <3>1. Commands[k] \in [name : Texts, argument : BOOLEAN]
      BY <2>1, ElementOfSeq
    <3> QED
      BY <3>1
  <2> QED
    BY <2>1, <2>2 DEF CommandNames
<1>4. \A p : Completions(Skills, p, <<"$">>, <<" ">>) \in Seq(Texts)
  BY <1>1, <1>2, CompletionsAreTexts
<1>5. \A p : Completions(Efforts, p, <<"/", "effort", " ">>, <<>>) \in Seq(Texts)
  BY <1>1, <1>2, CompletionsAreTexts
<1>6. \A p : Completions(Skills, p, <<"/", "skill", " ">>, <<>>) \in Seq(Texts)
  BY <1>1, <1>2, CompletionsAreTexts
<1>7. ASSUME NEW names \in Seq(Texts)
      PROVE  [k \in 1..Len(names) |-> IF TakesArgument(names[k]) THEN names[k] \o <<" ">>
                                                                 ELSE names[k]] \in Seq(Texts)
  <2>1. Len(names) \in Nat
    BY LenProperties
  <2> DEFINE e(k) == IF TakesArgument(names[k]) THEN names[k] \o <<" ">> ELSE names[k]
  <2>2. ASSUME NEW k \in 1..Len(names) PROVE e(k) \in Texts
    <3>1. names[k] \in Texts
      OBVIOUS
    <3>2. names[k] \o <<" ">> \in Texts
      BY <1>1, <3>1, ConcatProperties DEF Texts
    <3> QED
      BY <3>1, <3>2
  <2> HIDE DEF e
  <2>3. [k \in 1..Len(names) |-> e(k)] \in [1..Len(names) -> Texts]
    BY <2>2
  <2>4. [k \in 1..Len(names) |-> e(k)] \in Seq(Texts)
    BY <2>1, <2>3, SeqDef
  <2> QED
    BY <2>4 DEF e
<1>8. Completions(CommandNames, t, <<>>, <<>>) \in Seq(Texts)
  BY <1>1, <1>3, CompletionsAreTexts
<1>9. <<>> \in Seq(Texts)
  OBVIOUS
<1> HIDE DEF Completions
<1>10. \A command, argument :
         (CASE command = <<"/", "effort">> ->
                 Completions(Efforts, argument, <<"/", "effort", " ">>, <<>>)
            [] command = <<"/", "skill">> ->
                 Completions(Skills, argument, <<"/", "skill", " ">>, <<>>)
            [] OTHER -> <<>>) \in Seq(Texts)
  BY <1>5, <1>6, <1>9
<1> QED
  BY <1>4, <1>7, <1>8, <1>9, <1>10 DEF SuggestionsFor

\* The input line: its types, its cursors, and that an entry of the history is shown with
\* the suggestions dismissed, so that none can be accepted in its place.
Line ==
  /\ text \in Texts /\ cursor \in 0..Len(text)
  /\ history \in Seq(Texts) /\ history_cursor \in 0..Len(history) /\ history_draft \in Texts
  /\ dismissed \in BOOLEAN /\ selected \in Nat
  /\ keys \in 0..MaxKeys /\ pasted \in BOOLEAN
  /\ history_cursor # 0 => dismissed
  /\ history_cursor # 0 /\ ~pasted => text = history[history_cursor]

\* The sizes the line's invariant speaks of are numbers.
LEMMA Lengths ==
  ASSUME Line
  PROVE  /\ Len(text) \in Nat /\ Len(history) \in Nat /\ Len(history_draft) \in Nat
         /\ MaxKeys \in Nat /\ cursor \in Nat /\ <<>> \in Texts /\ Len(<<>>) = 0
<1>1. text \in Texts /\ history \in Seq(Texts) /\ history_draft \in Texts /\ cursor \in 0..Len(text)
  BY DEF Line
<1>2. Len(text) \in Nat /\ Len(history) \in Nat /\ Len(history_draft) \in Nat
  BY <1>1, LenProperties DEF Texts
<1>3. <<>> \in Texts /\ Len(<<>>) = 0
  BY EmptySeq DEF Texts
<1>4. MaxKeys \in Nat
  BY TextsAssumption
<1>5. cursor \in Nat
  <2> HIDE DEF Texts
  <2>1. \A n \in Nat : \A c \in 0..n : c \in Nat
    OBVIOUS
  <2> QED
    BY <1>1, <1>2, <2>1
<1> QED
  BY <1>2, <1>3, <1>4, <1>5

\* after_input_edit: the line is out of the history.
LEMMA EditKeeps ==
  ASSUME Line, NEW t \in Texts, NEW c \in 0..Len(t), Edit(t, c), keys' \in 0..MaxKeys
  PROVE  Line'
<1>1. text' = t /\ cursor' = c /\ history_cursor' = 0 /\ dismissed' = FALSE /\ selected' = 0
      /\ pasted' = FALSE /\ history' = history /\ history_draft' = history_draft
  BY DEF Edit
<1>2. history \in Seq(Texts) /\ history_draft \in Texts /\ Len(history) \in Nat
  BY Lengths DEF Line
<1>3. \A n \in Nat : 0 \in 0..n
  OBVIOUS
<1>4. 0 \in Nat /\ 0 \in 0..Len(history)
  BY <1>2, <1>3
<1> QED
  BY <1>1, <1>2, <1>4 DEF Line

\* The text with something at the cursor, and without what is next to it.
LEMMA InsertedIs ==
  ASSUME Line, NEW t \in Texts
  PROVE  /\ Inserted(t) \in Texts
         /\ Len(Inserted(t)) = Len(text) + Len(t)
<1>1. text \in Texts /\ cursor \in 0..Len(text) /\ Len(text) \in Nat /\ Len(t) \in Nat
  BY Lengths, LenProperties DEF Line, Texts
<1> DEFINE a == SubSeq(text, 1, cursor)
           b == Drop(text, cursor)
<1>2. a \in Texts /\ Len(a) = cursor /\ b \in Texts /\ Len(b) = Len(text) - cursor
  BY <1>1, HeadIs, DropIs DEF Texts
<1>3. Inserted(t) = a \o t \o b
  BY DEF Inserted
<1> HIDE DEF a, b
<1>4. a \o t \in Texts /\ Len(a \o t) = cursor + Len(t)
  BY <1>2, ConcatProperties DEF Texts
<1> DEFINE c == a \o t
<1>5. c \o b \in Texts /\ Len(c \o b) = cursor + Len(t) + (Len(text) - cursor)
  <2>1. c \in Texts /\ Len(c) = cursor + Len(t)
    BY <1>4
  <2> HIDE DEF c
  <2> QED
    BY <1>2, <2>1, ConcatProperties DEF Texts
<1> QED
  BY <1>1, <1>3, <1>5

\* A text with a part cut out.
LEMMA CutIs ==
  ASSUME Line, NEW first \in 0..Len(text), NEW last \in 0..Len(text), first <= last
  PROVE  /\ Cut(first, last) \in Texts
         /\ Len(Cut(first, last)) = Len(text) - (last - first)
<1>1. text \in Texts /\ Len(text) \in Nat
  BY Lengths DEF Line
<1> DEFINE a == SubSeq(text, 1, first)
           b == Drop(text, last)
<1>2. a \in Texts /\ Len(a) = first /\ b \in Texts /\ Len(b) = Len(text) - last
  BY <1>1, HeadIs, DropIs DEF Texts
<1>3. Cut(first, last) = a \o b
  BY DEF Cut
<1> HIDE DEF a, b
<1>4. a \o b \in Texts /\ Len(a \o b) = first + (Len(text) - last)
  BY <1>2, ConcatProperties DEF Texts
<1> QED
  BY <1>1, <1>3, <1>4

\* What is shown of the history: with its cursor within it.
LEMMA ShowKeeps ==
  ASSUME Line, NEW k \in 1..Len(history), Show(k), history_draft' \in Texts, keys' \in 0..MaxKeys
  PROVE  Line'
<1>1. /\ history_cursor' = k /\ text' = history[k] /\ cursor' = Len(history[k])
      /\ pasted' = FALSE /\ dismissed' = TRUE /\ history' = history
      /\ selected' = (IF selected < Len(Suggestions') THEN selected ELSE 0)
  BY DEF Show, Set, Clamped
<1>2. history \in Seq(Texts) /\ Len(history) \in Nat /\ selected \in Nat
  BY Lengths DEF Line
<1>3. history[k] \in Texts
  BY <1>2
<1>4. Len(history[k]) \in Nat
  BY <1>3, LenProperties DEF Texts
<1>5. selected' \in Nat
  BY <1>1, <1>2
<1>6. k \in 0..Len(history) /\ Len(history[k]) \in 0..Len(history[k])
  BY <1>2, <1>4
<1> QED
  BY <1>1, <1>2, <1>3, <1>5, <1>6 DEF Line

\* Suggestions offers texts.
LEMMA Suggested ==
  ASSUME Line
  PROVE  /\ Suggestions \in Seq(Texts) /\ Len(Suggestions) \in Nat
         /\ dismissed => Suggestions = <<>> /\ Len(Suggestions) = 0
<1>1. Suggestions \in Seq(Texts)
  BY SuggestionsAreTexts, EmptySeq DEF Suggestions, Line
<1> QED
  BY <1>1, LenProperties, EmptySeq DEF Suggestions

\* Typing, deleting and moving.
LEMMA EditsKeep ==
  ASSUME Line, keys' \in 0..MaxKeys,
         \/ \E ch \in Typed : Type(ch)
         \/ \E t \in Pasted : Paste(t)
         \/ Backspace \/ Delete \/ ClearLine \/ MoveCursor \/ Dismiss
  PROVE  Line'
<1>1. /\ text \in Texts /\ cursor \in 0..Len(text) /\ Len(text) \in Nat /\ cursor \in Nat
      /\ <<>> \in Texts /\ Len(<<>>) = 0
  BY Lengths DEF Line
<1>2. ASSUME NEW ch \in Typed, Type(ch) PROVE Line'
  <2>1. <<ch>> \in Texts /\ Len(<<ch>>) = 1
    <3>1. ch \in Characters
      BY TextsAssumption
    <3> QED
      BY <3>1 DEF Texts
  <2>2. Inserted(<<ch>>) \in Texts /\ Len(Inserted(<<ch>>)) = Len(text) + 1
    BY <2>1, InsertedIs
  <2>3. cursor + 1 \in 0..Len(Inserted(<<ch>>))
    BY <1>1, <2>2
  <2> QED
    BY <1>2, <2>2, <2>3, EditKeeps DEF Type
<1>3. ASSUME NEW t \in Pasted, Paste(t) PROVE Line'
  <2>1. t \in Texts /\ Len(t) \in Nat
    BY TextsAssumption, LenProperties DEF Texts
  <2>2. Inserted(t) \in Texts /\ Len(Inserted(t)) = Len(text) + Len(t)
    BY <2>1, InsertedIs
  <2>3. /\ text' = Inserted(t) /\ cursor' = cursor + Len(t)
        /\ pasted' = (pasted \/ history_cursor # 0)
        /\ history' = history /\ history_cursor' = history_cursor
        /\ history_draft' = history_draft /\ dismissed' = dismissed
        /\ selected' = (IF selected < Len(Suggestions') THEN selected ELSE 0)
    BY <1>3 DEF Paste, Clamped
  <2>4. cursor' \in 0..Len(text')
    BY <1>1, <2>1, <2>2, <2>3
  <2>5. selected' \in Nat
    BY <2>3 DEF Line
  <2>6. pasted' \in BOOLEAN /\ (history_cursor # 0 => pasted')
    BY <2>3 DEF Line
  <2> QED
    BY <2>2, <2>3, <2>4, <2>5, <2>6 DEF Line
<1>4. CASE Backspace
  <2>1. CASE cursor = 0
    BY <1>1, <1>4, <2>1, EditKeeps DEF Backspace
  <2>2. CASE cursor # 0
    <3>1. cursor - 1 \in 0..Len(text) /\ cursor - 1 <= cursor
      BY <1>1, <2>2
    <3>2. /\ Cut(cursor - 1, cursor) \in Texts
          /\ Len(Cut(cursor - 1, cursor)) = Len(text) - (cursor - (cursor - 1))
      BY <1>1, <3>1, CutIs
    <3>3. cursor - 1 \in 0..Len(Cut(cursor - 1, cursor))
      BY <1>1, <2>2, <3>2
    <3> QED
      BY <1>4, <2>2, <3>2, <3>3, EditKeeps DEF Backspace
  <2> QED
    BY <2>1, <2>2
<1>5. CASE Delete
  <2>1. CASE cursor = Len(text)
    BY <1>1, <1>5, <2>1, EditKeeps DEF Delete
  <2>2. CASE cursor # Len(text)
    <3>1. cursor + 1 \in 0..Len(text) /\ cursor <= cursor + 1
      BY <1>1, <2>2
    <3>2. /\ Cut(cursor, cursor + 1) \in Texts
          /\ Len(Cut(cursor, cursor + 1)) = Len(text) - ((cursor + 1) - cursor)
      BY <1>1, <3>1, CutIs
    <3>3. cursor \in 0..Len(Cut(cursor, cursor + 1))
      BY <1>1, <2>2, <3>2
    <3> QED
      BY <1>5, <2>2, <3>2, <3>3, EditKeeps DEF Delete
  <2> QED
    BY <2>1, <2>2
<1>6. CASE ClearLine
  <2>1. 0 \in 0..Len(<<>>)
    BY <1>1
  <2> QED
    BY <1>1, <1>6, <2>1, EditKeeps DEF ClearLine
<1>7. CASE MoveCursor
  <2>1. cursor' \in 0..Len(text)
    <3>1. /\ (IF cursor > 0 THEN cursor - 1 ELSE cursor) \in 0..Len(text)
          /\ (IF cursor < Len(text) THEN cursor + 1 ELSE cursor) \in 0..Len(text)
          /\ 0 \in 0..Len(text) /\ Len(text) \in 0..Len(text)
      BY <1>1
    <3> QED
      BY <1>7, <3>1 DEF MoveCursor
  <2> QED
    BY <1>7, <2>1 DEF MoveCursor, Line
<1>8. CASE Dismiss
  BY <1>8 DEF Dismiss, Line
<1> QED
  BY <1>2, <1>3, <1>4, <1>5, <1>6, <1>7, <1>8

\* Suggestions and history.
LEMMA WalksKeep ==
  ASSUME Line, keys' \in 0..MaxKeys,
         AcceptSuggestion \/ MoveSelection \/ HistoryUp \/ HistoryDown
  PROVE  Line'
<1>1. /\ history \in Seq(Texts) /\ Len(history) \in Nat /\ history_cursor \in 0..Len(history)
      /\ text \in Texts /\ history_draft \in Texts /\ Len(history_draft) \in Nat
      /\ selected \in Nat /\ <<>> \in Texts
  BY Lengths DEF Line
<1>2. /\ Suggestions \in Seq(Texts) /\ Len(Suggestions) \in Nat
      /\ dismissed => Suggestions = <<>> /\ Len(Suggestions) = 0
  BY Suggested
<1>3. CASE AcceptSuggestion
  <2> DEFINE t == Suggestions[selected + 1]
  <2>1. selected < Len(Suggestions) /\ text' = t /\ cursor' = Len(t)
        /\ dismissed' = FALSE /\ selected' = 0
        /\ UNCHANGED <<history, history_cursor, history_draft, pasted>>
    BY <1>3 DEF AcceptSuggestion, Set
  <2>2. t \in Texts
    BY <1>1, <1>2, <2>1
  <2> HIDE DEF t
  <2>3. Len(t) \in Nat
    BY <2>2, LenProperties DEF Texts
  <2>4. ~dismissed /\ history_cursor = 0
    BY <1>1, <1>2, <2>1 DEF Line
  <2>5. cursor' \in 0..Len(text')
    BY <2>1, <2>3
  <2> QED
    BY <2>1, <2>2, <2>4, <2>5 DEF Line
<1>4. CASE MoveSelection
  <2>1. Len(Suggestions) # 0
    BY <1>2, <1>4, EmptySeq DEF MoveSelection
  <2>2. selected' \in Nat
    <3> DEFINE n == Len(Suggestions)
    <3>1. n \in Nat /\ n > 0
      BY <1>2, <2>1
    <3>2. selected' \in {IF selected = 0 THEN n - 1 ELSE selected - 1, (selected + 1) % n}
      BY <1>4 DEF MoveSelection
    <3> HIDE DEF n
    <3>3. (selected + 1) % n \in Nat
      BY <1>1, <3>1
    <3>4. (IF selected = 0 THEN n - 1 ELSE selected - 1) \in Nat
      BY <1>1, <3>1
    <3> QED
      BY <3>2, <3>3, <3>4
  <2> QED
    BY <1>4, <2>2 DEF MoveSelection, Line
<1>5. CASE HistoryUp
  <2>1. Len(history) # 0
    BY <1>1, <1>5, EmptySeq DEF HistoryUp
  <2> DEFINE k == CASE history_cursor = 0 -> Len(history)
                    [] history_cursor = 1 -> 1
                    [] OTHER              -> history_cursor - 1
  <2>2. k \in 1..Len(history)
    BY <1>1, <2>1
  <2>3. history_draft' \in Texts
    BY <1>1, <1>5 DEF HistoryUp
  <2>4. Show(k)
    BY <1>5 DEF HistoryUp
  <2> HIDE DEF k
  <2> QED
    BY <2>2, <2>3, <2>4, ShowKeeps
<1>6. CASE HistoryDown
  <2>1. CASE history_cursor < Len(history)
    <3>1. history_cursor + 1 \in 1..Len(history)
      BY <1>1, <2>1
    <3>2. Show(history_cursor + 1) /\ history_draft' = history_draft
      BY <1>6, <2>1 DEF HistoryDown
    <3> QED
      BY <1>1, <3>1, <3>2, ShowKeeps
  <2>2. CASE ~(history_cursor < Len(history))
    <3>1. /\ history_cursor' = 0 /\ text' = history_draft /\ cursor' = Len(history_draft)
          /\ history_draft' = <<>> /\ dismissed' = TRUE /\ pasted' = FALSE /\ history' = history
          /\ selected' = (IF selected < Len(Suggestions') THEN selected ELSE 0)
      BY <1>6, <2>2 DEF HistoryDown, Set, Clamped
    <3>2. selected' \in Nat
      BY <1>1, <3>1
    <3>3. cursor' \in 0..Len(text')
      BY <1>1, <3>1
    <3>4. \A n \in Nat : 0 \in 0..n
      OBVIOUS
    <3>5. history_cursor' \in 0..Len(history')
      BY <1>1, <3>1, <3>4
    <3> QED
      BY <1>1, <3>1, <3>2, <3>3, <3>5 DEF Line
  <2> QED
    BY <2>1, <2>2
<1> QED
  BY <1>3, <1>4, <1>5, <1>6

\* Enter: a skill's invocation is put into the line, or the line is taken.
LEMMA SubmitKeeps ==
  ASSUME Line, Submit
  PROVE  Line'
<1>1. /\ history \in Seq(Texts) /\ Len(history) \in Nat /\ text \in Texts /\ <<>> \in Texts
      /\ Len(<<>>) = 0
  BY Lengths DEF Line
<1> DEFINE argument == Trim(ArgumentOf(Trim(text)))
           invocation == <<"$">> \o argument \o <<" ">>
           grown == Append(history, text)
<1>2. argument \in Texts
  BY <1>1, TrimIs, ArgumentIs DEF Texts
<1>3. invocation \in Texts
  <2>1. <<"$">> \in Texts /\ <<" ">> \in Texts
    <3>1. "$" \in Characters /\ " " \in Characters
      BY TextsAssumption
    <3>2. \A c \in Characters : <<c>> \in Texts
      BY DEF Texts
    <3> QED
      BY <3>1, <3>2
  <2> HIDE DEF argument
  <2>2. <<"$">> \o argument \in Texts
    BY <1>2, <2>1, ConcatProperties DEF Texts
  <2> QED
    BY <2>1, <2>2, ConcatProperties DEF Texts
<1>4. grown \in Seq(Texts)
  BY <1>1
<1>5. keys' = keys
  BY DEF Submit
<1>6. \/ TakeInput
      \/ /\ Set(invocation) /\ history' = grown /\ history_cursor' = 0 /\ history_draft' = <<>>
         /\ dismissed' = FALSE /\ selected' = 0 /\ pasted' = FALSE
  BY DEF Submit
<1> HIDE DEF invocation, grown
<1>7. /\ text' \in Texts /\ cursor' = Len(text') /\ history' \in Seq(Texts)
      /\ history_cursor' = 0 /\ history_draft' = <<>>
      /\ dismissed' = FALSE /\ selected' = 0 /\ pasted' = FALSE
  <2>1. CASE TakeInput
    BY <1>1, <1>4, <2>1 DEF TakeInput, Set, grown
  <2>2. CASE ~TakeInput
    BY <1>3, <1>4, <1>6, <2>2 DEF Set
  <2> QED
    BY <2>1, <2>2
<1>8. Len(text') \in Nat /\ Len(history') \in Nat
  BY <1>7, LenProperties DEF Texts
<1>9. cursor' \in 0..Len(text') /\ history_cursor' \in 0..Len(history')
  BY <1>7, <1>8
<1> QED
  BY <1>1, <1>5, <1>7, <1>9 DEF Line

\* Every other step leaves the line as it is.
LEMMA LineInvariant == Spec => []Line
<1>1. Init => Line
  <2> SUFFICES ASSUME Init PROVE Line
    OBVIOUS
  <2>1. session \in Sessions /\ keys = session.keys /\ ComposerInit
    BY DEF Init
  <2>2. keys \in 0..MaxKeys
    BY <2>1, SessionsAssumption
  <2>3. <<>> \in Texts /\ <<>> \in Seq(Texts) /\ 0 \in 0..Len(<<>>)
    BY EmptySeq DEF Texts
  <2> QED
    BY <2>1, <2>2, <2>3 DEF ComposerInit, Line
<1>2. Line /\ [Next]_vars => Line'
  <2> SUFFICES ASSUME Line, [Next]_vars PROVE Line'
    OBVIOUS
  <2>1. CASE EditLine
    <3>1. keys' \in 0..MaxKeys
      BY <2>1, Lengths DEF EditLine, ComposerKey, Line
    <3> QED
      BY <2>1, <3>1, EditsKeep, WalksKeep DEF EditLine, ComposerKey
  <2>2. CASE Submit
    BY <2>2, SubmitKeeps
  <2>3. CASE ~EditLine /\ ~Submit
    <3>1. UNCHANGED inputVars
      <4>1. CASE \/ QuitKey \/ ClearTranscript \/ Compacted \/ StreamFails \/ StreamCloses
                 \/ StartTurn \/ TurnAccepted \/ TurnRefused
                 \/ Interrupt \/ InterruptAccepted \/ InterruptRefused \/ UNCHANGED vars
        BY <4>1 DEF QuitKey, ClearTranscript, Compacted, StreamFails, StreamCloses, StartTurn,
           TurnAccepted, TurnRefused, Interrupt, InterruptAccepted, InterruptRefused, vars
      <4>2. ASSUME NEW w, NEW n, Deliver(w, n) \/ Skip(w, n) PROVE UNCHANGED inputVars
        BY <4>2 DEF Deliver, Skip
      <4>3. ASSUME NEW kind, TurnEnds(kind) PROVE UNCHANGED inputVars
        BY <4>3 DEF TurnEnds
      <4> QED
        BY <2>3, <4>1, <4>2, <4>3 DEF Next
    <3> QED
      BY <3>1 DEF inputVars, Line
  <2> QED
    BY <2>1, <2>2, <2>3
<1> QED
  BY <1>1, <1>2, PTL DEF Spec

\* CursorsFit: no sequence of keys, pastes, suggestions and submitted lines puts a cursor
\* where a slice would panic, or loses the entry of the history that is shown.
THEOREM CursorsAlwaysFit == Spec => []CursorsFit
<1>1. Line /\ Drafted => CursorsFit
  <2> SUFFICES ASSUME Line, Drafted PROVE CursorsFit
    OBVIOUS
  <2>1. Len(text) \in Nat /\ Len(history) \in Nat
    BY Lengths
  <2> QED
    BY <2>1 DEF Line, Drafted, CursorsFit, ComposerTypeOK
<1> QED
  BY LineInvariant, DraftInvariant, <1>1, PTL

Restored == HistoryDown /\ history_cursor' = 0 => text' = composed

\* DraftSurvives: Down out of the history puts back what was being composed, for every
\* walk through every history.
THEOREM DraftIsKept == Spec => DraftSurvives
<1>1. Line /\ Drafted => [Restored]_inputVars
  <2> SUFFICES ASSUME Line, Drafted, HistoryDown, history_cursor' = 0 PROVE text' = composed
    BY DEF Restored
  <2>1. CASE history_cursor < Len(history)
    BY <2>1 DEF HistoryDown, Show, Line
  <2>2. CASE ~(history_cursor < Len(history))
    BY <2>2 DEF HistoryDown, Set, Drafted
  <2> QED
    BY <2>1, <2>2
<1> QED
  BY <1>1, LineInvariant, DraftInvariant, PTL DEF DraftSurvives, Restored

-----------------------------------------------------------------------------
Running == {"starting", "streaming", "interrupting"}

\* The turn that runs is one of the session's; what was sent is of its items.
Course ==
  /\ session \in Sessions /\ turns \in 0..Len(session.turns)
  /\ at = "pending" => turns < Len(session.turns)
  /\ at \in Running => turns # 0 /\ sent \in [session.turns[turns] -> Nat]

\* The turns of a session are a sequence of sets of its items.
LEMMA SessionIs ==
  ASSUME NEW s \in Sessions
  PROVE  /\ s.turns \in Seq(SUBSET WireItems(s)) /\ Len(s.turns) \in Nat
         /\ DOMAIN s.turns = 1..Len(s.turns)
<1>1. s.turns \in Seq(SUBSET WireItems(s))
  BY SessionsAssumption
<1> QED
  BY <1>1, LenProperties

\* An item of a session has its fields.
LEMMA ItemIs ==
  ASSUME NEW s \in Sessions, NEW i \in 1..Len(s.turns), NEW w \in s.turns[i]
  PROVE  {"type", "id", "text"} \subseteq DOMAIN w /\ w.text \in Seq(Nat) /\ Len(w.text) \in Nat
<1>1. i \in DOMAIN s.turns
  BY SessionIs
<1>2. w \in WireItems(s)
  BY <1>1 DEF WireItems
<1>3. {"type", "id", "text"} \subseteq DOMAIN w /\ w.text \in Seq(Nat)
  BY <1>2, SessionsAssumption
<1> QED
  BY <1>3, LenProperties

\* What a submitted line does to the loop and its transcript.
LEMMA SubmitDoes ==
  ASSUME Submit
  PROVE  /\ at = "idle" /\ at' \in {"pending", "quit", "compacting", "idle"}
         /\ at' = "pending" => turns < Len(session.turns)
         /\ \/ \E kind \in {"Error", "Status"} : Push(kind, NoId, <<>>)
            \/ transcript' = <<>> \/ transcript' = transcript
         /\ UNCHANGED <<session, busy, turn_running, refusals, turnVars>>
<1> DEFINE input == ParseInput(text)
           argument == Trim(ArgumentOf(Trim(text)))
           known == Skills = <<>> \/ \E k \in 1..Len(Skills) : Skills[k] = argument
<1>1. /\ at = "idle" /\ (input = "prompt" => turns < Len(session.turns))
      /\ at' = CASE input = "prompt"  -> "pending"
                 [] input = "quit"    -> "quit"
                 [] input = "compact" -> "compacting"
                 [] OTHER             -> "idle"
      /\ CASE input = "unknown" \/ (input = "skill" /\ ~known) -> Push("Error", NoId, <<>>)
           [] input \in {"note", "effort"} \/ (input = "skill" /\ known) ->
                Push("Status", NoId, <<>>)
           [] input = "clear" -> transcript' = <<>>
           [] OTHER           -> UNCHANGED transcript
      /\ UNCHANGED <<session, busy, turn_running, refusals, turnVars>>
  BY DEF Submit
<1> HIDE DEF input, known
<1>2. at' \in {"pending", "quit", "compacting", "idle"} /\ (at' = "pending" => input = "prompt")
  BY <1>1
<1>3. \/ Push("Error", NoId, <<>>) \/ Push("Status", NoId, <<>>)
      \/ transcript' = <<>> \/ transcript' = transcript
  BY <1>1, Zenon
<1> QED
  BY <1>1, <1>2, <1>3

\* Every step keeps to the session's turns.
LEMMA CourseInvariant == Spec => []Course
<1>1. Init => Course
  <2> SUFFICES ASSUME Init PROVE Course
    OBVIOUS
  <2>1. session \in Sessions /\ turns = 0 /\ at = (IF session.prompt THEN "pending" ELSE "idle")
    BY DEF Init
  <2>2. Len(session.turns) \in Nat /\ (session.turns # <<>> => Len(session.turns) # 0)
    BY <2>1, SessionIs, EmptySeq
  <2>3. at = "pending" => session.turns # <<>>
    BY <2>1, SessionsAssumption
  <2>4. at \notin Running
    BY <2>1 DEF Running
  <2> QED
    BY <2>1, <2>2, <2>3, <2>4 DEF Course
<1>2. Course /\ [Next]_vars => Course'
  <2> SUFFICES ASSUME Course, [Next]_vars PROVE Course'
    OBVIOUS
  <2> USE DEF Course
  <2>1. CASE Submit
    <3>1. at' \notin Running /\ (at' = "pending" => turns < Len(session.turns))
          /\ session' = session /\ turns' = turns
      BY <2>1, SubmitDoes DEF Running, turnVars
    <3> QED
      BY <3>1
  <2>2. CASE StartTurn
    <3>1. /\ at = "pending" /\ at' = "starting" /\ turns' = turns + 1 /\ session' = session
          /\ sent' = [w \in session.turns[turns + 1] |-> 0]
      BY <2>2 DEF StartTurn
    <3>2. Len(session.turns) \in Nat
      BY SessionIs
    <3>3. turns + 1 \in 0..Len(session.turns) /\ turns + 1 # 0
      BY <3>1, <3>2
    <3>4. sent' \in [session'.turns[turns'] -> Nat]
      BY <3>1
    <3> QED
      BY <3>1, <3>3, <3>4
  <2>3. ASSUME NEW w \in DOMAIN sent, NEW n \in NextPieces(w), Deliver(w, n) \/ Skip(w, n)
        PROVE  Course'
    <3>1. /\ at = "streaming" /\ at' = at /\ session' = session /\ turns' = turns
          /\ sent' = [sent EXCEPT ![w] = n]
      BY <2>3 DEF Deliver, Skip, Streaming, appVars
    <3>2. sent \in [session.turns[turns] -> Nat]
      BY <3>1 DEF Running
    <3>3. n \in Nat
      <4>1. w \in session.turns[turns] /\ turns \in 1..Len(session.turns)
        BY <3>1, <3>2 DEF Running
      <4>2. Whole(w) \in Nat
        BY <4>1, ItemIs DEF Whole
      <4> QED
        BY <4>2 DEF NextPieces
    <3>4. sent' \in [session'.turns[turns'] -> Nat]
      BY <3>1, <3>2, <3>3
    <3> QED
      BY <3>1, <3>4
  <2>4. ASSUME NEW kind, TurnEnds(kind) PROVE Course'
    <3>1. at' = "idle" /\ session' = session /\ turns' = turns
      BY <2>4 DEF TurnEnds, Finish
    <3> QED
      BY <3>1 DEF Running
  <2>5. CASE \/ EditLine \/ QuitKey \/ ClearTranscript \/ Compacted \/ StreamFails \/ TurnRefused
             \/ StreamCloses \/ TurnAccepted \/ Interrupt \/ InterruptAccepted
             \/ InterruptRefused \/ UNCHANGED vars
    <3>1. /\ session' = session /\ turns' = turns /\ sent' = sent
          /\ at' = "pending" => at = "pending"
          /\ at' \in Running => at \in Running
      BY <2>5 DEF EditLine, QuitKey, ClearTranscript, Compacted, StreamFails, TurnRefused, Finish,
         StreamCloses, TurnAccepted, Interrupt, InterruptAccepted, InterruptRefused, vars,
         appVars, turnVars, Running
    <3> QED
      BY <3>1
  <2> QED
    BY <2>1, <2>2, <2>3, <2>4, <2>5 DEF Next
<1> QED
  BY <1>1, <1>2, PTL DEF Spec

-----------------------------------------------------------------------------
\* What the transcript tells with final_response_only: its blocks carry no item's id.
Told == [kind : {"User", "Agent", "Error", "Status"}, id : {NoId}, text : Seq(Nat)]

\* An empty transcript shows no text.
LEMMA TextsOfNone == TextsShown(<<>>) = {}
BY DEF TextsShown

\* One block more shows its text, if it is an answer.
LEMMA TextsOfMore ==
  ASSUME NEW tr \in Seq(Told), NEW b \in Told
  PROVE  /\ Append(tr, b) \in Seq(Told)
         /\ TextsShown(Append(tr, b)) = TextsShown(tr) \cup (IF b.kind = "Agent" THEN {b.text} ELSE {})
         /\ Append(tr, b)[Len(Append(tr, b))] = b
<1> DEFINE more == Append(tr, b)
<1>1. /\ more \in Seq(Told) /\ Len(tr) \in Nat /\ Len(more) = Len(tr) + 1
      /\ more[Len(tr) + 1] = b /\ \A k \in 1..Len(tr) : more[k] = tr[k]
  OBVIOUS
<1> HIDE DEF more
<1>2. ASSUME NEW x \in TextsShown(more)
      PROVE  x \in TextsShown(tr) \cup (IF b.kind = "Agent" THEN {b.text} ELSE {})
  <2>1. PICK k \in 1..Len(more) : more[k].kind = "Agent" /\ x = more[k].text
    BY DEF TextsShown
  <2>2. CASE k \in 1..Len(tr)
    BY <1>1, <2>1, <2>2 DEF TextsShown
  <2>3. CASE k = Len(tr) + 1
    BY <1>1, <2>1, <2>3
  <2> QED
    BY <1>1, <2>2, <2>3
<1>3. ASSUME NEW x \in TextsShown(tr) PROVE x \in TextsShown(more)
  <2>1. PICK k \in 1..Len(tr) : tr[k].kind = "Agent" /\ x = tr[k].text
    BY DEF TextsShown
  <2>2. k \in 1..Len(more) /\ more[k].kind = "Agent" /\ x = more[k].text
    BY <1>1, <2>1
  <2> QED
    BY <2>2 DEF TextsShown
<1>4. ASSUME b.kind = "Agent" PROVE b.text \in TextsShown(more)
  <2>1. Len(tr) + 1 \in 1..Len(more)
    BY <1>1
  <2> QED
    BY <1>1, <1>4, <2>1 DEF TextsShown
<1>5. TextsShown(more) = TextsShown(tr) \cup (IF b.kind = "Agent" THEN {b.text} ELSE {})
  BY <1>2, <1>3, <1>4
<1> QED
  BY <1>1, <1>5 DEF more

\* The same of the transcript in a step that appends to it.
LEMMA BlockAdded ==
  ASSUME transcript \in Seq(Told), NEW b \in Told, transcript' = Append(transcript, b)
  PROVE  /\ transcript' \in Seq(Told)
         /\ TextsShown(transcript') =
              TextsShown(transcript) \cup (IF b.kind = "Agent" THEN {b.text} ELSE {})
         /\ transcript'[Len(transcript')] = b
<1> DEFINE more == Append(transcript, b)
<1>1. /\ more \in Seq(Told)
      /\ TextsShown(more) = TextsShown(transcript) \cup (IF b.kind = "Agent" THEN {b.text} ELSE {})
      /\ more[Len(more)] = b
  BY TextsOfMore
<1>2. transcript' = more
  OBVIOUS
<1> HIDE DEF more
<1> QED
  BY <1>1, <1>2

\* A block that is no answer shows no text.
LEMMA NoAnswerAdded ==
  ASSUME transcript \in Seq(Told), NEW kind \in {"User", "Error", "Status"}, Push(kind, NoId, <<>>)
  PROVE  /\ transcript' \in Seq(Told) /\ TextsShown(transcript') = TextsShown(transcript)
         /\ transcript'[Len(transcript')].kind = kind
<1> DEFINE b == Block(kind, NoId, <<>>)
<1>1. b \in Told /\ b.kind = kind /\ kind # "Agent"
  BY DEF Block, Told
<1>2. transcript' = Append(transcript, b)
  BY DEF Push
<1> HIDE DEF b
<1>3. /\ transcript' \in Seq(Told)
      /\ TextsShown(transcript') = TextsShown(transcript) \cup (IF b.kind = "Agent" THEN {b.text} ELSE {})
      /\ transcript'[Len(transcript')] = b
  BY <1>1, <1>2, BlockAdded
<1> QED
  BY <1>1, <1>3

\* The answer an item's text makes.
AnswerOf(w) == <<Block("Agent", NoId, w.text)>>

\* A message keeps its text when it is parsed.
LEMMA MessageIs ==
  ASSUME NEW w, {"type", "id", "text"} \subseteq DOMAIN w, NEW final \in BOOLEAN,
         Message(CompletedEvent(w), final)
  PROVE  /\ w.type = "agentMessage" /\ Answer(CompletedEvent(w)) = AnswerOf(w)
         /\ ~Message(CompletedEvent(w), ~final)
<1> DEFINE e == CompletedEvent(w)
<1>1. e.kind = "itemCompleted" /\ e.item = ParseThreadItem(w)
  BY DEF CompletedEvent, ItemEvent
<1>2. e.item.type = "agentMessage" /\ IsFinalAnswer(e.item) = final
  BY DEF Message
<1>3. Field(w, "type", "unknown") = w.type /\ Field(w, "text", <<>>) = w.text
  BY DEF Field
<1>4. w.type = "agentMessage" /\ e.item.text = w.text
  <2>1. CASE w.type \in KnownTypes
    <3>1. /\ ParseThreadItem(w).type = w.type
          /\ w.type = "agentMessage" => ParseThreadItem(w).text = w.text
      BY <1>3, <2>1 DEF ParseThreadItem, ThreadItem
    <3> QED
      BY <1>1, <1>2, <3>1
  <2>2. CASE w.type \notin KnownTypes
    <3>1. ParseThreadItem(w).type = "unknown"
      BY <1>3, <2>2 DEF ParseThreadItem, ThreadItem
    <3> QED
      BY <1>1, <1>2, <3>1
  <2> QED
    BY <2>1, <2>2
<1>5. ~Message(e, ~final)
  BY <1>2 DEF Message
<1> HIDE DEF e
<1> QED
  BY <1>4, <1>5 DEF Answer, AnswerOf, e

\* An event that is no completed item is no message.
LEMMA NoMessage ==
  ASSUME NEW e, e.kind # "itemCompleted", NEW final
  PROVE  ~Message(e, final)
BY DEF Message

\* A delta with text is an update.
LEMMA PieceIs ==
  ASSUME NEW w, w.text \in Seq(Nat), NEW n \in 1..Whole(w), n # Whole(w)
  PROVE  PieceEvent(w, n).kind = "itemUpdated"
<1>1. PieceEvent(w, n) = Head(DeltaEvents(w, n))
  BY DEF PieceEvent
<1> DEFINE d == [id |-> w.id, delta |-> <<w.text[n]>>]
<1>2. Field(d, "delta", Field(d, "text", <<>>)) = <<w.text[n]>>
  BY DEF Field
<1>3. <<w.text[n]>> # <<>>
  OBVIOUS
<1>4. DeltaEvents(w, n) =
        <<ItemEvent("itemUpdated", ThreadItem(w.type, Field(d, "id", ""), <<w.text[n]>>, NoPhase))>>
  BY <1>2, <1>3 DEF DeltaEvents, DeltaItemUpdated
<1>5. \A x : Head(<<x>>) = x
  OBVIOUS
<1> DEFINE item == ThreadItem(w.type, Field(d, "id", ""), <<w.text[n]>>, NoPhase)
<1>6. PieceEvent(w, n) = ItemEvent("itemUpdated", item)
  BY <1>1, <1>4, <1>5
<1> HIDE DEF item
<1>7. ItemEvent("itemUpdated", item).kind = "itemUpdated"
  BY DEF ItemEvent
<1> QED
  BY <1>6, <1>7

-----------------------------------------------------------------------------
\* With final_response_only, what is shown is the text of a message: of this turn, while it
\* runs, only a final answer that was received; and the turn's other message is kept.
Answers ==
  mode = "final" =>
    /\ transcript \in Seq(Told)
    /\ \A x \in TextsShown(transcript) : \E i \in 1..turns : \E v \in session.turns[i] :
         /\ v.type = "agentMessage" /\ v.text = x
         /\ i = turns /\ at \in Running => v \in Done(TRUE)
    /\ at \in Running =>
         /\ emitted \in BOOLEAN
         /\ fallback = <<>> \/ \E w \in Done(FALSE) : fallback = AnswerOf(w)
         /\ lagged = "no" => /\ \A w \in Done(TRUE) : w.text \in TextsShown(transcript)
                             /\ emitted <=> Done(TRUE) # {}
                             /\ Done(FALSE) # {} => fallback # <<>>

\* The items that are done, once a piece more was sent.
LEMMA DoneGrows ==
  ASSUME Course, at \in Running, NEW w \in DOMAIN sent, NEW n \in NextPieces(w),
         sent' = [sent EXCEPT ![w] = n], NEW final \in BOOLEAN
  PROVE  Done(final)' = Done(final) \cup
           (IF n = Whole(w) /\ Message(CompletedEvent(w), final) THEN {w} ELSE {})
<1>1. /\ sent \in [session.turns[turns] -> Nat] /\ turns \in 1..Len(session.turns)
      /\ session \in Sessions
  BY DEF Course
<1>2. Whole(w) \in Nat
  BY <1>1, ItemIs DEF Whole
<1>3. n \in 1..Whole(w) /\ n > sent[w] /\ sent[w] \in Nat
  BY <1>1 DEF NextPieces
<1>4. w \notin Done(final)
  BY <1>2, <1>3 DEF Done
<1>5. ASSUME NEW v \in DOMAIN sent, v # w
      PROVE  v \in Done(final)' <=> v \in Done(final)
  BY <1>1, <1>5 DEF Done
<1>6. w \in Done(final)' <=> n = Whole(w) /\ Message(CompletedEvent(w), final)
  BY <1>1 DEF Done
<1>7. Done(final) \subseteq DOMAIN sent /\ Done(final)' \subseteq DOMAIN sent
  BY <1>1 DEF Done
<1> QED
  BY <1>4, <1>5, <1>6, <1>7

\* Steps that leave the turn's records alone, and at most add a block that is no answer.
LEMMA AnswersStay ==
  ASSUME Answers, UNCHANGED <<session, turns>>,
         Done(TRUE)' = Done(TRUE), Done(FALSE)' = Done(FALSE),
         at' \in Running => at \in Running /\ UNCHANGED <<fallback, emitted, lagged>>,
         \/ transcript' = transcript
         \/ transcript' = <<>> /\ at' \notin Running
         \/ \E kind \in {"User", "Error", "Status"} : Push(kind, NoId, <<>>)
  PROVE  Answers'
<1> SUFFICES ASSUME mode = "final" PROVE Answers'
  BY DEF Answers, mode
<1>1. transcript \in Seq(Told)
  BY DEF Answers
<1>2. /\ transcript' \in Seq(Told)
      /\ \/ TextsShown(transcript') = TextsShown(transcript)
         \/ TextsShown(transcript') = {} /\ at' \notin Running
  <2>1. ASSUME NEW kind \in {"User", "Error", "Status"}, Push(kind, NoId, <<>>)
        PROVE  transcript' \in Seq(Told) /\ TextsShown(transcript') = TextsShown(transcript)
    BY <1>1, <2>1, NoAnswerAdded
  <2>2. CASE transcript' = <<>> /\ at' \notin Running
    <3>1. <<>> \in Seq(Told)
      OBVIOUS
    <3> QED
      BY <2>2, <3>1, TextsOfNone
  <2>3. CASE transcript' = transcript
    BY <1>1, <2>3
  <2> QED
    BY <2>1, <2>2, <2>3
<1>4. ASSUME NEW x \in TextsShown(transcript')
      PROVE  \E i \in 1..turns' : \E v \in session'.turns[i] :
               /\ v.type = "agentMessage" /\ v.text = x
               /\ i = turns' /\ at' \in Running => v \in Done(TRUE)'
  <2>1. x \in TextsShown(transcript)
    BY <1>2, <1>4
  <2>2. PICK i \in 1..turns : \E v \in session.turns[i] :
          /\ v.type = "agentMessage" /\ v.text = x
          /\ i = turns /\ at \in Running => v \in Done(TRUE)
    BY <2>1 DEF Answers
  <2> QED
    BY <2>2
<1>5. ASSUME at' \in Running
      PROVE  /\ emitted' \in BOOLEAN
             /\ fallback' = <<>> \/ \E w \in Done(FALSE)' : fallback' = AnswerOf(w)
             /\ lagged' = "no" => /\ \A w \in Done(TRUE)' : w.text \in TextsShown(transcript')
                                  /\ emitted' <=> Done(TRUE)' # {}
                                  /\ Done(FALSE)' # {} => fallback' # <<>>
  <2> DEFINE told == TextsShown(transcript)
             told2 == TextsShown(transcript')
             final == Done(TRUE)
             other == Done(FALSE)
             final2 == Done(TRUE)'
             other2 == Done(FALSE)'
  <2>1. /\ emitted \in BOOLEAN
        /\ fallback = <<>> \/ \E w \in other : fallback = AnswerOf(w)
        /\ lagged = "no" => /\ \A w \in final : w.text \in told
                            /\ emitted <=> final # {}
                            /\ other # {} => fallback # <<>>
    BY <1>5 DEF Answers
  <2>2. /\ told2 = told /\ final2 = final /\ other2 = other
        /\ fallback' = fallback /\ emitted' = emitted /\ lagged' = lagged
    BY <1>2, <1>5
  <2> HIDE DEF told, told2, final, other, final2, other2
  <2>3. /\ emitted' \in BOOLEAN
        /\ fallback' = <<>> \/ \E w \in other2 : fallback' = AnswerOf(w)
        /\ lagged' = "no" => /\ \A w \in final2 : w.text \in told2
                             /\ emitted' <=> final2 # {}
                             /\ other2 # {} => fallback' # <<>>
    BY <2>1, <2>2
  <2> QED
    BY <2>3 DEF told2, final2, other2
<1> QED
  BY <1>2, <1>4, <1>5 DEF Answers

\* run_prompt begins: nothing was received of this turn.
LEMMA AnswersStart ==
  ASSUME Course, Answers, StartTurn
  PROVE  Answers'
<1>1. /\ at = "pending" /\ turns' = turns + 1 /\ session' = session /\ Push("User", NoId, <<>>)
      /\ fallback' = <<>> /\ emitted' = FALSE /\ lagged' = "no"
      /\ sent' = [w \in session.turns[turns + 1] |-> 0]
  BY DEF StartTurn
<1> SUFFICES ASSUME mode = "final" PROVE Answers'
  BY <1>1 DEF Answers, mode
<1>2. session \in Sessions /\ turns \in Nat /\ turns + 1 \in 1..Len(session.turns)
  BY <1>1, SessionIs DEF Course
<1>3. transcript \in Seq(Told)
  BY DEF Answers
<1>4. transcript' \in Seq(Told) /\ TextsShown(transcript') = TextsShown(transcript)
  BY <1>1, <1>3, NoAnswerAdded
<1>5. ASSUME NEW final PROVE Done(final)' = {}
  <2> SUFFICES ASSUME NEW w \in session.turns[turns + 1], 0 = Whole(w) PROVE FALSE
    BY <1>1 DEF Done
  <2>1. Len(w.text) \in Nat
    BY <1>2, ItemIs
  <2> QED
    BY <2>1 DEF Whole
<1>6. ASSUME NEW x \in TextsShown(transcript')
      PROVE  \E i \in 1..turns' : \E v \in session'.turns[i] :
               /\ v.type = "agentMessage" /\ v.text = x
               /\ i = turns' /\ at' \in Running => v \in Done(TRUE)'
  <2>1. PICK i \in 1..turns : \E v \in session.turns[i] : v.type = "agentMessage" /\ v.text = x
    BY <1>4, <1>6 DEF Answers
  <2>2. i \in 1..turns' /\ i # turns'
    BY <1>1, <1>2
  <2> QED
    BY <1>1, <2>1, <2>2
<1> QED
  BY <1>1, <1>4, <1>5, <1>6 DEF Answers

\* consume_thread_event: what one event adds.
LEMMA AnswersDeliver ==
  ASSUME Course, Answers, NEW w \in DOMAIN sent, NEW n \in NextPieces(w), Deliver(w, n)
  PROVE  Answers'
<1> DEFINE e == PieceEvent(w, n)
<1>1. /\ at = "streaming" /\ sent' = [sent EXCEPT ![w] = n] /\ Shown(e) = transcript'
      /\ Consumed(e) /\ UNCHANGED <<session, turns, at, lagged>>
  BY DEF Deliver, Streaming
<1> SUFFICES ASSUME mode = "final" PROVE Answers'
  BY <1>1 DEF Answers, mode
<1>2. /\ sent \in [session.turns[turns] -> Nat] /\ turns \in 1..Len(session.turns)
      /\ session \in Sessions /\ w \in session.turns[turns] /\ at \in Running
  BY <1>1 DEF Course, Running
<1>3. {"type", "id", "text"} \subseteq DOMAIN w /\ w.text \in Seq(Nat) /\ Len(w.text) \in Nat
  BY <1>2, ItemIs
<1>4. \A final \in BOOLEAN : Done(final)' = Done(final) \cup
        (IF n = Whole(w) /\ Message(CompletedEvent(w), final) THEN {w} ELSE {})
  BY <1>1, <1>2, DoneGrows
<1>5. /\ transcript' = transcript \o FinalResponse(e)
      /\ emitted' = (emitted \/ FinalResponse(e) # <<>>)
      /\ fallback' = CASE Message(e, FALSE)                      -> Answer(e)
                       [] e.kind = "turnCompleted" /\ ~emitted -> <<>>
                       [] OTHER                                -> fallback
  BY <1>1 DEF Shown, Consumed
<1> DEFINE told == TextsShown(transcript)
           told2 == TextsShown(transcript')
           final == Done(TRUE)
           other == Done(FALSE)
           final2 == Done(TRUE)'
           other2 == Done(FALSE)'
<1>6. /\ transcript \in Seq(Told) /\ emitted \in BOOLEAN
      /\ \A x \in told : \E i \in 1..turns : \E v \in session.turns[i] :
           /\ v.type = "agentMessage" /\ v.text = x
           /\ i = turns => v \in final
      /\ fallback = <<>> \/ \E v \in other : fallback = AnswerOf(v)
      /\ lagged = "no" => /\ \A v \in final : v.text \in told
                          /\ emitted <=> final # {}
                          /\ other # {} => fallback # <<>>
  <2> HIDE DEF e
  <2>1. /\ transcript \in Seq(Told) /\ emitted \in BOOLEAN
        /\ fallback = <<>> \/ \E v \in other : fallback = AnswerOf(v)
    BY <1>2 DEF Answers
  <2>2. ASSUME NEW x \in told
        PROVE  \E i \in 1..turns : \E v \in session.turns[i] :
                 /\ v.type = "agentMessage" /\ v.text = x
                 /\ i = turns => v \in final
    <3>1. at \in Running
      BY <1>2
    <3> QED
      BY <2>2, <3>1 DEF Answers
  <2>3. lagged = "no" => /\ \A v \in final : v.text \in told
                         /\ emitted <=> final # {}
                         /\ other # {} => fallback # <<>>
    BY <1>2 DEF Answers
  <2> QED
    BY <2>1, <2>2, <2>3
<1>7. /\ final2 = final \cup (IF n = Whole(w) /\ Message(CompletedEvent(w), TRUE) THEN {w} ELSE {})
      /\ other2 = other \cup (IF n = Whole(w) /\ Message(CompletedEvent(w), FALSE) THEN {w} ELSE {})
  BY <1>4
<1>8. SUFFICES /\ transcript' \in Seq(Told) /\ emitted' \in BOOLEAN
               /\ \A x \in told2 : \E i \in 1..turns : \E v \in session.turns[i] :
                    /\ v.type = "agentMessage" /\ v.text = x
                    /\ i = turns => v \in final2
               /\ fallback' = <<>> \/ \E v \in other2 : fallback' = AnswerOf(v)
               /\ lagged = "no" => /\ \A v \in final2 : v.text \in told2
                                   /\ emitted' <=> final2 # {}
                                   /\ other2 # {} => fallback' # <<>>
  <2> HIDE DEF e
  <2>1. ASSUME NEW x \in told2
        PROVE  \E i \in 1..turns' : \E v \in session'.turns[i] :
                 /\ v.type = "agentMessage" /\ v.text = x
                 /\ i = turns' /\ at' \in Running => v \in final2
    <3>1. PICK i \in 1..turns : \E v \in session.turns[i] :
            /\ v.type = "agentMessage" /\ v.text = x
            /\ i = turns => v \in final2
      BY <1>8, <2>1
    <3>2. session' = session /\ turns' = turns
      BY <1>1
    <3> HIDE DEF final2
    <3> QED
      BY <3>1, <3>2
  <2> QED
    BY <1>1, <1>8, <2>1 DEF Answers
<1> HIDE DEF told, told2, final, other, final2, other2
<1>9. CASE n = Whole(w) /\ Message(CompletedEvent(w), TRUE)
  <2>1. e = CompletedEvent(w) /\ e.kind = "itemCompleted"
    BY <1>9 DEF PieceEvent, CompletedEvent, ItemEvent
  <2>2. w.type = "agentMessage" /\ Answer(e) = AnswerOf(w) /\ ~Message(e, FALSE) /\ Message(e, TRUE)
    BY <1>3, <1>9, <2>1, MessageIs
  <2> HIDE DEF e
  <2>3. FinalResponse(e) = AnswerOf(w) /\ fallback' = fallback
    BY <1>5, <2>1, <2>2 DEF FinalResponse
  <2> DEFINE b == Block("Agent", NoId, w.text)
  <2>4. b \in Told /\ b.kind = "Agent" /\ b.text = w.text
    BY <1>3 DEF Block, Told
  <2>5. transcript' = transcript \o <<b>>
    BY <1>5, <2>3 DEF AnswerOf
  <2>6. emitted' = TRUE
    <3>1. AnswerOf(w) # <<>>
      BY DEF AnswerOf
    <3> QED
      BY <1>5, <2>3, <3>1
  <2> HIDE DEF b
  <2>7. transcript' = Append(transcript, b)
    BY <1>6, <2>4, <2>5
  <2>8. transcript' \in Seq(Told) /\ told2 = told \cup {w.text}
    <3>1. /\ transcript' \in Seq(Told)
          /\ TextsShown(transcript') =
               TextsShown(transcript) \cup (IF b.kind = "Agent" THEN {b.text} ELSE {})
      BY <1>6, <2>4, <2>7, BlockAdded
    <3> QED
      BY <2>4, <3>1 DEF told, told2
  <2>9. final2 = final \cup {w} /\ other2 = other
    BY <1>7, <1>9, <2>1, <2>2
  <2>10. turns \in 1..turns
    BY <1>2, SessionIs
  <2>11. ASSUME NEW x \in told2
         PROVE  \E i \in 1..turns : \E v \in session.turns[i] :
                  /\ v.type = "agentMessage" /\ v.text = x
                  /\ i = turns => v \in final2
    <3>1. CASE x = w.text
      BY <1>2, <2>2, <2>9, <2>10, <3>1
    <3>2. CASE x \in told
      BY <1>6, <2>9, <3>2
    <3> QED
      BY <2>8, <2>11, <3>1, <3>2
  <2>12. lagged = "no" => /\ \A v \in final2 : v.text \in told2
                          /\ emitted' <=> final2 # {}
                          /\ other2 # {} => fallback' # <<>>
    BY <1>6, <2>3, <2>6, <2>8, <2>9
  <2> QED
    BY <1>6, <2>3, <2>6, <2>8, <2>9, <2>11, <2>12
<1>10. ASSUME FinalResponse(e) = <<>>
       PROVE  transcript' = transcript /\ emitted' = emitted /\ told2 = told
  <2> HIDE DEF e
  <2>1. transcript' = transcript
    BY <1>5, <1>6, <1>10, ConcatEmptySeq
  <2>2. emitted' = emitted
    BY <1>5, <1>6, <1>10
  <2> QED
    BY <2>1, <2>2 DEF told, told2
<1>11. CASE n = Whole(w) /\ Message(CompletedEvent(w), FALSE)
  <2>1. e = CompletedEvent(w) /\ e.kind = "itemCompleted"
    BY <1>11 DEF PieceEvent, CompletedEvent, ItemEvent
  <2>2. Answer(e) = AnswerOf(w) /\ Message(e, FALSE) /\ ~Message(e, TRUE)
    BY <1>3, <1>11, <2>1, MessageIs
  <2> HIDE DEF e
  <2>3. FinalResponse(e) = <<>> /\ fallback' = AnswerOf(w)
    BY <1>5, <2>1, <2>2 DEF FinalResponse
  <2>4. transcript' = transcript /\ emitted' = emitted /\ told2 = told
    BY <1>10, <2>3
  <2>5. final2 = final /\ other2 = other \cup {w}
    BY <1>7, <1>11, <2>1, <2>2
  <2>6. AnswerOf(w) # <<>>
    BY DEF AnswerOf
  <2> QED
    BY <1>6, <2>3, <2>4, <2>5, <2>6
<1>12. CASE n # Whole(w) \/ (/\ n = Whole(w) /\ ~Message(CompletedEvent(w), TRUE)
                             /\ ~Message(CompletedEvent(w), FALSE))
  <2>1. ~Message(e, TRUE) /\ ~Message(e, FALSE) /\ e.kind # "turnCompleted"
    <3>1. CASE n = Whole(w)
      <4>1. e = CompletedEvent(w) /\ e.kind = "itemCompleted"
        BY <3>1 DEF PieceEvent, CompletedEvent, ItemEvent
      <4> QED
        BY <1>12, <3>1, <4>1
    <3>2. CASE n # Whole(w)
      <4>1. e.kind = "itemUpdated"
        BY <1>3, <3>2, PieceIs DEF NextPieces
      <4> QED
        BY <4>1, NoMessage
    <3> QED
      BY <3>1, <3>2
  <2> HIDE DEF e
  <2>2. FinalResponse(e) = <<>> /\ fallback' = fallback
    BY <1>5, <2>1 DEF FinalResponse
  <2>3. transcript' = transcript /\ emitted' = emitted /\ told2 = told
    BY <1>10, <2>2
  <2>4. final2 = final /\ other2 = other
    BY <1>7, <1>12
  <2> QED
    BY <1>6, <2>2, <2>3, <2>4
<1> QED
  BY <1>9, <1>11, <1>12

\* The pump lags: what is skipped is not shown.
LEMMA AnswersSkip ==
  ASSUME Course, Answers, NEW w \in DOMAIN sent, NEW n \in NextPieces(w), Skip(w, n)
  PROVE  Answers'
<1>1. /\ at = "streaming" /\ sent' = [sent EXCEPT ![w] = n] /\ lagged' \in {"items", "end"}
      /\ UNCHANGED <<session, turns, at, transcript, fallback, emitted>>
  BY DEF Skip, Streaming, appVars
<1> SUFFICES ASSUME mode = "final" PROVE Answers'
  BY <1>1 DEF Answers, mode
<1>2. at \in Running
  BY <1>1 DEF Running
<1>3. Done(TRUE) \subseteq Done(TRUE)' /\ Done(FALSE) \subseteq Done(FALSE)'
  BY <1>1, <1>2, DoneGrows
<1>4. lagged' # "no"
  BY <1>1
<1> QED
  <2>1. ASSUME NEW x \in TextsShown(transcript)
        PROVE  \E i \in 1..turns' : \E v \in session'.turns[i] :
                 /\ v.type = "agentMessage" /\ v.text = x
                 /\ i = turns' /\ at' \in Running => v \in Done(TRUE)'
    <3>1. PICK i \in 1..turns : \E v \in session.turns[i] :
            /\ v.type = "agentMessage" /\ v.text = x
            /\ i = turns => v \in Done(TRUE)
      BY <1>2 DEF Answers
    <3> QED
      BY <1>1, <1>3, <3>1
  <2>2. /\ transcript \in Seq(Told) /\ emitted \in BOOLEAN
        /\ fallback = <<>> \/ \E v \in Done(FALSE) : fallback = AnswerOf(v)
    BY <1>2 DEF Answers
  <2>3. fallback' = <<>> \/ \E v \in Done(FALSE)' : fallback' = AnswerOf(v)
    BY <1>1, <1>3, <2>2
  <2>4. transcript' = transcript /\ TextsShown(transcript') = TextsShown(transcript)
    BY <1>1
  <2> QED
    BY <1>1, <1>2, <1>4, <2>1, <2>2, <2>3, <2>4 DEF Answers

\* The turn ends: its last message is shown if no final answer was.
LEMMA AnswersEnd ==
  ASSUME Course, Answers, NEW kind \in EndKinds, TurnEnds(kind), mode = "final"
  PROVE  /\ at' = "idle" /\ UNCHANGED <<session, turns, sent>>
         /\ transcript' \in Seq(Told)
         /\ \/ /\ kind = "turnCompleted" /\ ~emitted /\ fallback # <<>>
               /\ \E w \in Done(FALSE) : TextsShown(transcript') = TextsShown(transcript) \cup {w.text}
            \/ /\ kind = "turnCompleted" /\ (emitted \/ fallback = <<>>)
               /\ TextsShown(transcript') = TextsShown(transcript)
            \/ /\ transcript'[Len(transcript')].kind = "Error"
               /\ TextsShown(transcript') = TextsShown(transcript)
<1> DEFINE e == TurnEvent(kind)
<1>1. /\ at = "streaming" /\ at' = "idle" /\ UNCHANGED <<session, turns, sent>>
      /\ transcript' = IF kind = "turnCompleted" THEN Shown(e)
                       ELSE Append(Shown(e), Block("Error", NoId, <<>>))
  BY DEF TurnEnds, Finish, Streaming
<1>2. e.kind = kind /\ kind # "itemCompleted"
  BY DEF TurnEvent, ItemEvent, EndKinds
<1>3. ~Message(e, TRUE)
  BY <1>2, NoMessage
<1>4. Shown(e) = transcript \o FinalResponse(e) /\ transcript \in Seq(Told)
  BY DEF Shown, Answers
<1>5. transcript \o <<>> = transcript
  BY <1>4, ConcatEmptySeq
<1> HIDE DEF e
<1>6. CASE kind = "turnCompleted" /\ ~emitted /\ fallback # <<>>
  <2>1. PICK w \in Done(FALSE) : fallback = AnswerOf(w)
    BY <1>1, <1>6 DEF Answers, Running
  <2>2. transcript' = transcript \o <<Block("Agent", NoId, w.text)>>
    BY <1>1, <1>2, <1>3, <1>4, <1>6, <2>1 DEF FinalResponse, AnswerOf
  <2>3. w.text \in Seq(Nat)
    <3>1. /\ sent \in [session.turns[turns] -> Nat] /\ turns \in 1..Len(session.turns)
          /\ session \in Sessions
      BY <1>1 DEF Course, Running
    <3>2. w \in session.turns[turns]
      BY <3>1 DEF Done
    <3> QED
      BY <3>1, <3>2, ItemIs
  <2> DEFINE b == Block("Agent", NoId, w.text)
  <2>4. b \in Told /\ b.kind = "Agent" /\ b.text = w.text
    BY <2>3 DEF Block, Told
  <2> HIDE DEF b
  <2>5. transcript' = Append(transcript, b)
    BY <1>4, <2>2, <2>4 DEF b
  <2>6. /\ transcript' \in Seq(Told)
        /\ TextsShown(transcript') = TextsShown(transcript) \cup {w.text}
    <3>1. /\ transcript' \in Seq(Told)
          /\ TextsShown(transcript') =
               TextsShown(transcript) \cup (IF b.kind = "Agent" THEN {b.text} ELSE {})
      BY <1>4, <2>4, <2>5, BlockAdded
    <3> QED
      BY <2>4, <3>1
  <2> QED
    BY <1>1, <1>6, <2>1, <2>6
<1>7. CASE kind = "turnCompleted" /\ (emitted \/ fallback = <<>>)
  <2>1. transcript' = transcript
    BY <1>1, <1>2, <1>3, <1>4, <1>5, <1>7 DEF FinalResponse
  <2> QED
    BY <1>1, <1>4, <1>7, <2>1
<1>8. CASE kind # "turnCompleted"
  <2> DEFINE b == Block("Error", NoId, <<>>)
  <2>1. b \in Told /\ b.kind = "Error"
    BY DEF Block, Told
  <2>2. transcript' = Append(transcript, b)
    BY <1>1, <1>2, <1>3, <1>4, <1>5, <1>8 DEF FinalResponse
  <2>3. Push("Error", NoId, <<>>)
    BY <2>2 DEF Push
  <2>4. /\ transcript' \in Seq(Told) /\ TextsShown(transcript') = TextsShown(transcript)
        /\ transcript'[Len(transcript')].kind = "Error"
    BY <1>4, <2>3, NoAnswerAdded
  <2> QED
    BY <1>1, <2>4
<1> QED
  BY <1>6, <1>7, <1>8

\* Every step keeps account of the answers.
LEMMA AnswersInvariant == Spec => []Answers
<1>1. Init => Answers
  <2> SUFFICES ASSUME Init PROVE Answers
    OBVIOUS
  <2>1. transcript = <<>> /\ at \in {"pending", "idle"}
    BY DEF Init
  <2>2. TextsShown(transcript) = {} /\ at \notin Running /\ transcript \in Seq(Told)
    BY <2>1, TextsOfNone DEF Running
  <2> QED
    BY <2>2 DEF Answers
<1>2. Course /\ Answers /\ [Next]_vars => Answers'
  <2> SUFFICES ASSUME Course, Answers, [Next]_vars PROVE Answers'
    OBVIOUS
  <2>1. CASE Submit
    <3>1. at' \notin Running
      BY <2>1, SubmitDoes DEF Running
    <3> QED
      <4>1. /\ UNCHANGED <<session, turns>>
            /\ Done(TRUE)' = Done(TRUE) /\ Done(FALSE)' = Done(FALSE)
        BY <2>1, SubmitDoes DEF turnVars, Done
      <4>2. \/ transcript' = transcript
            \/ transcript' = <<>> /\ at' \notin Running
            \/ \E kind \in {"User", "Error", "Status"} : Push(kind, NoId, <<>>)
        BY <2>1, <3>1, SubmitDoes
      <4> QED
        BY <3>1, <4>1, <4>2, AnswersStay
  <2>2. CASE StartTurn
    BY <2>2, AnswersStart
  <2>3. ASSUME NEW w \in DOMAIN sent, NEW n \in NextPieces(w), Deliver(w, n) \/ Skip(w, n)
        PROVE  Answers'
    BY <2>3, AnswersDeliver, AnswersSkip
  <2>4. ASSUME NEW kind \in EndKinds, TurnEnds(kind) PROVE Answers'
    <3>1. CASE mode = "final"
      <4>1. /\ at' = "idle" /\ UNCHANGED <<session, turns, sent>> /\ transcript' \in Seq(Told)
            /\ at' \notin Running
        BY <2>4, <3>1, AnswersEnd DEF Running
      <4>2. ASSUME NEW x \in TextsShown(transcript')
            PROVE  \E i \in 1..turns : \E v \in session.turns[i] : v.type = "agentMessage" /\ v.text = x
        <5>1. CASE x \in TextsShown(transcript)
          BY <3>1, <5>1 DEF Answers
        <5>2. ASSUME NEW w \in Done(FALSE), x = w.text
              PROVE  \E i \in 1..turns : \E v \in session.turns[i] : v.type = "agentMessage" /\ v.text = x
          <6>1. /\ sent \in [session.turns[turns] -> Nat] /\ turns \in 1..Len(session.turns)
                /\ session \in Sessions
            BY <2>4 DEF Course, Running, TurnEnds, Streaming
          <6>2. w \in session.turns[turns] /\ Message(CompletedEvent(w), FALSE)
            BY <6>1 DEF Done
          <6>3. w.type = "agentMessage"
            BY <6>1, <6>2, ItemIs, MessageIs
          <6>4. turns \in 1..turns
            BY <6>1, SessionIs
          <6> QED
            BY <5>2, <6>2, <6>3, <6>4
        <5> QED
          BY <2>4, <3>1, <4>2, <5>1, <5>2, AnswersEnd
      <4>3. /\ turns' = turns /\ session' = session
        BY <4>1
      <4>4. ASSUME NEW x \in TextsShown(transcript')
            PROVE  \E i \in 1..turns' : \E v \in session'.turns[i] :
                     /\ v.type = "agentMessage" /\ v.text = x
                     /\ i = turns' /\ at' \in Running => v \in Done(TRUE)'
        BY <4>1, <4>2, <4>3
      <4> QED
        BY <4>1, <4>4 DEF Answers
    <3>2. CASE mode # "final"
      BY <2>4, <3>2 DEF TurnEnds, Answers, mode
    <3> QED
      BY <3>1, <3>2
  <2>5. CASE \/ EditLine \/ QuitKey \/ ClearTranscript \/ Compacted \/ StreamFails \/ TurnRefused
             \/ StreamCloses \/ TurnAccepted \/ Interrupt \/ InterruptAccepted
             \/ InterruptRefused \/ UNCHANGED vars
    <3>1. /\ UNCHANGED <<session, turns, sent>>
          /\ at' \in Running => at \in Running /\ UNCHANGED <<fallback, emitted, lagged>>
          /\ \/ transcript' = transcript
             \/ transcript' = <<>> /\ at' \notin Running
             \/ \E kind \in {"User", "Error", "Status"} : Push(kind, NoId, <<>>)
      BY <2>5 DEF EditLine, QuitKey, ClearTranscript, Compacted, StreamFails, TurnRefused, Finish,
         StreamCloses, TurnAccepted, Interrupt, InterruptAccepted, InterruptRefused, vars,
         appVars, turnVars, Running
    <3>2. Done(TRUE)' = Done(TRUE) /\ Done(FALSE)' = Done(FALSE)
      BY <3>1 DEF Done
    <3> QED
      BY <3>1, <3>2, AnswersStay
  <2> QED
    BY <2>1, <2>2, <2>3, <2>4, <2>5 DEF Next
<1> QED
  BY <1>1, <1>2, CourseInvariant, PTL DEF Spec

\* AnswersShown: with final_response_only, a turn that completes has shown its final
\* answers and no other message, or its last message if it had none; whatever the items,
\* their order and the interrupts, as long as no two messages say the same.
THEOREM AnswersAreShown ==
  ASSUME DistinctMessages
  PROVE  Spec => AnswersShown
<1> DEFINE told == TextsShown(transcript)
           told2 == TextsShown(transcript')
           finals == {w.text : w \in Done(TRUE)}
           others == {w.text : w \in Done(FALSE)}
<1>1. ASSUME Course, Answers, [Next]_vars, mode = "final", at = "streaming", at' = "idle", lagged = "no"
      PROVE  IF finals # {} THEN finals \subseteq told2 /\ others \cap told2 = {}
             ELSE (others # {} /\ transcript'[Len(transcript')].kind # "Error")
                    => others \cap told2 # {}
  <2>1. StreamCloses \/ \E kind \in EndKinds : TurnEnds(kind)
    <3>1. ~(\/ EditLine \/ QuitKey \/ Submit \/ ClearTranscript \/ Compacted \/ StreamFails
            \/ StartTurn \/ TurnAccepted \/ TurnRefused
            \/ Interrupt \/ InterruptAccepted \/ InterruptRefused \/ UNCHANGED vars)
      BY <1>1 DEF EditLine, QuitKey, Submit, ClearTranscript, Compacted, StreamFails, StartTurn,
         TurnAccepted, TurnRefused, Interrupt, InterruptAccepted, InterruptRefused, vars
    <3>2. ASSUME NEW w, NEW n, Deliver(w, n) \/ Skip(w, n) PROVE FALSE
      BY <1>1, <3>2 DEF Deliver, Skip
    <3> QED
      BY <1>1, <3>1, <3>2 DEF Next
  <2>2. /\ session \in Sessions /\ turns \in 1..Len(session.turns)
        /\ sent \in [session.turns[turns] -> Nat]
    BY <1>1 DEF Course, Running
  <2>3. ASSUME NEW w \in Done(FALSE)
        PROVE  /\ w \in session.turns[turns] /\ w.type = "agentMessage" /\ w \notin Done(TRUE)
    <3>1. w \in session.turns[turns] /\ Message(CompletedEvent(w), FALSE)
      BY <2>2, <2>3 DEF Done
    <3>2. {"type", "id", "text"} \subseteq DOMAIN w
      BY <2>2, <3>1, ItemIs
    <3>3. w.type = "agentMessage" /\ ~Message(CompletedEvent(w), TRUE)
      BY <3>1, <3>2, MessageIs
    <3> QED
      BY <3>1, <3>3 DEF Done
  <2>4. /\ fallback = <<>> \/ Done(FALSE) # {}
        /\ \A w \in Done(TRUE) : w.text \in told
        /\ emitted <=> Done(TRUE) # {}
        /\ Done(FALSE) # {} => fallback # <<>>
    BY <1>1 DEF Answers, Running
  <2>5. \/ /\ ~emitted /\ fallback # <<>>
           /\ \E w \in Done(FALSE) : told2 = told \cup {w.text}
        \/ /\ emitted \/ fallback = <<>>
           /\ told2 = told
        \/ /\ transcript'[Len(transcript')].kind = "Error"
           /\ told2 = told
    <3>1. CASE \E kind \in EndKinds : TurnEnds(kind)
      BY <1>1, <3>1, AnswersEnd
    <3>2. CASE StreamCloses
      <4>1. Push("Error", NoId, <<>>) /\ transcript \in Seq(Told)
        BY <1>1, <3>2 DEF StreamCloses, Answers
      <4> QED
        BY <4>1, NoAnswerAdded
    <3> QED
      BY <2>1, <3>1, <3>2
  <2>6. ASSUME NEW w \in Done(FALSE), w.text \in told PROVE FALSE
    <3>1. PICK i \in 1..turns : \E v \in session.turns[i] :
            /\ v.type = "agentMessage" /\ v.text = w.text
            /\ i = turns => v \in Done(TRUE)
      <4>1. at \in Running
        BY <1>1 DEF Running
      <4> QED
        BY <1>1, <2>6, <4>1 DEF Answers
    <3>2. PICK v \in session.turns[i] :
            /\ v.type = "agentMessage" /\ v.text = w.text
            /\ i = turns => v \in Done(TRUE)
      BY <3>1
    <3>3. /\ i \in DOMAIN session.turns /\ turns \in DOMAIN session.turns
      BY <2>2, SessionIs
    <3>4. \A j, l \in DOMAIN session.turns : \A x \in session.turns[j], y \in session.turns[l] :
            x.type = "agentMessage" /\ y.type = "agentMessage" /\ x.text = y.text => j = l /\ x = y
      BY <2>2 DEF DistinctMessages
    <3>5. i = turns /\ v = w
      BY <2>3, <3>2, <3>3, <3>4
    <3> QED
      BY <2>3, <3>2, <3>5
  <2> HIDE DEF told, told2
  <2>7. CASE Done(TRUE) # {}
    <3>1. finals # {} /\ told2 = told
      BY <2>4, <2>5, <2>7
    <3>2. finals \subseteq told /\ others \cap told = {}
      BY <2>4, <2>6
    <3> QED
      BY <3>1, <3>2
  <2>8. CASE Done(TRUE) = {}
    <3>1. finals = {}
      BY <2>8
    <3>2. ASSUME others # {}, transcript'[Len(transcript')].kind # "Error"
          PROVE  others \cap told2 # {}
      <4>1. Done(FALSE) # {} /\ ~emitted /\ fallback # <<>>
        BY <2>4, <2>8, <3>2
      <4>2. PICK w \in Done(FALSE) : told2 = told \cup {w.text}
        BY <2>5, <3>2, <4>1
      <4> QED
        BY <4>2
    <3> QED
      BY <3>1, <3>2
  <2> QED
    BY <2>7, <2>8
<1>2. Course /\ Answers /\ [Next]_vars
        => [mode = "final" /\ at = "streaming" /\ at' = "idle" /\ lagged = "no" =>
              LET final == {w.text : w \in Done(TRUE)}
                  other == {w.text : w \in Done(FALSE)}
              IN  IF final # {} THEN /\ final \subseteq TextsShown(transcript')
                                     /\ other \cap TextsShown(transcript') = {}
                  ELSE (other # {} /\ transcript'[Len(transcript')].kind # "Error")
                         => other \cap TextsShown(transcript') # {}]_vars
  BY <1>1
<1> QED
  BY <1>2, CourseInvariant, AnswersInvariant, PTL DEF Spec, AnswersShown

-----------------------------------------------------------------------------
(* Human output: the text of an item                                       *)

\* The kind of an item's block, and what the renderer remembers of a streamed item
KindOf(w) == TranscriptKind(RenderKind[ParseThreadItem(w).type])
KeyOf(w) == <<RenderKind[ParseThreadItem(w).type], w.id>>

\* The blocks of a session
Kinds == {TranscriptKind(RenderKind[t]) : t \in DOMAIN RenderKind} \cup {"User", "Error", "Status"}
Ids == {w.id : w \in WireItems(session)} \cup {NoId}
Blocks == [kind : Kinds, id : Ids, text : Seq(Nat)]

\* A parsed item keeps its id and its text.
LEMMA ParsedIs ==
  ASSUME NEW w, {"type", "id", "text"} \subseteq DOMAIN w
  PROVE  /\ ParseThreadItem(w).id = w.id /\ ParseThreadItem(w).text = w.text
         /\ w.type \in KnownTypes => ParseThreadItem(w).type = w.type
         /\ w.type \notin KnownTypes => ParseThreadItem(w).type = "unknown"
<1>1. /\ \A x : Field(w, "type", x) = w.type /\ Field(w, "id", x) = w.id
      /\ \A x : Field(w, "text", x) = w.text
  BY DEF Field
<1>2. ReasoningText(w) = w.text
  BY DEF ReasoningText
<1>3. CASE w.type \in KnownTypes
  <2>1. ParseThreadItem(w) =
          ThreadItem(w.type, w.id, w.text, IF w.type = "agentMessage" THEN Phase(w) ELSE NoPhase)
    BY <1>1, <1>2, <1>3, Zenon DEF ParseThreadItem
  <2> QED
    BY <1>3, <2>1 DEF ThreadItem
<1>4. CASE w.type \notin KnownTypes
  <2>1. ParseThreadItem(w) = ThreadItem("unknown", w.id, w.text, NoPhase)
    BY <1>1, <1>4 DEF ParseThreadItem
  <2> QED
    BY <1>4, <2>1 DEF ThreadItem
<1> QED
  BY <1>3, <1>4

\* Only a prompt's echo renders as one, and deltas are of known types.
LEMMA TypesAre ==
  ASSUME NEW w, {"type", "id", "text"} \subseteq DOMAIN w
  PROVE  /\ ParseThreadItem(w).type \in DOMAIN RenderKind
         /\ RenderKind[ParseThreadItem(w).type] = "UserMessage" <=> w.type = "userMessage"
         /\ w.type \in DeltaTypes =>
              /\ ParseThreadItem(w).type = w.type
              /\ RenderKind[w.type] \in {"AgentMessage", "Reasoning", "Plan"}
<1> DEFINE t == ParseThreadItem(w).type
<1>1. \/ w.type \in KnownTypes /\ t = w.type
      \/ w.type \notin KnownTypes /\ t = "unknown"
  BY ParsedIs
<1>2. /\ DOMAIN RenderKind = KnownTypes \cup {"unknown"} /\ "unknown" \notin KnownTypes
      /\ "userMessage" \in KnownTypes /\ DeltaTypes \subseteq KnownTypes
      /\ RenderKind["unknown"] # "UserMessage"
  BY DEF KnownTypes, RenderKind, DeltaTypes
<1>3. \A x \in KnownTypes : RenderKind[x] = "UserMessage" <=> x = "userMessage"
  BY DEF KnownTypes, RenderKind
<1>4. \A x \in DeltaTypes : RenderKind[x] \in {"AgentMessage", "Reasoning", "Plan"}
  BY DEF DeltaTypes, RenderKind
<1> HIDE DEF t
<1>5. t \in DOMAIN RenderKind /\ (RenderKind[t] = "UserMessage" <=> w.type = "userMessage")
  BY <1>1, <1>2, <1>3
<1> QED
  BY <1>1, <1>2, <1>4, <1>5 DEF t

\* What the renderer makes of a delta: a continuation of the item's block.
LEMMA DeltaRendered ==
  ASSUME NEW w, {"type", "id", "text"} \subseteq DOMAIN w, w.text \in Seq(Nat), w.id # NoId,
         w.type \in DeltaTypes, NEW n \in 1..Whole(w), n # Whole(w), NEW known
  PROVE  \E f : /\ Render(known, PieceEvent(w, n)) = Rendered(<<f>>, known \cup {KeyOf(w)})
               /\ f.kind = RenderKind[ParseThreadItem(w).type] /\ f.id = w.id
               /\ f.text = <<w.text[n]>> /\ f.continuation = TRUE
<1> DEFINE d == [id |-> w.id, delta |-> <<w.text[n]>>]
           piece == <<w.text[n]>>
           item == ThreadItem(w.type, w.id, piece, NoPhase)
<1>1. PieceEvent(w, n) = Head(DeltaEvents(w, n))
  BY DEF PieceEvent
<1>2. \A x : Field(d, "id", x) = w.id /\ Field(d, "delta", x) = piece
  BY DEF Field
<1>3. piece # <<>> /\ \A x : Head(<<x>>) = x
  OBVIOUS
<1>4. DeltaEvents(w, n) = <<ItemEvent("itemUpdated", item)>>
  <2> HIDE DEF piece
  <2>1. DeltaEvents(w, n) = DeltaItemUpdated(w.type, d)
    BY DEF DeltaEvents, piece
  <2> HIDE DEF d
  <2> QED
    BY <1>2, <1>3, <2>1, Zenon DEF DeltaItemUpdated
<1>5. PieceEvent(w, n) = ItemEvent("itemUpdated", item)
  BY <1>1, <1>3, <1>4
<1>6. /\ item.type = w.type /\ item.id = w.id /\ item.text = piece
      /\ ItemEvent("itemUpdated", item).kind = "itemUpdated"
      /\ ItemEvent("itemUpdated", item).item = item
  BY DEF ThreadItem, ItemEvent
<1> HIDE DEF item, piece
<1>7. Render(known, PieceEvent(w, n)) = RenderUpdated(known, item)
  BY <1>5, <1>6 DEF Render
<1> DEFINE f == Fragment(item, piece)
<1>8. f = [kind |-> RenderKind[w.type], id |-> w.id, text |-> piece, continuation |-> FALSE]
  BY <1>6 DEF Fragment
<1>9. RenderUpdated(known, item) =
        Rendered(<<[f EXCEPT !.continuation = TRUE]>>,
                 IF f.id = NoId THEN known ELSE known \cup {Streamed(f)})
  BY <1>3, <1>6 DEF RenderUpdated
<1>10. f.id = w.id /\ Streamed(f) = <<RenderKind[w.type], w.id>>
  BY <1>8 DEF Streamed
<1> DEFINE g == [f EXCEPT !.continuation = TRUE]
<1>11. /\ g.kind = RenderKind[w.type] /\ g.id = w.id /\ g.text = piece
       /\ g.continuation = TRUE
  BY <1>8
<1>12. ParseThreadItem(w).type = w.type
  BY TypesAre
<1>13. Render(known, PieceEvent(w, n)) = Rendered(<<g>>, known \cup {KeyOf(w)})
  <2> HIDE DEF f
  <2> QED
    BY <1>7, <1>9, <1>10, <1>12 DEF KeyOf
<1> HIDE DEF g
<1> QED
  BY <1>11, <1>12, <1>13 DEF piece

\* What it makes of a snapshot: a block, unless it is empty or was streamed.
LEMMA SnapshotRendered ==
  ASSUME NEW w, {"type", "id", "text"} \subseteq DOMAIN w, NEW known
  PROVE  LET f == RenderThreadItem(ParseThreadItem(w))
         IN  /\ f.kind = RenderKind[ParseThreadItem(w).type] /\ f.id = w.id
             /\ f.continuation = FALSE /\ f.text \in {<<>>, w.text}
             /\ f.text # w.text => ParseThreadItem(w).type = "reasoning"
             /\ Render(known, CompletedEvent(w)) =
                  Rendered(IF Empty(f) \/ KeyOf(w) \in known THEN <<>> ELSE <<f>>,
                           known \ {KeyOf(w)})
<1> DEFINE item == ParseThreadItem(w)
           f == RenderThreadItem(item)
<1>1. item.id = w.id /\ item.text = w.text
  BY ParsedIs
<1>2. /\ CompletedEvent(w).kind = "itemCompleted" /\ CompletedEvent(w).item = item
  BY DEF CompletedEvent, ItemEvent
<1> HIDE DEF item
<1>3. /\ f.kind = RenderKind[item.type] /\ f.id = w.id /\ f.continuation = FALSE
      /\ f.text \in {<<>>, w.text} /\ (f.text # w.text => item.type = "reasoning")
  BY <1>1 DEF RenderThreadItem, Fragment
<1>4. Streamed(f) = KeyOf(w)
  BY <1>3 DEF Streamed, KeyOf, item
<1>5. Render(known, CompletedEvent(w)) = RenderCompleted(known, item)
  BY <1>2 DEF Render
<1>6. RenderCompleted(known, item) =
        Rendered(IF Empty(f) \/ KeyOf(w) \in known THEN <<>> ELSE <<f>>, known \ {KeyOf(w)})
  BY <1>4 DEF RenderCompleted
<1> QED
  BY <1>3, <1>5, <1>6 DEF item

-----------------------------------------------------------------------------
(* Human output: the blocks                                                *)

Now(j) == j = turns /\ at \in Running

\* A block of item v of turn j: its pieces were received, and while its turn runs and
\* its snapshot is to come the renderer remembers it.
BlockFor(b, j, v) ==
  /\ b.id = v.id /\ b.kind = KindOf(v) /\ v.type # "userMessage"
  /\ \A i \in 1..Len(b.text) : b.text[i] # Blank =>
       \E q \in 1..Len(v.text) : v.text[q] = b.text[i] /\ (Now(j) => q <= sent[v])
  /\ Now(j) => sent[v] # 0 /\ (sent[v] # Whole(v) => KeyOf(v) \in streamed)

NoRepeat(t) == \A i, j \in 1..Len(t) : t[i] = t[j] /\ t[i] # Blank => i = j

FitBlock(b) ==
  /\ b.id = NoId => b.text = <<>>
  /\ b.id # NoId => \E j \in 1..turns : \E v \in session.turns[j] : BlockFor(b, j, v)
  /\ NoRepeat(b.text)

NoBlock(w) == \A k \in 1..Len(transcript) : transcript[k].id # w.id

\* Where what was sent of an item is shown, if all of it was received
Placed(w) ==
  IF sent[w] = 0 \/ w.type = "userMessage" THEN NoBlock(w)
  ELSE \/ \E k \in 1..Len(transcript) :
            /\ transcript[k].id = w.id
            /\ transcript[k].text =
                 SubSeq(w.text, 1, IF sent[w] = Whole(w) THEN Len(w.text) ELSE sent[w])
       \/ Empty(RenderThreadItem(ParseThreadItem(w))) /\ sent[w] = Whole(w) /\ NoBlock(w)

\* In human output each block is an item's own, and no item has two.
Human ==
  mode = "human" =>
    /\ transcript \in Seq(Blocks)
    /\ \A b \in {transcript[k] : k \in 1..Len(transcript)} : FitBlock(b)
    /\ \A k, l \in 1..Len(transcript) :
         transcript[k].id = transcript[l].id /\ transcript[k].id # NoId => k = l
    /\ at \in Running /\ lagged = "no" => \A w \in DOMAIN sent : Placed(w)

\* What DistinctItems says of one session.
LEMMA ItemsDiffer ==
  ASSUME DistinctItems, NEW s \in Sessions, NEW i \in 1..Len(s.turns), NEW j \in 1..Len(s.turns),
         NEW v \in s.turns[i], NEW w \in s.turns[j]
  PROVE  /\ v.id # NoId /\ (v.id = w.id => i = j /\ v = w)
         /\ \A k \in 1..Len(v.text), l \in 1..Len(w.text) :
              v.text[k] = w.text[l] /\ v.text[k] # Blank => i = j /\ v = w /\ k = l
<1>1. i \in DOMAIN s.turns /\ j \in DOMAIN s.turns
  BY SessionIs
<1> QED
  BY <1>1 DEF DistinctItems

\* The pieces of one item differ.
LEMMA PiecesDiffer ==
  ASSUME DistinctItems, NEW s \in Sessions, NEW i \in 1..Len(s.turns), NEW w \in s.turns[i]
  PROVE  NoRepeat(w.text)
BY ItemsDiffer DEF NoRepeat

\* A block stays an item's own while nothing more of its turn is received.
LEMMA FitStays ==
  ASSUME NEW b, FitBlock(b), session' = session, turns' = turns,
         at' \in Running => at \in Running /\ sent' = sent /\ streamed' = streamed
  PROVE  FitBlock(b)'
<1>1. ASSUME NEW j \in 1..turns, NEW v \in session.turns[j], BlockFor(b, j, v)
      PROVE  BlockFor(b, j, v)'
  <2>1. Now(j)' => Now(j) /\ sent' = sent /\ streamed' = streamed
    BY DEF Now
  <2>2. ASSUME NEW i \in 1..Len(b.text), b.text[i] # Blank
        PROVE  \E q \in 1..Len(v.text) : v.text[q] = b.text[i] /\ (Now(j)' => q <= sent'[v])
    BY <1>1, <2>1, <2>2 DEF BlockFor
  <2>3. Now(j)' => sent'[v] # 0 /\ (sent'[v] # Whole(v) => KeyOf(v) \in streamed')
    BY <1>1, <2>1 DEF BlockFor
  <2> QED
    BY <1>1, <2>2, <2>3 DEF BlockFor
<1> QED
  BY <1>1 DEF FitBlock

\* When more is received of an item w, a block of an item is still its own.
LEMMA FitGrows ==
  ASSUME DistinctItems, Course, at \in Running, UNCHANGED <<at, session, turns>>,
         NEW w \in DOMAIN sent, NEW n \in NextPieces(w), sent' = [sent EXCEPT ![w] = n],
         \A v \in DOMAIN sent \ {w} : KeyOf(v) \in streamed => KeyOf(v) \in streamed',
         NEW b, FitBlock(b), b.id = w.id => n = Whole(w) \/ KeyOf(w) \in streamed'
  PROVE  FitBlock(b)'
<1>1. /\ sent \in [session.turns[turns] -> Nat] /\ turns \in 1..Len(session.turns)
      /\ session \in Sessions /\ session' = session /\ turns' = turns
  BY DEF Course
<1>2. n \in Nat /\ sent[w] \in Nat /\ n > sent[w] /\ n # 0
  <2>1. Whole(w) \in Nat
    BY <1>1, ItemIs DEF Whole
  <2> QED
    BY <1>1, <2>1 DEF NextPieces
<1>3. ASSUME NEW j \in 1..turns, NEW v \in session.turns[j], BlockFor(b, j, v)
      PROVE  BlockFor(b, j, v)'
  <2>1. Now(j)' <=> Now(j)
    BY <1>1 DEF Now
  <2>2. Now(j) => v \in DOMAIN sent
    BY <1>1 DEF Now
  <2>3. Now(j) => sent[v] <= sent'[v] /\ sent[v] \in Nat /\ sent'[v] \in Nat
    BY <1>1, <1>2, <2>2
  <2>4. ASSUME NEW i \in 1..Len(b.text), b.text[i] # Blank
        PROVE  \E q \in 1..Len(v.text) : v.text[q] = b.text[i] /\ (Now(j)' => q <= sent'[v])
    <3>1. PICK q \in 1..Len(v.text) : v.text[q] = b.text[i] /\ (Now(j) => q <= sent[v])
      BY <1>3, <2>4 DEF BlockFor
    <3>2. Now(j) => q <= sent'[v]
      BY <2>3, <3>1
    <3> QED
      BY <2>1, <3>1, <3>2
  <2>5. ASSUME Now(j) PROVE sent'[v] # 0 /\ (sent'[v] # Whole(v) => KeyOf(v) \in streamed')
    <3>1. sent[v] # 0 /\ (sent[v] # Whole(v) => KeyOf(v) \in streamed) /\ b.id = v.id
      BY <1>3, <2>5 DEF BlockFor
    <3>2. CASE v = w
      BY <1>1, <1>2, <3>1, <3>2
    <3>3. CASE v # w
      BY <1>1, <2>2, <2>5, <3>1, <3>3
    <3> QED
      BY <3>2, <3>3
  <2> QED
    BY <1>3, <2>1, <2>4, <2>5 DEF BlockFor
<1> QED
  BY <1>1, <1>3 DEF FitBlock

\* A block of what was received of w is its own.
LEMMA FitMade ==
  ASSUME Course, at \in Running, UNCHANGED <<at, session, turns>>,
         NEW w \in DOMAIN sent, NEW n \in NextPieces(w), sent' = [sent EXCEPT ![w] = n],
         n # Whole(w) => KeyOf(w) \in streamed',
         NEW b, b.id = w.id, w.id # NoId, b.kind = KindOf(w), w.type # "userMessage",
         NoRepeat(b.text),
         \A i \in 1..Len(b.text) : b.text[i] # Blank =>
           \E q \in 1..Len(w.text) : w.text[q] = b.text[i] /\ q <= n
  PROVE  FitBlock(b)'
<1>1. /\ sent \in [session.turns[turns] -> Nat] /\ turns \in 1..Len(session.turns)
      /\ session \in Sessions /\ session' = session /\ turns' = turns
  BY DEF Course
<1>2. sent'[w] = n /\ n # 0
  <2>1. Whole(w) \in Nat
    BY <1>1, ItemIs DEF Whole
  <2> QED
    BY <1>1, <2>1 DEF NextPieces
<1>3. BlockFor(b, turns, w)'
  <2>1. ASSUME NEW i \in 1..Len(b.text), b.text[i] # Blank
        PROVE  \E q \in 1..Len(w.text) : w.text[q] = b.text[i] /\ q <= sent'[w]
    BY <1>2, <2>1
  <2> QED
    BY <1>1, <1>2, <2>1 DEF BlockFor
<1>4. turns \in 1..turns /\ w \in session.turns[turns]
  BY <1>1, SessionIs
<1>5. \E j \in 1..turns' : \E v \in session'.turns[j] : BlockFor(b, j, v)'
  BY <1>1, <1>3, <1>4
<1> QED
  BY <1>5 DEF FitBlock

\* An item's block is one of what was received of it.
LEMMA OwnBlock ==
  ASSUME DistinctItems, Course, Human, mode = "human", at \in Running, NEW w \in DOMAIN sent,
         NEW k \in 1..Len(transcript), transcript[k].id = w.id
  PROVE  /\ transcript[k].kind = KindOf(w) /\ w.type # "userMessage"
         /\ sent[w] # 0 /\ (sent[w] # Whole(w) => KeyOf(w) \in streamed)
         /\ \A i \in 1..Len(transcript[k].text) : transcript[k].text[i] # Blank =>
              \E q \in 1..Len(w.text) : w.text[q] = transcript[k].text[i] /\ q <= sent[w]
         /\ NoRepeat(transcript[k].text)
<1> PICK b : b = transcript[k]
  OBVIOUS
<1>1. /\ sent \in [session.turns[turns] -> Nat] /\ turns \in 1..Len(session.turns)
      /\ session \in Sessions /\ w \in session.turns[turns] /\ Len(session.turns) \in Nat
  BY SessionIs DEF Course
<1>2. FitBlock(b)
  BY DEF Human
<1>3. w.id # NoId
  BY <1>1, ItemsDiffer
<1>4. PICK j \in 1..turns : \E v \in session.turns[j] : BlockFor(b, j, v)
  BY <1>2, <1>3 DEF FitBlock
<1>5. PICK v \in session.turns[j] : BlockFor(b, j, v)
  BY <1>4
<1>6. j = turns /\ v = w
  <2>1. j \in 1..Len(session.turns) /\ v.id = w.id
    BY <1>1, <1>5 DEF BlockFor
  <2> QED
    BY <1>1, <2>1, ItemsDiffer
<1>7. BlockFor(b, turns, w) /\ Now(turns)
  BY <1>5, <1>6 DEF Now
<1> QED
  BY <1>2, <1>7 DEF BlockFor, FitBlock

\* An item whose blocks a step leaves alone stays in its place.
LEMMA PlacedStays ==
  ASSUME NEW v, Placed(v), sent'[v] = sent[v],
         \A k : k \in 1..Len(transcript') /\ transcript'[k].id = v.id
                 <=> k \in 1..Len(transcript) /\ transcript[k].id = v.id,
         \A k \in 1..Len(transcript) : transcript[k].id = v.id => transcript'[k] = transcript[k]
  PROVE  Placed(v)'
<1>1. NoBlock(v) <=> NoBlock(v)'
  BY DEF NoBlock
<1>2. CASE sent[v] = 0 \/ v.type = "userMessage"
  BY <1>1, <1>2 DEF Placed
<1>3. CASE ~(sent[v] = 0 \/ v.type = "userMessage")
  <2> DEFINE t == SubSeq(v.text, 1, IF sent[v] = Whole(v) THEN Len(v.text) ELSE sent[v])
  <2>1. ASSUME NEW k \in 1..Len(transcript), transcript[k].id = v.id, transcript[k].text = t
        PROVE  k \in 1..Len(transcript') /\ transcript'[k].id = v.id /\ transcript'[k].text = t
    <3> HIDE DEF t
    <3> QED
      BY <2>1
  <2>2. t = SubSeq(v.text, 1, IF sent'[v] = Whole(v) THEN Len(v.text) ELSE sent'[v])
    OBVIOUS
  <2>3. CASE \E k \in 1..Len(transcript) : transcript[k].id = v.id /\ transcript[k].text = t
    <3>1. \E k \in 1..Len(transcript') : transcript'[k].id = v.id /\ transcript'[k].text = t
      <4> HIDE DEF t
      <4> QED
        BY <2>1, <2>3
    <3> QED
      BY <1>3, <2>2, <3>1 DEF Placed
  <2>4. CASE Empty(RenderThreadItem(ParseThreadItem(v))) /\ sent[v] = Whole(v) /\ NoBlock(v)
    BY <1>1, <1>3, <2>4 DEF Placed
  <2> QED
    BY <1>3, <2>3, <2>4 DEF Placed
<1> QED
  BY <1>2, <1>3

\* More of w is received, and one block of its own has it.
LEMMA HumanChange ==
  ASSUME DistinctItems, Course, Human, mode = "human", at \in Running,
         UNCHANGED <<at, session, turns, lagged>>,
         NEW w \in DOMAIN sent, NEW n \in NextPieces(w), sent' = [sent EXCEPT ![w] = n],
         \A v \in DOMAIN sent \ {w} : KeyOf(v) \in streamed => KeyOf(v) \in streamed',
         n # Whole(w) => KeyOf(w) \in streamed',
         transcript' \in Seq(Blocks), NEW m \in 1..Len(transcript'),
         \A k \in 1..Len(transcript') \ {m} :
           k \in 1..Len(transcript) /\ transcript'[k] = transcript[k] /\ transcript[k].id # w.id,
         \A k \in 1..Len(transcript) \ {m} : k \in 1..Len(transcript'),
         m \in 1..Len(transcript) => transcript[m].id = w.id,
         transcript'[m].id = w.id, transcript'[m].kind = KindOf(w), w.type # "userMessage",
         NoRepeat(transcript'[m].text),
         \A i \in 1..Len(transcript'[m].text) : transcript'[m].text[i] # Blank =>
           \E q \in 1..Len(w.text) : w.text[q] = transcript'[m].text[i] /\ q <= n,
         lagged = "no" => transcript'[m].text =
                            SubSeq(w.text, 1, IF n = Whole(w) THEN Len(w.text) ELSE n)
  PROVE  Human'
<1>1. /\ sent \in [session.turns[turns] -> Nat] /\ turns \in 1..Len(session.turns)
      /\ session \in Sessions /\ w \in session.turns[turns] /\ session' = session
  BY DEF Course
<1>2. Blocks' = Blocks
  BY <1>1 DEF Blocks, Ids
<1>3. w.id # NoId
  BY <1>1, ItemsDiffer
<1>4. ASSUME NEW k \in 1..Len(transcript') PROVE \A b : b = transcript'[k] => FitBlock(b)'
  <2> SUFFICES ASSUME NEW b, b = transcript'[k] PROVE FitBlock(b)'
    OBVIOUS
  <2>1. CASE k = m
    BY <1>3, <2>1, FitMade
  <2>2. CASE k # m
    <3>1. k \in 1..Len(transcript) /\ b = transcript[k] /\ b.id # w.id
      BY <2>2
    <3>2. FitBlock(b)
      BY <3>1 DEF Human
    <3> QED
      BY <3>1, <3>2, FitGrows
  <2> QED
    BY <2>1, <2>2
<1>5. ASSUME NEW k \in 1..Len(transcript'), NEW l \in 1..Len(transcript'),
             transcript'[k].id = transcript'[l].id, transcript'[k].id # NoId
      PROVE  k = l
  <2>1. CASE k = m \/ l = m
    BY <1>5, <2>1
  <2>2. CASE k # m /\ l # m
    BY <1>5, <2>2 DEF Human
  <2> QED
    BY <2>1, <2>2
<1>6. ASSUME lagged = "no", NEW v \in DOMAIN sent PROVE Placed(v)'
  <2>1. CASE v = w
    <3>1. sent'[w] = n /\ n # 0
      <4>1. Whole(w) \in Nat
        BY <1>1, ItemIs DEF Whole
      <4> QED
        BY <1>1, <4>1 DEF NextPieces
    <3>2. \E k \in 1..Len(transcript') :
            /\ transcript'[k].id = w.id
            /\ transcript'[k].text =
                 SubSeq(w.text, 1, IF sent'[w] = Whole(w) THEN Len(w.text) ELSE sent'[w])
      BY <1>6, <3>1
    <3> QED
      BY <2>1, <3>1, <3>2 DEF Placed
  <2>2. CASE v # w
    <3>1. v \in session.turns[turns] /\ sent'[v] = sent[v]
      BY <1>1, <2>2
    <3>2. v.id # w.id
      BY <1>1, <2>2, <3>1, ItemsDiffer
    <3>3. \A k : k \in 1..Len(transcript') /\ transcript'[k].id = v.id
                  <=> k \in 1..Len(transcript) /\ transcript[k].id = v.id
      BY <3>2
    <3>4. \A k \in 1..Len(transcript) : transcript[k].id = v.id => transcript'[k] = transcript[k]
      BY <3>2
    <3>5. Placed(v)
      BY <1>6 DEF Human
    <3> QED
      BY <3>1, <3>3, <3>4, <3>5, PlacedStays
  <2> QED
    BY <2>1, <2>2
<1>7. DOMAIN sent' = DOMAIN sent
  OBVIOUS
<1>8. \A b \in {transcript'[k] : k \in 1..Len(transcript')} : FitBlock(b)'
  BY <1>4
<1> QED
  BY <1>2, <1>5, <1>6, <1>7, <1>8 DEF Human

\* More of w is received, or skipped, and the blocks stay as they are.
LEMMA HumanSame ==
  ASSUME DistinctItems, Course, Human, mode = "human", at \in Running,
         UNCHANGED <<at, session, turns, transcript>>,
         NEW w \in DOMAIN sent, NEW n \in NextPieces(w), sent' = [sent EXCEPT ![w] = n],
         \A v \in DOMAIN sent \ {w} : KeyOf(v) \in streamed => KeyOf(v) \in streamed',
         ~NoBlock(w) => n = Whole(w) \/ KeyOf(w) \in streamed',
         lagged' = "no" => lagged = "no" /\ Placed(w)'
  PROVE  Human'
<1>1. /\ sent \in [session.turns[turns] -> Nat] /\ session' = session /\ transcript' = transcript
  BY DEF Course
<1>2. Blocks' = Blocks
  BY <1>1 DEF Blocks, Ids
<1>3. ASSUME NEW k \in 1..Len(transcript) PROVE \A b : b = transcript[k] => FitBlock(b)'
  <2> SUFFICES ASSUME NEW b, b = transcript[k] PROVE FitBlock(b)'
    OBVIOUS
  <2>1. FitBlock(b)
    BY DEF Human
  <2>2. b.id = w.id => n = Whole(w) \/ KeyOf(w) \in streamed'
    BY DEF NoBlock
  <2> QED
    BY <2>1, <2>2, FitGrows
<1>4. ASSUME lagged' = "no", NEW v \in DOMAIN sent PROVE Placed(v)'
  <2>1. CASE v = w
    BY <1>4, <2>1
  <2>2. CASE v # w
    <3>1. sent'[v] = sent[v] /\ Placed(v)
      BY <1>1, <1>4, <2>2 DEF Human
    <3> QED
      BY <1>1, <3>1, PlacedStays
  <2> QED
    BY <2>1, <2>2
<1>5. DOMAIN sent' = DOMAIN sent
  OBVIOUS
<1>6. \A b \in {transcript'[k] : k \in 1..Len(transcript')} : FitBlock(b)'
  BY <1>1, <1>3
<1>7. \A k, l \in 1..Len(transcript') :
         transcript'[k].id = transcript'[l].id /\ transcript'[k].id # NoId => k = l
  BY <1>1 DEF Human
<1>8. transcript' \in Seq(Blocks)'
  BY <1>1, <1>2 DEF Human
<1> QED
  BY <1>4, <1>5, <1>6, <1>7, <1>8 DEF Human

\* What a step that receives n of w starts from.
LEMMA PieceOf ==
  ASSUME DistinctItems, Course, at \in Running, NEW w \in DOMAIN sent, NEW n \in NextPieces(w)
  PROVE  /\ sent \in [session.turns[turns] -> Nat] /\ turns \in 1..Len(session.turns)
         /\ session \in Sessions /\ w \in session.turns[turns]
         /\ {"type", "id", "text"} \subseteq DOMAIN w /\ w.text \in Seq(Nat) /\ Len(w.text) \in Nat
         /\ w.id # NoId /\ w.id \in Ids /\ KindOf(w) \in Kinds
         /\ sent[w] \in Nat /\ n \in 1..Whole(w) /\ n > sent[w] /\ sent[w] # Whole(w)
         /\ \A v \in DOMAIN sent \ {w} : v.id # w.id /\ KeyOf(v) # KeyOf(w)
<1>1. /\ sent \in [session.turns[turns] -> Nat] /\ turns \in 1..Len(session.turns)
      /\ session \in Sessions /\ w \in session.turns[turns]
  BY DEF Course
<1>2. {"type", "id", "text"} \subseteq DOMAIN w /\ w.text \in Seq(Nat) /\ Len(w.text) \in Nat
  BY <1>1, ItemIs
<1>3. n \in 1..Whole(w) /\ n > sent[w] /\ sent[w] \in Nat /\ sent[w] # Whole(w)
  BY <1>1, <1>2 DEF NextPieces, Whole
<1>4. \A v \in DOMAIN sent : v.id # NoId /\ (v # w => v.id # w.id)
  BY <1>1, ItemsDiffer
<1>5. w.id \in Ids
  <2>1. turns \in DOMAIN session.turns
    BY <1>1, SessionIs
  <2> QED
    BY <1>1, <2>1 DEF Ids, WireItems
<1>6. KindOf(w) \in Kinds
  BY <1>2, TypesAre DEF KindOf, Kinds
<1>7. \A v \in DOMAIN sent \ {w} : KeyOf(v) # KeyOf(w)
  BY <1>4 DEF KeyOf
<1> QED
  BY <1>1, <1>2, <1>3, <1>4, <1>5, <1>6, <1>7

\* A delta goes to the end of its item's block, or begins it.
LEMMA HumanDelta ==
  ASSUME DistinctItems, Course, Human, mode = "human",
         NEW w \in DOMAIN sent, NEW n \in NextPieces(w), n # Whole(w), Deliver(w, n)
  PROVE  Human'
<1> DEFINE e == PieceEvent(w, n)
           piece == <<w.text[n]>>
<1>1. /\ at = "streaming" /\ sent' = [sent EXCEPT ![w] = n] /\ transcript' = Shown(e)
      /\ Consumed(e) /\ UNCHANGED <<session, turns, at, lagged>>
  BY DEF Deliver, Streaming
<1>2. at \in Running
  BY <1>1 DEF Running
<1>3. /\ w.id # NoId /\ w.id \in Ids /\ KindOf(w) \in Kinds /\ w.text \in Seq(Nat)
      /\ {"type", "id", "text"} \subseteq DOMAIN w
      /\ Len(w.text) \in Nat /\ sent[w] \in Nat /\ sent[w] # Whole(w)
      /\ \A v \in DOMAIN sent \ {w} : v.id # w.id
  BY <1>2, PieceOf
<1>4. n = sent[w] + 1 /\ n \in 1..Len(w.text) /\ w.type \in DeltaTypes /\ n \in 1..Whole(w)
  BY <1>3 DEF NextPieces, Whole
<1>5. PICK f : /\ Render(streamed, e) = Rendered(<<f>>, streamed \cup {KeyOf(w)})
               /\ f.kind = RenderKind[ParseThreadItem(w).type] /\ f.id = w.id
               /\ f.text = piece /\ f.continuation = TRUE
  BY <1>3, <1>4, DeltaRendered
<1>6. f.kind # "UserMessage" /\ w.type # "userMessage" /\ TranscriptKind(f.kind) = KindOf(w)
  <2>1. w.type # "userMessage"
    BY <1>4 DEF DeltaTypes
  <2> QED
    BY <1>3, <1>5, <2>1, TypesAre DEF KindOf
<1> HIDE DEF e
<1>7. transcript' = PushFragment(f) /\ streamed' = streamed \cup {KeyOf(w)}
  <2>1. /\ Render(streamed, e).out = <<f>>
        /\ Render(streamed, e).streamed = streamed \cup {KeyOf(w)}
    BY <1>5 DEF Rendered
  <2>2. <<f>> # <<>> /\ Head(<<f>>) = f
    OBVIOUS
  <2> QED
    BY <1>1, <1>6, <2>1, <2>2 DEF Shown, Consumed
<1> DEFINE same == {k \in 1..Len(transcript) : /\ transcript[k].kind = KindOf(w)
                                               /\ w.id # NoId /\ transcript[k].id = w.id}
<1>8. transcript' = IF same # {}
                      THEN [transcript EXCEPT ![LastOrZero(same)].text = @ \o piece]
                      ELSE Append(transcript, Block(KindOf(w), w.id, piece))
  <2> HIDE DEF piece
  <2> QED
    BY <1>5, <1>6, <1>7 DEF PushFragment
<1>9. /\ transcript \in Seq(Blocks) /\ Len(transcript) \in Nat
      /\ piece \in Seq(Nat) /\ Len(piece) = 1 /\ piece[1] = w.text[n]
  BY <1>3, <1>4 DEF Human
<1>10. ASSUME NEW k \in 1..Len(transcript), transcript[k].id = w.id
       PROVE  k \in same
  BY <1>2, <1>3, <1>10, OwnBlock
<1>11. \A v \in DOMAIN sent \ {w} : KeyOf(v) \in streamed => KeyOf(v) \in streamed'
  BY <1>7
<1>12. KeyOf(w) \in streamed'
  BY <1>7
<1>13. CASE same = {}
  <2> DEFINE b == Block(KindOf(w), w.id, piece)
             m == Len(transcript) + 1
  <2>1. b \in Blocks /\ b.id = w.id /\ b.kind = KindOf(w) /\ b.text = piece
    BY <1>3, <1>9 DEF Block, Blocks
  <2>2. transcript' = Append(transcript, b)
    BY <1>8, <1>13
  <2> HIDE DEF b, same
  <2>3. /\ transcript' \in Seq(Blocks) /\ Len(transcript') = m /\ transcript'[m] = b
        /\ \A k \in 1..Len(transcript) : transcript'[k] = transcript[k]
    BY <1>9, <2>1, <2>2
  <2>4. m \in 1..Len(transcript') /\ m \notin 1..Len(transcript)
    BY <1>9, <2>3
  <2>5. \A k \in 1..Len(transcript') \ {m} :
          k \in 1..Len(transcript) /\ transcript'[k] = transcript[k] /\ transcript[k].id # w.id
    BY <1>9, <1>10, <1>13, <2>3
  <2>6. NoRepeat(piece) /\ \A i \in 1..Len(piece) : \E q \in 1..Len(w.text) : w.text[q] = piece[i] /\ q <= n
    BY <1>4, <1>9 DEF NoRepeat
  <2>7. ASSUME lagged = "no" PROVE piece = SubSeq(w.text, 1, n)
    <3>1. Placed(w)
      BY <1>2, <2>7 DEF Human
    <3>2. sent[w] = 0
      BY <1>3, <1>6, <1>10, <1>13, <3>1 DEF Placed
    <3>3. n = 1
      BY <1>4, <3>2
    <3> QED
      BY <1>3, <1>4, <3>3
  <2>8. n # Whole(w) /\ transcript'[m].id = w.id /\ transcript'[m].kind = KindOf(w)
        /\ transcript'[m].text = piece
    BY <2>1, <2>3
  <2>9. \A k \in 1..Len(transcript) \ {m} : k \in 1..Len(transcript')
    BY <1>9, <2>3
  <2> HIDE DEF m, piece
  <2>10. NoRepeat(transcript'[m].text)
    BY <2>6, <2>8
  <2>11. \A i \in 1..Len(transcript'[m].text) : transcript'[m].text[i] # Blank =>
           \E q \in 1..Len(w.text) : w.text[q] = transcript'[m].text[i] /\ q <= n
    BY <2>6, <2>8
  <2>12. lagged = "no" => transcript'[m].text =
                             SubSeq(w.text, 1, IF n = Whole(w) THEN Len(w.text) ELSE n)
    BY <2>7, <2>8
  <2> QED
    BY <1>1, <1>2, <1>6, <1>11, <1>12, <2>3, <2>4, <2>5, <2>8, <2>9, <2>10, <2>11, <2>12,
       HumanChange
<1>14. CASE same # {}
  <2> DEFINE m == LastOrZero(same)
             t == transcript[m].text
  <2>1. m \in same
    BY <1>9, <1>14, LastOrZeroIs
  <2>2. m \in 1..Len(transcript) /\ transcript[m].id = w.id /\ transcript[m].kind = KindOf(w)
    BY <2>1
  <2>3. transcript' = [transcript EXCEPT ![m].text = @ \o piece]
    BY <1>8, <1>14
  <2> HIDE DEF m, same
  <2>4. transcript[m] \in Blocks
    BY <1>9, <2>2
  <2>5. t \in Seq(Nat) /\ transcript[m] = [kind |-> KindOf(w), id |-> w.id, text |-> t]
    BY <2>2, <2>4 DEF Blocks
  <2> DEFINE t2 == t \o piece
  <2>6. /\ t2 \in Seq(Nat) /\ Len(t2) = Len(t) + 1 /\ t2[Len(t) + 1] = w.text[n] /\ Len(t) \in Nat
        /\ \A i \in 1..Len(t) : t2[i] = t[i]
    BY <1>9, <2>5
  <2>7. /\ \A i \in 1..Len(t) : t[i] # Blank =>
             \E q \in 1..Len(w.text) : w.text[q] = t[i] /\ q <= sent[w]
        /\ NoRepeat(t)
    BY <1>2, <2>2, OwnBlock
  <2> HIDE DEF t2, piece
  <2>8. transcript'[m] = [transcript[m] EXCEPT !.text = t2]
    <3>1. transcript' = [transcript EXCEPT ![m] = [transcript[m] EXCEPT !.text = t2]]
      BY <2>3 DEF t2
    <3>2. m \in DOMAIN transcript
      BY <1>9, <2>2
    <3> QED
      BY <3>1, <3>2
  <2>9. transcript'[m].text = t2 /\ transcript'[m].id = w.id /\ transcript'[m].kind = KindOf(w)
        /\ transcript'[m] \in Blocks
    <3> HIDE DEF t
    <3>1. transcript'[m] = [kind |-> KindOf(w), id |-> w.id, text |-> t2]
      BY <2>5, <2>8
    <3>2. t2 \in Seq(Nat) /\ w.id \in Ids /\ KindOf(w) \in Kinds
      BY <1>3, <2>6
    <3> QED
      BY <3>1, <3>2 DEF Blocks
  <2>10. /\ Len(transcript') = Len(transcript) /\ transcript' \in Seq(Blocks)
         /\ \A k \in 1..Len(transcript) \ {m} : transcript'[k] = transcript[k]
    <3>1. /\ DOMAIN transcript' = 1..Len(transcript)
          /\ \A k \in 1..Len(transcript) \ {m} : transcript'[k] = transcript[k]
      BY <1>9, <2>3
    <3>2. \A k \in 1..Len(transcript) : transcript'[k] \in Blocks
      BY <1>9, <2>9, <3>1
    <3>3. \E x : x = [k \in 1..Len(transcript) |-> transcript'[k]] /\ transcript' = x
      BY <2>3, <3>1, <1>9
    <3> QED
      BY <1>9, <3>1, <3>2, <3>3
  <2> HIDE DEF t
  <2>11. \A k \in 1..Len(transcript') \ {m} :
           k \in 1..Len(transcript) /\ transcript'[k] = transcript[k] /\ transcript[k].id # w.id
    <3>1. \A k \in 1..Len(transcript) : transcript[k].id = w.id => k = m
      BY <1>3, <2>2 DEF Human
    <3> QED
      BY <2>10, <3>1
  <2>12. \A i \in 1..Len(t2) : t2[i] # Blank => \E q \in 1..Len(w.text) : w.text[q] = t2[i] /\ q <= n
    <3>1. ASSUME NEW i \in 1..Len(t2), t2[i] # Blank
          PROVE  \E q \in 1..Len(w.text) : w.text[q] = t2[i] /\ q <= n
      <4>1. CASE i = Len(t) + 1
        BY <1>4, <2>6, <4>1
      <4>2. CASE i \in 1..Len(t)
        <5>1. PICK q \in 1..Len(w.text) : w.text[q] = t[i] /\ q <= sent[w]
          BY <2>6, <2>7, <3>1, <4>2
        <5>2. q <= n
          BY <1>3, <1>4, <5>1
        <5> QED
          BY <2>6, <4>2, <5>1, <5>2
      <4> QED
        BY <2>6, <4>1, <4>2
    <3> QED
      BY <3>1
  <2>13. ASSUME NEW i \in 1..Len(t), t[i] = w.text[n], t[i] # Blank PROVE FALSE
    <3>1. PICK q \in 1..Len(w.text) : w.text[q] = t[i] /\ q <= sent[w]
      BY <2>7, <2>13
    <3>2. q = n
      <4>1. session \in Sessions /\ turns \in 1..Len(session.turns) /\ w \in session.turns[turns]
        BY <1>2, PieceOf
      <4>2. NoRepeat(w.text)
        BY <4>1, PiecesDiffer
      <4> QED
        BY <1>4, <2>13, <3>1, <4>2 DEF NoRepeat
    <3> QED
      BY <1>3, <1>4, <3>1, <3>2
  <2>14. NoRepeat(t2)
    <3>1. ASSUME NEW i \in 1..Len(t2), NEW j \in 1..Len(t2), t2[i] = t2[j], t2[i] # Blank
          PROVE  i = j
      <4>1. CASE i \in 1..Len(t) /\ j \in 1..Len(t)
        BY <2>6, <2>7, <3>1, <4>1 DEF NoRepeat
      <4>2. CASE i = Len(t) + 1 /\ j \in 1..Len(t)
        BY <2>6, <2>13, <3>1, <4>2
      <4>3. CASE i \in 1..Len(t) /\ j = Len(t) + 1
        BY <2>6, <2>13, <3>1, <4>3
      <4> QED
        BY <2>6, <4>1, <4>2, <4>3
    <3> QED
      BY <3>1 DEF NoRepeat
  <2>15. ASSUME lagged = "no" PROVE t2 = SubSeq(w.text, 1, n)
    <3>1. Placed(w)
      BY <1>2, <2>15 DEF Human
    <3>2. PICK k \in 1..Len(transcript) : /\ transcript[k].id = w.id
                                          /\ transcript[k].text = SubSeq(w.text, 1, sent[w])
      BY <1>2, <1>3, <1>6, <2>2, <3>1, OwnBlock DEF Placed, NoBlock
    <3>3. k = m
      BY <1>3, <2>2, <3>2 DEF Human
    <3>4. t = SubSeq(w.text, 1, n - 1)
      BY <1>3, <1>4, <3>2, <3>3 DEF t
    <3>5. t \in Seq(Nat) /\ Len(t) = n - 1 /\ \A i \in 1..(n - 1) : t[i] = w.text[i]
      BY <1>3, <1>4, <2>5, <3>4
    <3> DEFINE u == SubSeq(w.text, 1, n)
    <3>6. u \in Seq(Nat) /\ Len(u) = n /\ \A i \in 1..n : u[i] = w.text[i]
      BY <1>3, <1>4
    <3> HIDE DEF u
    <3>7. \A i \in 1..n : t2[i] = u[i]
      <4>1. ASSUME NEW i \in 1..n PROVE t2[i] = u[i]
        <5>1. CASE i \in 1..(n - 1)
          BY <2>6, <3>5, <3>6, <5>1
        <5>2. CASE i = n
          <6>1. Len(t) + 1 = n /\ n \in 1..n
            BY <1>4, <3>5
          <6> QED
            BY <2>6, <3>6, <5>2, <6>1
        <5> QED
          BY <1>4, <5>1, <5>2
      <4> QED
        BY <4>1
    <3>8. Len(t2) = Len(u)
      BY <1>4, <2>6, <3>5, <3>6
    <3>9. t2 = u
      BY <2>6, <3>6, <3>7, <3>8, SeqEqual
    <3> QED
      BY <3>9 DEF u
  <2>16. m \in 1..Len(transcript') /\ \A k \in 1..Len(transcript) \ {m} : k \in 1..Len(transcript')
    BY <2>2, <2>10
  <2>17. \A i \in 1..Len(transcript'[m].text) : transcript'[m].text[i] # Blank =>
           \E q \in 1..Len(w.text) : w.text[q] = transcript'[m].text[i] /\ q <= n
    BY <2>9, <2>12
  <2>18. lagged = "no" => transcript'[m].text =
                             SubSeq(w.text, 1, IF n = Whole(w) THEN Len(w.text) ELSE n)
    BY <2>9, <2>15
  <2>19. NoRepeat(transcript'[m].text)
    BY <2>9, <2>14
  <2> QED
    BY <1>1, <1>2, <1>6, <1>11, <1>12, <2>2, <2>9, <2>10, <2>11, <2>16, <2>17, <2>18, <2>19,
       HumanChange
<1> QED
  BY <1>13, <1>14

\* While a turn runs, the renderer remembers only items that something was sent of.
Remembered ==
  mode = "human" /\ at \in Running =>
    \A v \in DOMAIN sent : KeyOf(v) \in streamed => sent[v] # 0

\* A snapshot makes its item's block, unless its deltas did or it has nothing to show.
LEMMA HumanSnapshot ==
  ASSUME DistinctItems, Course, Human, Remembered, mode = "human",
         NEW w \in DOMAIN sent, NEW n \in NextPieces(w), n = Whole(w), Deliver(w, n)
  PROVE  Human'
<1> DEFINE e == CompletedEvent(w)
           f == RenderThreadItem(ParseThreadItem(w))
<1>1. /\ at = "streaming" /\ sent' = [sent EXCEPT ![w] = n] /\ transcript' = Shown(e)
      /\ Consumed(e) /\ UNCHANGED <<session, turns, at, lagged>>
  BY DEF Deliver, Streaming, PieceEvent
<1>2. at \in Running
  BY <1>1 DEF Running
<1>3. /\ w.id # NoId /\ w.id \in Ids /\ KindOf(w) \in Kinds /\ w.text \in Seq(Nat)
      /\ {"type", "id", "text"} \subseteq DOMAIN w
      /\ Len(w.text) \in Nat /\ sent[w] \in Nat /\ sent[w] # Whole(w)
      /\ \A v \in DOMAIN sent \ {w} : v.id # w.id /\ KeyOf(v) # KeyOf(w)
  BY <1>2, PieceOf
<1>4. sent[w] \in {0, Len(w.text)} /\ n # 0 /\ sent'[w] = n
  <2>1. sent' = [sent EXCEPT ![w] = n] /\ w \in DOMAIN sent
    BY <1>1
  <2>2. sent'[w] = n
    BY <2>1
  <2> QED
    BY <1>3, <2>2 DEF NextPieces, Whole
<1>5. /\ f.kind = RenderKind[ParseThreadItem(w).type] /\ f.id = w.id
      /\ f.continuation = FALSE /\ f.text \in {<<>>, w.text}
      /\ f.text # w.text => ParseThreadItem(w).type = "reasoning"
      /\ Render(streamed, e) =
           Rendered(IF Empty(f) \/ KeyOf(w) \in streamed THEN <<>> ELSE <<f>>,
                    streamed \ {KeyOf(w)})
  BY <1>3, SnapshotRendered
<1>6. (f.kind = "UserMessage" <=> w.type = "userMessage") /\ TranscriptKind(f.kind) = KindOf(w)
  BY <1>3, <1>5, TypesAre DEF KindOf
<1> DEFINE quiet == Empty(f) \/ KeyOf(w) \in streamed \/ w.type = "userMessage"
<1>7. /\ streamed' = streamed \ {KeyOf(w)}
      /\ transcript' = IF quiet THEN transcript ELSE PushFragment(f)
  <2> HIDE DEF e, f
  <2>1. /\ Render(streamed, e).out = IF Empty(f) \/ KeyOf(w) \in streamed THEN <<>> ELSE <<f>>
        /\ Render(streamed, e).streamed = streamed \ {KeyOf(w)}
    BY <1>5 DEF Rendered
  <2>2. <<f>> # <<>> /\ Head(<<f>>) = f
    OBVIOUS
  <2> QED
    BY <1>1, <1>6, <2>1, <2>2 DEF Shown, Consumed
<1>8. \A v \in DOMAIN sent \ {w} : KeyOf(v) \in streamed => KeyOf(v) \in streamed'
  BY <1>3, <1>7
<1>9. lagged = "no" => Placed(w)
  BY <1>2 DEF Human
<1>10. CASE quiet
  <2>1. transcript' = transcript
    BY <1>7, <1>10
  <2>2. NoBlock(w)' <=> NoBlock(w)
    BY <2>1 DEF NoBlock
  <2>3. ASSUME lagged = "no" PROVE Placed(w)'
    <3>1. CASE w.type = "userMessage"
      BY <1>9, <2>2, <2>3, <3>1 DEF Placed
    <3>2. CASE w.type # "userMessage" /\ sent[w] = 0
      <4>1. KeyOf(w) \notin streamed
        BY <1>2, <3>2 DEF Remembered
      <4> QED
        BY <1>4, <1>9, <1>10, <2>2, <2>3, <3>2, <4>1 DEF Placed
    <3>3. CASE w.type # "userMessage" /\ sent[w] # 0
      <4>1. \E k \in 1..Len(transcript) :
              /\ transcript[k].id = w.id
              /\ transcript[k].text = SubSeq(w.text, 1, Len(w.text))
        BY <1>3, <1>4, <1>9, <2>3, <3>3 DEF Placed
      <4>2. \E k \in 1..Len(transcript') :
              /\ transcript'[k].id = w.id
              /\ transcript'[k].text =
                   SubSeq(w.text, 1, IF sent'[w] = Whole(w) THEN Len(w.text) ELSE sent'[w])
        BY <1>4, <2>1, <4>1
      <4> QED
        BY <1>4, <3>3, <4>2 DEF Placed
    <3> QED
      BY <3>1, <3>2, <3>3
  <2> QED
    BY <1>1, <1>2, <1>8, <2>1, <2>3, HumanSame
<1>11. CASE ~quiet
  <2>1. f.text = w.text
    <3>1. RenderKind["reasoning"] = "Reasoning"
      BY DEF RenderKind
    <3> HIDE DEF f
    <3>2. f.text # w.text => f.kind = "Reasoning" /\ f.text = <<>>
      BY <1>5, <3>1
    <3> QED
      BY <1>11, <3>2 DEF Empty
  <2> DEFINE b == Block(KindOf(w), w.id, w.text)
             m == Len(transcript) + 1
  <2>2. transcript' = Append(transcript, b)
    <3> HIDE DEF f
    <3> QED
      BY <1>5, <1>6, <1>7, <1>11, <2>1 DEF PushFragment
  <2>3. b \in Blocks /\ b.id = w.id /\ b.kind = KindOf(w) /\ b.text = w.text
    BY <1>3 DEF Block, Blocks
  <2>4. transcript \in Seq(Blocks) /\ Len(transcript) \in Nat
    BY DEF Human
  <2> HIDE DEF b
  <2>5. /\ transcript' \in Seq(Blocks) /\ Len(transcript') = m /\ transcript'[m] = b
        /\ \A k \in 1..Len(transcript) : transcript'[k] = transcript[k]
    BY <2>2, <2>3, <2>4
  <2>6. ASSUME NEW k \in 1..Len(transcript), transcript[k].id = w.id PROVE FALSE
    BY <1>2, <1>3, <1>11, <2>6, OwnBlock
  <2>7. m \in 1..Len(transcript') /\ m \notin 1..Len(transcript)
    BY <2>4, <2>5
  <2>8. \A k \in 1..Len(transcript') \ {m} :
          k \in 1..Len(transcript) /\ transcript'[k] = transcript[k] /\ transcript[k].id # w.id
    BY <2>4, <2>5, <2>6
  <2>9. \A k \in 1..Len(transcript) \ {m} : k \in 1..Len(transcript')
    BY <2>4, <2>5
  <2>10. NoRepeat(w.text)
    <3>1. session \in Sessions /\ turns \in 1..Len(session.turns) /\ w \in session.turns[turns]
      BY <1>2, PieceOf
    <3> QED
      BY <3>1, PiecesDiffer
  <2>11. \A i \in 1..Len(w.text) : \E q \in 1..Len(w.text) : w.text[q] = w.text[i] /\ q <= n
    BY <1>3 DEF Whole
  <2>12. SubSeq(w.text, 1, Len(w.text)) = w.text
    BY <1>3
  <2>13. transcript'[m].text = w.text /\ transcript'[m].id = w.id /\ transcript'[m].kind = KindOf(w)
    BY <2>3, <2>5
  <2> HIDE DEF m
  <2>14. /\ NoRepeat(transcript'[m].text)
         /\ \A i \in 1..Len(transcript'[m].text) : transcript'[m].text[i] # Blank =>
              \E q \in 1..Len(w.text) : w.text[q] = transcript'[m].text[i] /\ q <= n
         /\ lagged = "no" => transcript'[m].text =
                               SubSeq(w.text, 1, IF n = Whole(w) THEN Len(w.text) ELSE n)
    BY <2>10, <2>11, <2>12, <2>13
  <2>15. n # Whole(w) => KeyOf(w) \in streamed'
    OBVIOUS
  <2>16. w.type # "userMessage"
    BY <1>11
  <2>17. /\ UNCHANGED <<at, session, turns, lagged>> /\ sent' = [sent EXCEPT ![w] = n]
         /\ transcript' \in Seq(Blocks)
         /\ m \in 1..Len(transcript) => transcript[m].id = w.id
    BY <1>1, <2>5, <2>7
  <2> HIDE DEF e, f, quiet
  <2> QED
    BY <1>2, <1>8, <2>7, <2>8, <2>9, <2>13, <2>14, <2>15, <2>16, <2>17, HumanChange
<1> QED
  BY <1>10, <1>11

\* What the pump skips leaves the blocks alone.
LEMMA HumanSkip ==
  ASSUME DistinctItems, Course, Human, mode = "human",
         NEW w \in DOMAIN sent, NEW n \in NextPieces(w), Skip(w, n)
  PROVE  Human'
<1>1. /\ at = "streaming" /\ sent' = [sent EXCEPT ![w] = n] /\ lagged' # "no"
      /\ UNCHANGED <<at, session, turns, transcript, streamed>>
  BY DEF Skip, Streaming, appVars
<1>2. at \in Running
  BY <1>1 DEF Running
<1>3. sent[w] # Whole(w)
  BY <1>2, PieceOf
<1>4. ASSUME NEW k \in 1..Len(transcript), transcript[k].id = w.id PROVE KeyOf(w) \in streamed'
  BY <1>1, <1>2, <1>3, <1>4, OwnBlock
<1> QED
  BY <1>1, <1>2, <1>4, HumanSame DEF NoBlock

\* Steps that receive nothing: the blocks stay, or all are cleared while no turn runs, and
\* notes without text or item may be added.
LEMMA HumanStays ==
  ASSUME DistinctItems, Course, Human, mode = "human", UNCHANGED <<session, turns>>,
         transcript' \in Seq(Blocks),
         \A k \in 1..Len(transcript') :
           \/ k \in 1..Len(transcript) /\ transcript'[k] = transcript[k]
           \/ transcript'[k].id = NoId /\ transcript'[k].text = <<>>,
         at' \in Running =>
           /\ at \in Running /\ UNCHANGED <<sent, streamed, lagged>>
           /\ \A k \in 1..Len(transcript) : k \in 1..Len(transcript') /\ transcript'[k] = transcript[k]
  PROVE  Human'
<1>1. Blocks' = Blocks
  BY DEF Blocks, Ids
<1>2. ASSUME NEW k \in 1..Len(transcript') PROVE \A b : b = transcript'[k] => FitBlock(b)'
  <2> SUFFICES ASSUME NEW b, b = transcript'[k] PROVE FitBlock(b)'
    OBVIOUS
  <2>1. CASE k \in 1..Len(transcript) /\ b = transcript[k]
    <3>1. FitBlock(b)
      BY <2>1 DEF Human
    <3> QED
      BY <3>1, FitStays
  <2>2. CASE b.id = NoId /\ b.text = <<>>
    <3>1. NoRepeat(b.text)
      BY <2>2 DEF NoRepeat
    <3> QED
      BY <2>2, <3>1 DEF FitBlock
  <2> QED
    BY <2>1, <2>2
<1>3. ASSUME NEW k \in 1..Len(transcript'), NEW l \in 1..Len(transcript'),
             transcript'[k].id = transcript'[l].id, transcript'[k].id # NoId
      PROVE  k = l
  <2>1. /\ k \in 1..Len(transcript) /\ transcript'[k] = transcript[k]
        /\ l \in 1..Len(transcript) /\ transcript'[l] = transcript[l]
    BY <1>3
  <2> QED
    BY <1>3, <2>1 DEF Human
<1>4. ASSUME at' \in Running, lagged' = "no", NEW v \in DOMAIN sent' PROVE Placed(v)'
  <2>1. /\ v \in DOMAIN sent /\ sent' = sent /\ at \in Running /\ lagged = "no"
        /\ \A k \in 1..Len(transcript) : k \in 1..Len(transcript') /\ transcript'[k] = transcript[k]
    BY <1>4
  <2>2. v.id # NoId
    BY <2>1, ItemsDiffer DEF Course
  <2>3. Placed(v)
    BY <2>1 DEF Human
  <2>4. ASSUME NEW k \in 1..Len(transcript'), transcript'[k].id = v.id
        PROVE  k \in 1..Len(transcript) /\ transcript[k].id = v.id
    BY <2>2, <2>4
  <2> QED
    BY <2>1, <2>3, <2>4, PlacedStays
<1>5. \A b \in {transcript'[k] : k \in 1..Len(transcript')} : FitBlock(b)'
  BY <1>2
<1> QED
  BY <1>1, <1>3, <1>4, <1>5 DEF Human

\* A note adds to the blocks.
LEMMA NoteAdded ==
  ASSUME NEW tr \in Seq(Blocks), NEW kind \in {"User", "Error", "Status"}
  PROVE  LET more == Append(tr, Block(kind, NoId, <<>>))
         IN  /\ more \in Seq(Blocks) /\ Len(more) = Len(tr) + 1
             /\ \A k \in 1..Len(tr) : k \in 1..Len(more) /\ more[k] = tr[k]
             /\ more[Len(tr) + 1].id = NoId /\ more[Len(tr) + 1].text = <<>>
<1> DEFINE b == Block(kind, NoId, <<>>)
<1>1. b \in Blocks /\ b.id = NoId /\ b.text = <<>>
  BY DEF Block, Blocks, Ids, Kinds
<1> HIDE DEF b
<1>2. LET more == Append(tr, b)
      IN  /\ more \in Seq(Blocks) /\ Len(more) = Len(tr) + 1
          /\ \A k \in 1..Len(tr) : k \in 1..Len(more) /\ more[k] = tr[k]
          /\ more[Len(tr) + 1].id = NoId /\ more[Len(tr) + 1].text = <<>>
  BY <1>1
<1> QED
  BY <1>2 DEF b

\* A step that adds a note, or clears the transcript while no turn runs.
LEMMA HumanNotes ==
  ASSUME DistinctItems, Course, Human, UNCHANGED <<session, turns>>,
         at' \in Running => at \in Running /\ UNCHANGED <<sent, streamed, lagged>>,
         \/ transcript' = transcript
         \/ transcript' = <<>> /\ at' \notin Running
         \/ \E kind \in {"User", "Error", "Status"} : Push(kind, NoId, <<>>)
  PROVE  Human'
<1> SUFFICES ASSUME mode = "human" PROVE Human'
  BY DEF Human, mode
<1>1. transcript \in Seq(Blocks) /\ Len(transcript) \in Nat
  BY DEF Human
<1>2. CASE transcript' = transcript
  BY <1>1, <1>2, HumanStays
<1>3. CASE transcript' = <<>> /\ at' \notin Running
  <2>1. <<>> \in Seq(Blocks) /\ Len(<<>>) = 0
    OBVIOUS
  <2> QED
    BY <1>3, <2>1, HumanStays
<1>4. ASSUME NEW kind \in {"User", "Error", "Status"}, Push(kind, NoId, <<>>) PROVE Human'
  <2> DEFINE more == Append(transcript, Block(kind, NoId, <<>>))
  <2>1. transcript' = more
    BY <1>4 DEF Push
  <2>2. /\ more \in Seq(Blocks) /\ Len(more) = Len(transcript) + 1
        /\ \A k \in 1..Len(transcript) : k \in 1..Len(more) /\ more[k] = transcript[k]
        /\ more[Len(transcript) + 1].id = NoId /\ more[Len(transcript) + 1].text = <<>>
    BY <1>1, NoteAdded
  <2> HIDE DEF more
  <2>3. \A k \in 1..Len(more) : k \in 1..Len(transcript) \/ k = Len(transcript) + 1
    BY <1>1, <2>2
  <2> QED
    BY <2>1, <2>2, <2>3, HumanStays
<1> QED
  BY <1>2, <1>3, <1>4

\* The turn ends: an error is told twice, and nothing else is added.
LEMMA HumanEnd ==
  ASSUME DistinctItems, Course, Human, NEW kind \in EndKinds, TurnEnds(kind)
  PROVE  Human'
<1> DEFINE e == TurnEvent(kind)
<1>1. /\ at' = "idle" /\ UNCHANGED <<session, turns>>
      /\ transcript' = IF kind = "turnCompleted" THEN Shown(e)
                       ELSE Append(Shown(e), Block("Error", NoId, <<>>))
  BY DEF TurnEnds, Finish
<1> SUFFICES ASSUME mode = "human" PROVE Human'
  BY <1>1 DEF Human, mode
<1>2. e.kind = kind /\ kind # "itemUpdated" /\ kind # "itemCompleted"
  BY DEF TurnEvent, ItemEvent, EndKinds
<1>3. transcript \in Seq(Blocks) /\ Len(transcript) \in Nat /\ at' \notin Running
  BY <1>1 DEF Human, Running
<1> HIDE DEF e
<1>4. CASE kind = "turnCompleted"
  <2>1. Render(streamed, e).out = <<>>
    BY <1>2, <1>4 DEF Render, Rendered
  <2>2. transcript' = transcript
    BY <1>1, <1>4, <2>1 DEF Shown
  <2> QED
    BY <1>1, <1>3, <2>2, HumanStays
<1>5. CASE kind # "turnCompleted"
  <2>1. kind \in {"error", "turnFailed"}
    BY <1>5 DEF EndKinds
  <2>2. Render(streamed, e).out = <<ErrorFragment>>
    BY <1>2, <2>1 DEF Render, Rendered
  <2>3. <<ErrorFragment>> # <<>> /\ Head(<<ErrorFragment>>) = ErrorFragment
    OBVIOUS
  <2>4. Shown(e) = PushFragment(ErrorFragment)
    <3>1. ErrorFragment.kind # "UserMessage"
      BY DEF ErrorFragment
    <3> QED
      BY <2>2, <2>3, <3>1 DEF Shown
  <2>5. PushFragment(ErrorFragment) = Append(transcript, Block("Error", NoId, <<>>))
    BY DEF PushFragment, ErrorFragment, TranscriptKind
  <2> DEFINE once == Append(transcript, Block("Error", NoId, <<>>))
             twice == Append(once, Block("Error", NoId, <<>>))
  <2>6. transcript' = twice
    BY <1>1, <1>5, <2>4, <2>5
  <2>7. /\ once \in Seq(Blocks) /\ Len(once) = Len(transcript) + 1
        /\ \A k \in 1..Len(transcript) : k \in 1..Len(once) /\ once[k] = transcript[k]
        /\ once[Len(transcript) + 1].id = NoId /\ once[Len(transcript) + 1].text = <<>>
    BY <1>3, NoteAdded
  <2> HIDE DEF once
  <2>8. /\ twice \in Seq(Blocks) /\ Len(twice) = Len(once) + 1
        /\ \A k \in 1..Len(once) : k \in 1..Len(twice) /\ twice[k] = once[k]
        /\ twice[Len(once) + 1].id = NoId /\ twice[Len(once) + 1].text = <<>>
    BY <2>7, NoteAdded
  <2> HIDE DEF twice
  <2>9. \A k \in 1..Len(twice) :
          \/ k \in 1..Len(transcript) /\ twice[k] = transcript[k]
          \/ twice[k].id = NoId /\ twice[k].text = <<>>
    <3>1. \A k \in 1..Len(twice) :
            k \in 1..Len(transcript) \/ k = Len(transcript) + 1 \/ k = Len(once) + 1
      BY <1>3, <2>7, <2>8
    <3>2. Len(transcript) + 1 \in 1..Len(once)
      BY <1>3, <2>7
    <3> QED
      BY <2>7, <2>8, <3>1, <3>2
  <2> QED
    BY <1>1, <1>3, <2>6, <2>8, <2>9, HumanStays
<1> QED
  BY <1>4, <1>5

\* run_prompt begins: no block is one of the new turn's items.
LEMMA HumanStart ==
  ASSUME DistinctItems, Course, Human, StartTurn
  PROVE  Human'
<1>1. /\ at = "pending" /\ turns' = turns + 1 /\ session' = session /\ Push("User", NoId, <<>>)
      /\ sent' = [w \in session.turns[turns + 1] |-> 0]
  BY DEF StartTurn
<1> SUFFICES ASSUME mode = "human" PROVE Human'
  BY <1>1 DEF Human, mode
<1>2. session \in Sessions /\ turns \in Nat /\ turns + 1 \in 1..Len(session.turns)
  BY <1>1, SessionIs DEF Course
<1>3. transcript \in Seq(Blocks) /\ Len(transcript) \in Nat
  BY DEF Human
<1> DEFINE more == Append(transcript, Block("User", NoId, <<>>))
<1>4. transcript' = more
  BY <1>1 DEF Push
<1>5. /\ more \in Seq(Blocks) /\ Len(more) = Len(transcript) + 1
      /\ \A k \in 1..Len(transcript) : k \in 1..Len(more) /\ more[k] = transcript[k]
      /\ more[Len(transcript) + 1].id = NoId /\ more[Len(transcript) + 1].text = <<>>
  BY <1>3, NoteAdded
<1> HIDE DEF more
<1>6. \A k \in 1..Len(more) : k \in 1..Len(transcript) \/ k = Len(transcript) + 1
  BY <1>3, <1>5
<1>7. Blocks' = Blocks
  BY <1>1 DEF Blocks, Ids
<1>8. ASSUME NEW k \in 1..Len(more) PROVE \A b : b = more[k] => FitBlock(b)'
  <2> SUFFICES ASSUME NEW b, b = more[k] PROVE FitBlock(b)'
    OBVIOUS
  <2>1. CASE k \in 1..Len(transcript)
    <3>1. FitBlock(b) /\ b = transcript[k]
      BY <1>5, <2>1 DEF Human
    <3>2. ASSUME NEW j \in 1..turns, NEW v \in session.turns[j], BlockFor(b, j, v)
          PROVE  j \in 1..turns' /\ v \in session'.turns[j] /\ BlockFor(b, j, v)'
      <4>1. ~Now(j)' /\ j \in 1..turns'
        BY <1>1, <1>2 DEF Now
      <4>2. /\ b.id = v.id /\ b.kind = KindOf(v) /\ v.type # "userMessage"
            /\ \A i \in 1..Len(b.text) : b.text[i] # Blank =>
                 \E q \in 1..Len(v.text) : v.text[q] = b.text[i]
        BY <3>2 DEF BlockFor
      <4> QED
        BY <1>1, <4>1, <4>2 DEF BlockFor
    <3> QED
      BY <3>1, <3>2 DEF FitBlock
  <2>2. CASE k = Len(transcript) + 1
    <3>1. b.id = NoId /\ b.text = <<>>
      BY <1>5, <2>2
    <3>2. NoRepeat(b.text)
      BY <3>1 DEF NoRepeat
    <3> QED
      BY <3>1, <3>2 DEF FitBlock
  <2> QED
    BY <1>6, <2>1, <2>2
<1>9. ASSUME NEW w \in session.turns[turns + 1] PROVE Placed(w)'
  <2>1. w.id # NoId
    BY <1>2, ItemsDiffer
  <2>2. ASSUME NEW k \in 1..Len(more), more[k].id = w.id PROVE FALSE
    <3>1. k \in 1..Len(transcript) /\ more[k] = transcript[k]
      BY <1>5, <1>6, <2>1, <2>2
    <3> PICK b : b = transcript[k]
      OBVIOUS
    <3>2. FitBlock(b) /\ b.id = w.id
      BY <2>2, <3>1 DEF Human
    <3>3. PICK j \in 1..turns : \E v \in session.turns[j] : v.id = w.id
      BY <2>1, <3>2 DEF FitBlock, BlockFor
    <3>4. j \in 1..Len(session.turns) /\ j # turns + 1
      BY <1>2, SessionIs
    <3> QED
      BY <1>2, <3>3, <3>4, ItemsDiffer
  <2> QED
    BY <1>1, <1>4, <2>2 DEF Placed, NoBlock
<1>10. \A k, l \in 1..Len(more) : more[k].id = more[l].id /\ more[k].id # NoId => k = l
  BY <1>5, <1>6 DEF Human
<1>11. \A b \in {transcript'[k] : k \in 1..Len(transcript')} : FitBlock(b)'
  BY <1>4, <1>8
<1>12. \A w \in DOMAIN sent' : Placed(w)'
  BY <1>1, <1>9
<1> QED
  BY <1>4, <1>5, <1>7, <1>10, <1>11, <1>12 DEF Human

\* Every step remembers only what was sent.
LEMMA RememberedStep ==
  ASSUME DistinctItems, Course, Remembered, [Next]_vars
  PROVE  Remembered'
<1>1. CASE StartTurn
  BY <1>1 DEF StartTurn, Remembered
<1>2. ASSUME NEW w \in DOMAIN sent, NEW n \in NextPieces(w), Deliver(w, n) \/ Skip(w, n)
      PROVE  Remembered'
  <2>1. at \in Running /\ sent' = [sent EXCEPT ![w] = n] /\ UNCHANGED <<at, session>>
    BY <1>2 DEF Deliver, Skip, Streaming, appVars, Running
  <2>2. /\ w.id # NoId /\ w.text \in Seq(Nat) /\ {"type", "id", "text"} \subseteq DOMAIN w
        /\ sent[w] \in Nat /\ n \in 1..Whole(w) /\ n > sent[w] /\ Len(w.text) \in Nat
        /\ \A v \in DOMAIN sent \ {w} : KeyOf(v) # KeyOf(w)
    BY <2>1, PieceOf
  <2>3. ASSUME mode = "human" PROVE streamed' \subseteq streamed \cup {KeyOf(w)}
    <3>1. CASE Skip(w, n)
      BY <3>1 DEF Skip
    <3>2. CASE Deliver(w, n) /\ n = Whole(w)
      <4> DEFINE e == CompletedEvent(w)
      <4>1. Consumed(e)
        BY <3>2 DEF Deliver, PieceEvent
      <4>2. PICK out : Render(streamed, e) = Rendered(out, streamed \ {KeyOf(w)})
        BY <2>2, SnapshotRendered
      <4> HIDE DEF e
      <4> QED
        BY <2>3, <4>1, <4>2 DEF Consumed, Rendered
    <3>3. CASE Deliver(w, n) /\ n # Whole(w)
      <4> DEFINE e == PieceEvent(w, n)
      <4>1. Consumed(e) /\ w.type \in DeltaTypes
        BY <3>3 DEF Deliver, NextPieces
      <4>2. PICK out : Render(streamed, e) = Rendered(out, streamed \cup {KeyOf(w)})
        BY <2>2, <3>3, <4>1, DeltaRendered
      <4> HIDE DEF e
      <4> QED
        BY <2>3, <4>1, <4>2 DEF Consumed, Rendered
    <3> QED
      BY <1>2, <3>1, <3>2, <3>3
  <2>4. ASSUME mode = "human", NEW v \in DOMAIN sent, KeyOf(v) \in streamed'
        PROVE  sent'[v] # 0
    <3>1. CASE v = w
      BY <2>1, <2>2, <3>1
    <3>2. CASE v # w
      BY <2>1, <2>2, <2>3, <2>4, <3>2 DEF Remembered
    <3> QED
      BY <3>1, <3>2
  <2>5. DOMAIN sent' = DOMAIN sent /\ session' = session
    BY <2>1
  <2> QED
    BY <2>4, <2>5 DEF Remembered, mode
<1>3. CASE Submit
  BY <1>3, SubmitDoes DEF Remembered, Running
<1>4. ASSUME NEW kind, TurnEnds(kind) PROVE Remembered'
  BY <1>4 DEF TurnEnds, Finish, Remembered, Running
<1>5. CASE \/ EditLine \/ QuitKey \/ ClearTranscript \/ Compacted \/ StreamFails \/ TurnRefused
           \/ StreamCloses \/ TurnAccepted \/ Interrupt \/ InterruptAccepted
           \/ InterruptRefused \/ UNCHANGED vars
  <2>1. /\ UNCHANGED <<session, streamed, sent>>
        /\ at' \in Running => at \in Running
    BY <1>5 DEF EditLine, QuitKey, ClearTranscript, Compacted, StreamFails, TurnRefused, Finish,
       StreamCloses, TurnAccepted, Interrupt, InterruptAccepted, InterruptRefused, vars,
       appVars, turnVars, Running
  <2> QED
    BY <2>1 DEF Remembered, mode
<1> QED
  BY <1>1, <1>2, <1>3, <1>4, <1>5 DEF Next

\* Every step keeps each item's text in its own block.
LEMMA HumanStep ==
  ASSUME DistinctItems, Course, Human, Remembered, [Next]_vars
  PROVE  Human'
<1>1. CASE StartTurn
  BY <1>1, HumanStart
<1>2. ASSUME NEW w \in DOMAIN sent, NEW n \in NextPieces(w), Deliver(w, n) \/ Skip(w, n)
      PROVE  Human'
  <2>1. CASE mode = "human"
    BY <1>2, <2>1, HumanDelta, HumanSnapshot, HumanSkip
  <2>2. CASE mode # "human"
    <3>1. session' = session
      BY <1>2 DEF Deliver, Skip, appVars
    <3> QED
      BY <2>2, <3>1 DEF Human, mode
  <2> QED
    BY <2>1, <2>2
<1>3. CASE Submit
  <2>1. at' \notin Running /\ UNCHANGED <<session, turns>>
    BY <1>3, SubmitDoes DEF Running, turnVars
  <2>2. \/ transcript' = transcript
        \/ transcript' = <<>> /\ at' \notin Running
        \/ \E kind \in {"User", "Error", "Status"} : Push(kind, NoId, <<>>)
    BY <1>3, <2>1, SubmitDoes
  <2> QED
    BY <2>1, <2>2, HumanNotes
<1>4. ASSUME NEW kind \in EndKinds, TurnEnds(kind) PROVE Human'
  BY <1>4, HumanEnd
<1>5. CASE \/ EditLine \/ QuitKey \/ ClearTranscript \/ Compacted \/ StreamFails \/ TurnRefused
           \/ StreamCloses \/ TurnAccepted \/ Interrupt \/ InterruptAccepted
           \/ InterruptRefused \/ UNCHANGED vars
  <2>1. /\ UNCHANGED <<session, turns>>
        /\ at' \in Running => at \in Running /\ UNCHANGED <<sent, streamed, lagged>>
        /\ \/ transcript' = transcript
           \/ transcript' = <<>> /\ at' \notin Running
           \/ \E kind \in {"User", "Error", "Status"} : Push(kind, NoId, <<>>)
    BY <1>5 DEF EditLine, QuitKey, ClearTranscript, Compacted, StreamFails, TurnRefused, Finish,
       StreamCloses, TurnAccepted, Interrupt, InterruptAccepted, InterruptRefused, vars,
       appVars, turnVars, Running
  <2> QED
    BY <2>1, HumanNotes
<1> QED
  BY <1>1, <1>2, <1>3, <1>4, <1>5 DEF Next

\* Human output is in order in every reachable state.
LEMMA HumanInvariant ==
  ASSUME DistinctItems
  PROVE  Spec => [](Human /\ Remembered)
<1>1. Init => Human /\ Remembered
  <2> SUFFICES ASSUME Init PROVE Human /\ Remembered
    OBVIOUS
  <2>1. transcript = <<>> /\ at \notin Running
    BY DEF Init, Running
  <2>2. transcript \in Seq(Blocks) /\ Len(transcript) = 0
    BY <2>1
  <2> QED
    BY <2>1, <2>2 DEF Human, Remembered
<1>2. Course /\ Human /\ Remembered /\ [Next]_vars => Human' /\ Remembered'
  BY HumanStep, RememberedStep
<1> QED
  BY <1>1, <1>2, CourseInvariant, PTL DEF Spec

\* What is in its place is shown in order and once.
LEMMA HumanIsStreamedOnce ==
  ASSUME DistinctItems, Course, Human
  PROVE  StreamedOnce
<1> SUFFICES ASSUME mode = "human", at \in {"streaming", "interrupting"}, lagged = "no",
                    NEW w \in DOMAIN sent
             PROVE  InItsPlace(w)
  BY DEF StreamedOnce
<1>1. at \in Running /\ Placed(w)
  BY DEF Running, Human
<1>2. /\ session \in Sessions /\ turns \in 1..Len(session.turns) /\ w \in session.turns[turns]
  BY <1>1 DEF Course
<1>3. w.id # NoId /\ ParseThreadItem(w).text = w.text
  BY <1>2, ItemIs, ItemsDiffer, ParsedIs
<1>4. BlocksOf(w) = {} <=> NoBlock(w)
  BY DEF BlocksOf, NoBlock
<1>5. ASSUME NEW k \in BlocksOf(w) PROVE BlocksOf(w) = {k}
  BY <1>3 DEF BlocksOf, Human
<1> DEFINE n == IF sent[w] = Whole(w) THEN Len(w.text) ELSE sent[w]
<1>6. CASE sent[w] = 0 \/ w.type = "userMessage"
  BY <1>1, <1>4, <1>6 DEF Placed, InItsPlace
<1>7. CASE ~(sent[w] = 0 \/ w.type = "userMessage")
  <2>1. CASE Empty(RenderThreadItem(ParseThreadItem(w))) /\ sent[w] = Whole(w) /\ NoBlock(w)
    BY <1>4, <1>7, <2>1 DEF InItsPlace
  <2>2. ASSUME NEW k \in 1..Len(transcript), transcript[k].id = w.id,
               transcript[k].text = SubSeq(w.text, 1, n)
        PROVE  InItsPlace(w)
    <3>1. k \in BlocksOf(w)
      BY <2>2 DEF BlocksOf
    <3>2. BlocksOf(w) = {k} /\ transcript[k].text = SubSeq(ParseThreadItem(w).text, 1, n)
      BY <1>3, <1>5, <2>2, <3>1
    <3> QED
      BY <1>7, <3>1, <3>2 DEF InItsPlace
  <2> QED
    BY <1>1, <1>7, <2>1, <2>2 DEF Placed
<1> QED
  BY <1>6, <1>7

\* No text of a transcript's blocks is in it twice.
Once(tr) ==
  \A k, l \in 1..Len(tr) : \A i \in 1..Len(tr[k].text), j \in 1..Len(tr[l].text) :
    tr[k].text[i] = tr[l].text[j] /\ tr[k].text[i] # Blank => k = l /\ i = j

\* The property says the same of pairs of places.
LEMMA OnceIs == Once(transcript) <=> NoTextTwice
<1>1. \A k, i, l, j : <<k, i>> # <<l, j>> <=> ~(k = l /\ i = j)
  OBVIOUS
<1> QED
  BY <1>1 DEF Once, NoTextTwice

\* Items differ, and so does what their blocks say.
LEMMA HumanIsOnce ==
  ASSUME DistinctItems, Course, Human, mode = "human"
  PROVE  NoTextTwice
<1>1. session \in Sessions /\ turns \in 0..Len(session.turns) /\ Len(session.turns) \in Nat
  BY SessionIs DEF Course
<1>2. ASSUME NEW k \in 1..Len(transcript), NEW i \in 1..Len(transcript[k].text),
             transcript[k].text[i] # Blank
      PROVE  \E j \in 1..Len(session.turns) : \E v \in session.turns[j] :
               /\ transcript[k].id = v.id
               /\ \E q \in 1..Len(v.text) : v.text[q] = transcript[k].text[i]
  <2> PICK b : b = transcript[k]
    OBVIOUS
  <2>1. FitBlock(b)
    BY DEF Human
  <2>2. b.id # NoId
    BY <1>2, <2>1 DEF FitBlock
  <2>3. PICK j \in 1..turns : \E v \in session.turns[j] : BlockFor(b, j, v)
    BY <2>1, <2>2 DEF FitBlock
  <2>4. PICK v \in session.turns[j] : BlockFor(b, j, v)
    BY <2>3
  <2>5. b.id = v.id /\ \E q \in 1..Len(v.text) : v.text[q] = b.text[i]
    BY <1>2, <2>4 DEF BlockFor
  <2>6. j \in 1..Len(session.turns)
    BY <1>1
  <2> QED
    BY <2>4, <2>5, <2>6
<1>3. ASSUME NEW k \in 1..Len(transcript), NEW l \in 1..Len(transcript),
             NEW i \in 1..Len(transcript[k].text), NEW j \in 1..Len(transcript[l].text),
             transcript[k].text[i] = transcript[l].text[j], transcript[k].text[i] # Blank
      PROVE  k = l /\ i = j
  <2>1. PICK g \in 1..Len(session.turns) : \E v \in session.turns[g] :
               /\ transcript[k].id = v.id
               /\ \E q \in 1..Len(v.text) : v.text[q] = transcript[k].text[i]
    BY <1>2, <1>3
  <2>2. PICK v \in session.turns[g] : /\ transcript[k].id = v.id
                                      /\ \E q \in 1..Len(v.text) : v.text[q] = transcript[k].text[i]
    BY <2>1
  <2>3. PICK h \in 1..Len(session.turns) : \E w \in session.turns[h] :
               /\ transcript[l].id = w.id
               /\ \E q \in 1..Len(w.text) : w.text[q] = transcript[l].text[j]
    BY <1>2, <1>3
  <2>4. PICK w \in session.turns[h] : /\ transcript[l].id = w.id
                                      /\ \E q \in 1..Len(w.text) : w.text[q] = transcript[l].text[j]
    BY <2>3
  <2>5. v = w /\ v.id # NoId
    <3>1. PICK q \in 1..Len(v.text), r \in 1..Len(w.text) : v.text[q] = w.text[r] /\ v.text[q] # Blank
      BY <1>3, <2>2, <2>4
    <3> QED
      BY <1>1, <3>1, ItemsDiffer
  <2>6. k = l
    BY <2>2, <2>4, <2>5 DEF Human
  <2> PICK b : b = transcript[k]
    OBVIOUS
  <2>7. NoRepeat(b.text)
    BY DEF Human, FitBlock
  <2> QED
    BY <1>3, <2>6, <2>7 DEF NoRepeat
<1>4. Once(transcript)
  BY <1>3 DEF Once
<1> QED
  BY <1>4, OnceIs

-----------------------------------------------------------------------------
(* The other outputs: each text is a message's, and it is shown once       *)

\* The blocks carry no item's id.
Spoken == [kind : {"User", "Agent", "Error", "Status", "Raw"}, id : {NoId}, text : Seq(Nat)]

\* A block is a note without text, or a message: of the running turn, a final answer that
\* was received.
Voiced(b) ==
  \/ b.text = <<>>
  \/ \E j \in 1..turns : \E v \in session.turns[j] :
       b.text = v.text /\ (Now(j) => v \in Done(TRUE))

Tidy(tr) == /\ tr \in Seq(Spoken) /\ Once(tr)
            /\ \A b \in {tr[k] : k \in 1..Len(tr)} : Voiced(b)

Plain == mode # "human" => Tidy(transcript)

\* A block that says something new keeps a transcript's texts apart.
LEMMA OnceMore ==
  ASSUME NEW tr \in Seq(Spoken), Once(tr), NEW b \in Spoken, NoRepeat(b.text),
         \A k \in 1..Len(tr) : \A i \in 1..Len(tr[k].text), j \in 1..Len(b.text) :
           tr[k].text[i] = b.text[j] => b.text[j] = Blank
  PROVE  Append(tr, b) \in Seq(Spoken) /\ Once(Append(tr, b))
<1> DEFINE more == Append(tr, b)
<1>1. /\ more \in Seq(Spoken) /\ Len(tr) \in Nat /\ Len(more) = Len(tr) + 1
      /\ more[Len(tr) + 1] = b /\ \A k \in 1..Len(tr) : more[k] = tr[k]
  OBVIOUS
<1> HIDE DEF more
<1>2. ASSUME NEW k \in 1..Len(more), NEW l \in 1..Len(more),
             NEW i \in 1..Len(more[k].text), NEW j \in 1..Len(more[l].text),
             more[k].text[i] = more[l].text[j], more[k].text[i] # Blank
      PROVE  k = l /\ i = j
  <2>1. CASE k \in 1..Len(tr) /\ l \in 1..Len(tr)
    <3>1. more[k] = tr[k] /\ more[l] = tr[l]
      BY <1>1, <2>1
    <3>2. /\ i \in 1..Len(tr[k].text) /\ j \in 1..Len(tr[l].text)
          /\ tr[k].text[i] = tr[l].text[j] /\ tr[k].text[i] # Blank
      BY <1>2, <3>1
    <3> QED
      BY <2>1, <3>2 DEF Once
  <2>2. CASE k \in 1..Len(tr) /\ l = Len(tr) + 1
    BY <1>1, <1>2, <2>2
  <2>3. CASE k = Len(tr) + 1 /\ l \in 1..Len(tr)
    BY <1>1, <1>2, <2>3
  <2>4. CASE k = Len(tr) + 1 /\ l = Len(tr) + 1
    BY <1>1, <1>2, <2>4 DEF NoRepeat
  <2> QED
    BY <1>1, <2>1, <2>2, <2>3, <2>4
<1>3. Once(more)
  BY <1>2 DEF Once
<1> QED
  BY <1>1, <1>3 DEF more

\* The blocks of a transcript with one more.
LEMMA BlocksMore ==
  ASSUME NEW tr \in Seq(Spoken), NEW b
  PROVE  {Append(tr, b)[k] : k \in 1..Len(Append(tr, b))} = {tr[k] : k \in 1..Len(tr)} \cup {b}
<1> DEFINE more == Append(tr, b)
<1>1. /\ Len(tr) \in Nat /\ Len(more) = Len(tr) + 1
      /\ more[Len(tr) + 1] = b /\ \A k \in 1..Len(tr) : more[k] = tr[k]
  OBVIOUS
<1> HIDE DEF more
<1>2. \A k : k \in 1..Len(more) <=> k \in 1..Len(tr) \/ k = Len(tr) + 1
  BY <1>1
<1>3. {more[k] : k \in 1..Len(more)} = {tr[k] : k \in 1..Len(tr)} \cup {b}
  BY <1>1, <1>2
<1> QED
  BY <1>3 DEF more

\* A note leaves a transcript tidy.
LEMMA TidyNote ==
  ASSUME NEW tr, Tidy(tr), NEW kind \in {"User", "Error", "Status", "Raw"}
  PROVE  Tidy(Append(tr, Block(kind, NoId, <<>>)))
<1> DEFINE b == Block(kind, NoId, <<>>)
<1>1. b \in Spoken /\ b.text = <<>>
  BY DEF Block, Spoken
<1>2. tr \in Seq(Spoken) /\ Once(tr) /\ \A c \in {tr[k] : k \in 1..Len(tr)} : Voiced(c)
  BY DEF Tidy
<1> HIDE DEF b
<1>3. NoRepeat(b.text) /\ Voiced(b) /\ Len(b.text) = 0
  BY <1>1 DEF NoRepeat, Voiced
<1>4. Append(tr, b) \in Seq(Spoken) /\ Once(Append(tr, b))
  BY <1>1, <1>2, <1>3, OnceMore
<1>5. \A c \in {Append(tr, b)[k] : k \in 1..Len(Append(tr, b))} : Voiced(c)
  BY <1>2, <1>3, BlocksMore
<1>6. Tidy(Append(tr, b))
  BY <1>4, <1>5 DEF Tidy
<1> QED
  BY <1>6 DEF b

\* A message that was not shown says something new.
LEMMA MessageIsNew ==
  ASSUME DistinctItems, Course, at \in Running, NEW w \in DOMAIN sent, w \notin Done(TRUE),
         NEW tr, Tidy(tr)
  PROVE  LET b == Block("Agent", NoId, w.text)
         IN  Append(tr, b) \in Seq(Spoken) /\ Once(Append(tr, b)) /\ b.text = w.text
<1> DEFINE b == Block("Agent", NoId, w.text)
<1>1. /\ session \in Sessions /\ turns \in 1..Len(session.turns) /\ w \in session.turns[turns]
      /\ Len(session.turns) \in Nat
  BY SessionIs DEF Course
<1>2. w.text \in Seq(Nat)
  BY <1>1, ItemIs
<1>3. b \in Spoken /\ b.text = w.text
  BY <1>2 DEF Block, Spoken
<1>4. NoRepeat(w.text)
  BY <1>1, PiecesDiffer
<1> HIDE DEF b
<1>5. ASSUME NEW k \in 1..Len(tr), NEW i \in 1..Len(tr[k].text), NEW j \in 1..Len(w.text),
             tr[k].text[i] = w.text[j], w.text[j] # Blank
      PROVE  FALSE
  <2> PICK c : c = tr[k]
    OBVIOUS
  <2>1. Voiced(c)
    BY DEF Tidy
  <2>2. c.text # <<>>
    <3>1. Len(<<>>) = 0
      OBVIOUS
    <3> QED
      BY <3>1
  <2>3. PICK g \in 1..turns : \E v \in session.turns[g] : c.text = v.text /\ (Now(g) => v \in Done(TRUE))
    BY <2>1, <2>2 DEF Voiced
  <2>4. PICK v \in session.turns[g] : c.text = v.text /\ (Now(g) => v \in Done(TRUE))
    BY <2>3
  <2>5. g \in 1..Len(session.turns) /\ v.text[i] = w.text[j] /\ i \in 1..Len(v.text)
    BY <1>1, <1>5, <2>4
  <2>6. g = turns /\ v = w
    BY <1>1, <1>5, <2>4, <2>5, ItemsDiffer
  <2> QED
    BY <2>4, <2>6 DEF Now
<1>6. tr \in Seq(Spoken) /\ Once(tr)
  BY DEF Tidy
<1>7. Append(tr, b) \in Seq(Spoken) /\ Once(Append(tr, b))
  BY <1>3, <1>4, <1>5, <1>6, OnceMore
<1> QED
  BY <1>3, <1>7 DEF b

\* A block's message stays one that was received.
LEMMA VoicedStays ==
  ASSUME NEW b, Voiced(b), UNCHANGED <<session, turns>>,
         at' \in Running => at \in Running /\ Done(TRUE) \subseteq Done(TRUE)'
  PROVE  Voiced(b)'
<1>1. ASSUME NEW j \in 1..turns, NEW v \in session.turns[j], b.text = v.text,
             Now(j) => v \in Done(TRUE)
      PROVE  j \in 1..turns' /\ v \in session'.turns[j] /\ (Now(j)' => v \in Done(TRUE)')
  BY <1>1 DEF Now
<1> QED
  BY <1>1 DEF Voiced

\* A transcript to which nothing was added stays tidy.
LEMMA TidyStays ==
  ASSUME NEW tr, Tidy(tr), UNCHANGED <<session, turns>>,
         at' \in Running => at \in Running /\ Done(TRUE) \subseteq Done(TRUE)'
  PROVE  Tidy(tr)'
<1>1. ASSUME NEW b \in {tr[k] : k \in 1..Len(tr)} PROVE Voiced(b)'
  BY <1>1, VoicedStays DEF Tidy
<1> QED
  BY <1>1 DEF Tidy

\* Steps that at most add a note, or clear the transcript.
LEMMA PlainNotes ==
  ASSUME Plain, UNCHANGED <<session, turns>>,
         at' \in Running => at \in Running /\ Done(TRUE) \subseteq Done(TRUE)',
         \/ transcript' = transcript
         \/ transcript' = <<>>
         \/ \E kind \in {"User", "Error", "Status", "Raw"} : Push(kind, NoId, <<>>)
  PROVE  Plain'
<1> SUFFICES ASSUME mode # "human" PROVE Tidy(transcript)'
  BY DEF Plain, mode
<1>1. Tidy(transcript)
  BY DEF Plain
<1>2. PICK tr : tr = transcript' /\ Tidy(tr)
  <2>1. CASE transcript' = transcript
    BY <1>1, <2>1
  <2>2. CASE transcript' = <<>>
    <3> PICK tr : tr = <<>>
      OBVIOUS
    <3>1. tr \in Seq(Spoken) /\ Len(tr) = 0
      OBVIOUS
    <3>2. Tidy(tr)
      BY <3>1 DEF Tidy, Once
    <3> QED
      BY <2>2, <3>2
  <2>3. ASSUME NEW kind \in {"User", "Error", "Status", "Raw"}, Push(kind, NoId, <<>>)
        PROVE  \E tr : tr = transcript' /\ Tidy(tr)
    <3> DEFINE more == Append(transcript, Block(kind, NoId, <<>>))
    <3>1. Tidy(more)
      BY <1>1, TidyNote
    <3>2. transcript' = more
      BY <2>3 DEF Push
    <3> HIDE DEF more
    <3> QED
      BY <3>1, <3>2
  <2> QED
    BY <2>1, <2>2, <2>3
<1>3. Tidy(tr)'
  BY <1>2, TidyStays
<1> QED
  BY <1>2, <1>3

\* run_prompt begins: what is shown are messages of earlier turns.
LEMMA PlainStart ==
  ASSUME Course, Plain, StartTurn
  PROVE  Plain'
<1>1. /\ at = "pending" /\ turns' = turns + 1 /\ session' = session /\ Push("User", NoId, <<>>)
      /\ turns \in Nat
  BY SessionIs DEF StartTurn, Course
<1> SUFFICES ASSUME mode # "human" PROVE Tidy(transcript)'
  BY <1>1 DEF Plain, mode
<1> DEFINE more == Append(transcript, Block("User", NoId, <<>>))
<1>2. Tidy(more) /\ transcript' = more
  BY <1>1, TidyNote DEF Plain, Push
<1> HIDE DEF more
<1> PICK tr : tr = more
  OBVIOUS
<1>3. ASSUME NEW b \in {tr[k] : k \in 1..Len(tr)} PROVE Voiced(b)'
  <2>1. Voiced(b)
    BY <1>2, <1>3 DEF Tidy
  <2>2. ASSUME NEW j \in 1..turns, NEW v \in session.turns[j], b.text = v.text
        PROVE  j \in 1..turns' /\ v \in session'.turns[j] /\ ~Now(j)'
    BY <1>1 DEF Now
  <2> QED
    BY <2>1, <2>2 DEF Voiced
<1>4. Tidy(tr)'
  BY <1>2, <1>3 DEF Tidy
<1> QED
  BY <1>2, <1>4

\* A message that was not shown is added: the transcript stays tidy.
LEMMA PlainMessage ==
  ASSUME DistinctItems, Course, Plain, mode # "human", at \in Running,
         UNCHANGED <<session, turns>>,
         at' \in Running => Done(TRUE) \subseteq Done(TRUE)',
         NEW w \in DOMAIN sent, w \notin Done(TRUE), at' \in Running => w \in Done(TRUE)',
         transcript' = Append(transcript, Block("Agent", NoId, w.text))
  PROVE  Plain'
<1> DEFINE b == Block("Agent", NoId, w.text)
           more == Append(transcript, b)
<1>1. Tidy(transcript)
  BY DEF Plain
<1>2. more \in Seq(Spoken) /\ Once(more) /\ b.text = w.text
  BY <1>1, MessageIsNew
<1>3. /\ turns \in 1..Len(session.turns) /\ w \in session.turns[turns] /\ session \in Sessions
  BY DEF Course
<1>4. turns \in 1..turns
  BY <1>3, SessionIs
<1> HIDE DEF b
<1>5. Voiced(b)'
  <2>1. b.text = w.text /\ (Now(turns)' => w \in Done(TRUE)')
    BY <1>2 DEF Now
  <2>2. \E j \in 1..turns' : \E v \in session'.turns[j] : b.text = v.text /\ (Now(j)' => v \in Done(TRUE)')
    BY <1>3, <1>4, <2>1 DEF Now
  <2> QED
    BY <2>2 DEF Voiced
<1>6. ASSUME NEW c \in {transcript[k] : k \in 1..Len(transcript)} PROVE Voiced(c)'
  <2>1. Voiced(c)
    BY <1>1, <1>6 DEF Tidy
  <2> QED
    BY <2>1, VoicedStays
<1>7. transcript \in Seq(Spoken)
  BY <1>1 DEF Tidy
<1>8. \A c \in {more[k] : k \in 1..Len(more)} : Voiced(c)'
  BY <1>5, <1>6, <1>7, BlocksMore
<1>9. transcript' = more
  BY DEF b
<1> HIDE DEF more
<1> PICK tr : tr = more
  OBVIOUS
<1>10. Tidy(tr)'
  BY <1>2, <1>8 DEF Tidy
<1> QED
  BY <1>9, <1>10 DEF Plain

\* consume_thread_event: an event shows a final answer, or nothing that has a text.
LEMMA PlainDeliver ==
  ASSUME DistinctItems, Course, Plain, NEW w \in DOMAIN sent, NEW n \in NextPieces(w), Deliver(w, n)
  PROVE  Plain'
<1> DEFINE e == PieceEvent(w, n)
<1>1. /\ at = "streaming" /\ sent' = [sent EXCEPT ![w] = n] /\ Shown(e) = transcript'
      /\ UNCHANGED <<session, turns, at>>
  BY DEF Deliver, Streaming
<1> SUFFICES ASSUME mode # "human" PROVE Plain'
  BY <1>1 DEF Plain, mode
<1>2. at \in Running
  BY <1>1 DEF Running
<1>3. /\ {"type", "id", "text"} \subseteq DOMAIN w /\ w.text \in Seq(Nat)
      /\ sent[w] # Whole(w) /\ n \in 1..Whole(w) /\ session \in Sessions
  BY <1>2, PieceOf
<1>4. Done(TRUE)' = Done(TRUE) \cup
        (IF n = Whole(w) /\ Message(CompletedEvent(w), TRUE) THEN {w} ELSE {})
  BY <1>1, <1>2, DoneGrows
<1>5. CASE mode = "json"
  <2>1. Push("Raw", NoId, <<>>)
    BY <1>1, <1>5 DEF Shown, Push
  <2> QED
    BY <1>1, <1>2, <1>4, <2>1, PlainNotes
<1>6. CASE mode = "final"
  <2>1. transcript' = transcript \o FinalResponse(e)
    BY <1>1, <1>6 DEF Shown
  <2>2. CASE n = Whole(w) /\ Message(CompletedEvent(w), TRUE)
    <3>1. e = CompletedEvent(w)
      BY <2>2 DEF PieceEvent
    <3>2. Answer(e) = AnswerOf(w) /\ Message(e, TRUE)
      BY <1>3, <2>2, <3>1, MessageIs
    <3> HIDE DEF e
    <3>3. FinalResponse(e) = <<Block("Agent", NoId, w.text)>>
      BY <3>2 DEF FinalResponse, AnswerOf
    <3> DEFINE b == Block("Agent", NoId, w.text)
    <3>4. transcript \in Seq(Spoken)
      BY DEF Plain, Tidy
    <3>5. b \in Spoken
      BY <1>3 DEF Block, Spoken
    <3>6. transcript' = Append(transcript, b)
      <4> HIDE DEF b
      <4>1. transcript' = transcript \o <<b>>
        BY <2>1, <3>3 DEF b
      <4> QED
        BY <3>4, <3>5, <4>1
    <3>7. w \notin Done(TRUE) /\ w \in Done(TRUE)'
      BY <1>3, <1>4, <2>2 DEF Done
    <3> QED
      BY <1>1, <1>2, <1>4, <3>6, <3>7, PlainMessage
  <2>3. CASE ~(n = Whole(w) /\ Message(CompletedEvent(w), TRUE))
    <3>1. ~Message(e, TRUE) /\ e.kind # "turnCompleted"
      <4>1. CASE n = Whole(w)
        <5>1. e = CompletedEvent(w) /\ e.kind = "itemCompleted"
          BY <4>1 DEF PieceEvent, CompletedEvent, ItemEvent
        <5> QED
          BY <2>3, <4>1, <5>1
      <4>2. CASE n # Whole(w)
        <5>1. e.kind = "itemUpdated"
          BY <1>3, <4>2, PieceIs
        <5> QED
          BY <5>1, NoMessage
      <4> QED
        BY <4>1, <4>2
    <3> HIDE DEF e
    <3>2. FinalResponse(e) = <<>>
      BY <3>1 DEF FinalResponse
    <3>3. transcript \in Seq(Spoken)
      BY DEF Plain, Tidy
    <3>4. transcript' = transcript
      BY <2>1, <3>2, <3>3, ConcatEmptySeq
    <3> QED
      BY <1>1, <1>2, <1>4, <3>4, PlainNotes
  <2> QED
    BY <2>2, <2>3
<1> QED
  BY <1>3, <1>5, <1>6, SessionsAssumption DEF mode

\* The turn ends: the message kept for its end was not shown.
LEMMA PlainEnd ==
  ASSUME DistinctItems, Course, Answers, Plain, NEW kind \in EndKinds, TurnEnds(kind)
  PROVE  Plain'
<1> DEFINE e == TurnEvent(kind)
<1>1. /\ at = "streaming" /\ at' = "idle" /\ UNCHANGED <<session, turns>>
      /\ transcript' = IF kind = "turnCompleted" THEN Shown(e)
                       ELSE Append(Shown(e), Block("Error", NoId, <<>>))
  BY DEF TurnEnds, Finish, Streaming
<1> SUFFICES ASSUME mode # "human" PROVE Plain'
  BY <1>1 DEF Plain, mode
<1>2. at \in Running /\ at' \notin Running /\ session \in Sessions
  BY <1>1 DEF Running, Course
<1>3. e.kind = kind /\ kind # "itemCompleted"
  BY DEF TurnEvent, ItemEvent, EndKinds
<1>4. ~Message(e, TRUE)
  BY <1>3, NoMessage
<1> HIDE DEF e
<1>5. Tidy(transcript) /\ transcript \in Seq(Spoken) /\ transcript \o <<>> = transcript
  BY ConcatEmptySeq DEF Plain, Tidy
<1>6. CASE mode = "final" /\ kind = "turnCompleted" /\ ~emitted /\ fallback # <<>>
  <2>1. PICK w \in Done(FALSE) : fallback = AnswerOf(w)
    BY <1>2, <1>6 DEF Answers
  <2>2. transcript' = transcript \o <<Block("Agent", NoId, w.text)>>
    BY <1>1, <1>3, <1>4, <1>6, <2>1 DEF Shown, FinalResponse, AnswerOf
  <2>3. w \in DOMAIN sent /\ Message(CompletedEvent(w), FALSE)
    BY DEF Done
  <2>4. w.text \in Seq(Nat) /\ {"type", "id", "text"} \subseteq DOMAIN w
    <3>1. w \in session.turns[turns] /\ turns \in 1..Len(session.turns)
      BY <1>2, <2>3 DEF Course
    <3> QED
      BY <1>2, <3>1, ItemIs
  <2>5. w \notin Done(TRUE)
    BY <2>3, <2>4, MessageIs DEF Done
  <2> DEFINE b == Block("Agent", NoId, w.text)
  <2>6. b \in Spoken
    BY <2>4 DEF Block, Spoken
  <2>7. transcript' = Append(transcript, b)
    <3> HIDE DEF b
    <3>1. transcript' = transcript \o <<b>>
      BY <2>2 DEF b
    <3> QED
      BY <1>5, <2>6, <3>1
  <2> QED
    BY <1>1, <1>2, <2>3, <2>5, <2>7, PlainMessage
<1>7. CASE ~(mode = "final" /\ kind = "turnCompleted" /\ ~emitted /\ fallback # <<>>)
  <2>1. PICK shown : shown = Shown(e) /\ Tidy(shown)
    <3>1. CASE mode = "json"
      <4>1. Shown(e) = Append(transcript, Block("Raw", NoId, <<>>))
        BY <3>1 DEF Shown
      <4> QED
        BY <1>5, <4>1, TidyNote
    <3>2. CASE mode = "final"
      <4>1. FinalResponse(e) = <<>>
        BY <1>3, <1>4, <1>7, <3>2 DEF FinalResponse
      <4>2. Shown(e) = transcript
        BY <1>5, <3>2, <4>1 DEF Shown
      <4> QED
        BY <1>5, <4>2
    <3> QED
      BY <1>2, <3>1, <3>2, SessionsAssumption DEF mode
  <2>2. PICK tr : tr = transcript' /\ Tidy(tr)
    <3>1. CASE kind = "turnCompleted"
      BY <1>1, <2>1, <3>1
    <3>2. CASE kind # "turnCompleted"
      <4> DEFINE more == Append(shown, Block("Error", NoId, <<>>))
      <4>1. Tidy(more)
        BY <2>1, TidyNote
      <4>2. transcript' = more
        BY <1>1, <2>1, <3>2
      <4> HIDE DEF more
      <4> QED
        BY <4>1, <4>2
    <3> QED
      BY <3>1, <3>2
  <2>3. Tidy(tr)'
    BY <1>1, <1>2, <2>2, TidyStays
  <2> QED
    BY <2>2, <2>3 DEF Plain
<1> QED
  BY <1>6, <1>7

\* The other outputs are in order in every reachable state.
LEMMA PlainInvariant ==
  ASSUME DistinctItems
  PROVE  Spec => []Plain
<1>1. Init => Plain
  <2> SUFFICES ASSUME Init PROVE Tidy(transcript)
    BY DEF Plain
  <2>1. transcript = <<>>
    BY DEF Init
  <2>2. transcript \in Seq(Spoken) /\ Len(transcript) = 0
    BY <2>1
  <2> QED
    BY <2>2 DEF Tidy, Once
<1>2. Course /\ Answers /\ Plain /\ [Next]_vars => Plain'
  <2> SUFFICES ASSUME Course, Answers, Plain, [Next]_vars PROVE Plain'
    OBVIOUS
  <2>1. CASE StartTurn
    BY <2>1, PlainStart
  <2>2. ASSUME NEW w \in DOMAIN sent, NEW n \in NextPieces(w), Deliver(w, n) PROVE Plain'
    BY <2>2, PlainDeliver
  <2>3. ASSUME NEW w \in DOMAIN sent, NEW n \in NextPieces(w), Skip(w, n) PROVE Plain'
    <3>1. /\ at = "streaming" /\ sent' = [sent EXCEPT ![w] = n]
          /\ UNCHANGED <<at, session, turns, transcript>>
      BY <2>3 DEF Skip, Streaming, appVars
    <3>2. at \in Running
      BY <3>1 DEF Running
    <3>3. Done(TRUE) \subseteq Done(TRUE)'
      BY <3>1, <3>2, DoneGrows
    <3> QED
      BY <3>1, <3>2, <3>3, PlainNotes
  <2>4. ASSUME NEW kind \in EndKinds, TurnEnds(kind) PROVE Plain'
    BY <2>4, PlainEnd
  <2>5. CASE Submit
    <3>1. at' \notin Running /\ UNCHANGED <<session, turns>>
      BY <2>5, SubmitDoes DEF Running, turnVars
    <3>2. \/ transcript' = transcript \/ transcript' = <<>>
          \/ \E kind \in {"User", "Error", "Status", "Raw"} : Push(kind, NoId, <<>>)
      BY <2>5, SubmitDoes
    <3> QED
      BY <3>1, <3>2, PlainNotes
  <2>6. CASE \/ EditLine \/ QuitKey \/ ClearTranscript \/ Compacted \/ StreamFails \/ TurnRefused
             \/ StreamCloses \/ TurnAccepted \/ Interrupt \/ InterruptAccepted
             \/ InterruptRefused \/ UNCHANGED vars
    <3>1. /\ UNCHANGED <<session, turns, sent>>
          /\ at' \in Running => at \in Running
          /\ \/ transcript' = transcript \/ transcript' = <<>>
             \/ \E kind \in {"User", "Error", "Status", "Raw"} : Push(kind, NoId, <<>>)
      BY <2>6 DEF EditLine, QuitKey, ClearTranscript, Compacted, StreamFails, TurnRefused, Finish,
         StreamCloses, TurnAccepted, Interrupt, InterruptAccepted, InterruptRefused, vars,
         appVars, turnVars, Running
    <3>2. Done(TRUE)' = Done(TRUE)
      BY <3>1 DEF Done
    <3> QED
      BY <3>1, <3>2, PlainNotes
  <2> QED
    BY <2>1, <2>2, <2>3, <2>4, <2>5, <2>6 DEF Next
<1> QED
  BY <1>1, <1>2, CourseInvariant, AnswersInvariant, PTL DEF Spec

\* TextShownOnce: whatever the items of a session and the order their pieces come in, what
\* was received of an item of the running turn is in one block of its own, in order, and no
\* text is shown twice; as long as the items and their pieces can be told apart.
THEOREM TextIsShownOnce ==
  ASSUME DistinctItems
  PROVE  Spec => []TextShownOnce
<1>1. Course /\ Human /\ Plain => TextShownOnce
  <2> SUFFICES ASSUME Course, Human, Plain PROVE TextShownOnce
    OBVIOUS
  <2>1. NoTextTwice
    <3>1. CASE mode = "human"
      BY <3>1, HumanIsOnce
    <3>2. CASE mode # "human"
      BY <3>2, OnceIs DEF Plain, Tidy
    <3> QED
      BY <3>1, <3>2
  <2> QED
    BY <2>1, HumanIsStreamedOnce DEF TextShownOnce
<1> QED
  BY <1>1, CourseInvariant, HumanInvariant, PlainInvariant, PTL
=============================================================================
