------------------------------- MODULE MCChat -------------------------------
(***************************************************************************)
(* An instance of Chat for TLC: the commands /effort, /skill, /quit and    *)
(* their kin as two characters each, sessions that press keys and sessions  *)
(* that run turns.                                                         *)
(***************************************************************************)
EXTENDS Chat

SampleCharacters == {" ", "/", "$", "a", "low", "rust",
                     "compact", "effort", "skill", "clear", "quit"}

Name(n, argument) == [name |-> <<"/", n>>, argument |-> argument]

SampleCommands == <<Name("compact", FALSE), Name("effort", TRUE), Name("skill", TRUE),
                    Name("clear", FALSE), Name("quit", FALSE)>>

SampleEfforts == <<<<"low">>>>
SampleSkills == <<<<"rust">>>>
SampleTyped == {"/", "a"}
SamplePasted == {<<"a", " ", "/">>}

Wire(type, id, t) == [type |-> type, id |-> id, text |-> t]

\* An answer after a message in two pieces, and a blank thought
Messages == {Wire("agentMessage", "m", <<1, 2>>),
             [type |-> "agentMessage", id |-> "f", text |-> <<3>>, phase |-> "final_answer"],
             Wire("reasoning", "r", <<Blank>>)}

\* A prompt's echo, a tool call, and a message without a phase
Work == {Wire("userMessage", "u", <<4>>), Wire("mcpToolCall", "t", <<5>>),
         Wire("agentMessage", "n", <<6>>)}

Session(m, prompt, items, k) ==
  [mode |-> m, prompt |-> prompt, turns |-> items, keys |-> k]

\* A prompt on the command line; lines and commands; prompts typed, and a second turn.
SampleSessions ==
  {Session("human", TRUE, <<Messages>>, 0), Session("final", TRUE, <<Messages>>, 0),
   Session("human", TRUE, <<Work>>, 0), Session("json", FALSE, <<Work>>, 2),
   Session("human", FALSE, <<>>, 5), Session("final", TRUE, <<Work, Messages>>, 1)}

ASSUME SampleAssumption == DistinctMessages /\ DistinctItems
=============================================================================
