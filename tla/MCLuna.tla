------------------------------- MODULE MCLuna -------------------------------
(***************************************************************************)
(* An instance of Luna for TLC: every command, every kind of wrong input,  *)
(* and streams whose items interleave.                                     *)
(***************************************************************************)
EXTENDS Luna

Given(words, given) == [words |-> words, given |-> given]
Option(o, raw) == [x \in {o} |-> raw]
Options(os, raw) == [x \in os |-> raw]
On == Raw("flag", {})
TextValue == Raw("text", {"a"})
Remote == Raw("url", {Url("wss", "example.com", 443)})
Plain == Raw("url", {Url("ws", "example.com", 80)})
Portless == Raw("url", {Url("ws", "localhost", 80)})
Other == Raw("url", {Url("http", "example.com", 80)})
Local == Raw("url", {Url("ws", "localhost", 4500)})

Prompted(given) == Given(<<"exec", "hello">>, given)

WrongLines ==
  {Given(<<>>, <<>>), Given(<<"exec", "--sessions">>, <<>>), Given(<<"--sessions", "--sessions">>, <<>>),
   Given(<<"doctor", "hello">>, <<>>), Given(<<"doctor", "hello">>, Option("help", On)),
   Given(<<"exec">>, Option("version", On)), Given(<<"completions">>, <<>>),
   Given(<<"start">>, Option("stdio", On))}
  \cup {Prompted(g) : g \in
         {Options({"ws-url", "stdio"}, Local), Option("personality", Raw("malformed", {})),
          Option("model", Raw("blank", {})), Option("ws-auth-token-file", Raw("unreadable", {})),
          Option("agent", Raw("malformed", {})), Option("config", Raw("malformed", {})),
          Option("config-json", Raw("scalar", {})), Option("sandbox-policy-json", Raw("malformed", {})),
          Option("output-schema-json", Raw("malformed", {})),
          Option("output-schema-file", Raw("unreadable", {})),
          Option("turn-extra-json", Raw("array", {})), Option("dynamic-tools-json", Raw("array", {}))}}

\* Two sources of one key: that agree, and that do not
Search(mode) == Raw("entries", {<<"web_search", {mode}>>, <<"k", {"v"}>>})
Configured(mode) ==
  Prompted([o \in {"config", "config-json", "web-search-mode", "sandbox-network-access-enabled"} |->
    CASE o = "config" -> Search(mode)
      [] o = "config-json" -> Raw("object", {<<"j", {"v"}>>})
      [] o = "web-search-mode" -> Raw("text", {"cached"})
      [] OTHER -> On])

RightLines ==
  {Given(<<>>, Option("help", On)), Given(<<"doctor">>, Option("help", On)),
   Prompted(Options({"help", "json", "final-response"}, On)), Given(<<"completions", "zsh">>, <<>>), Given(<<"chat">>, <<>>),
   Given(<<"x">>, <<>>), Given(<<"start">>, <<>>), Given(<<"start">>, Option("ws-url", Plain)),
   Given(<<"start">>, Option("ws-url", Portless)), Prompted(Option("ws-url", Other)),
   Given(<<"--sessions">>, <<>>), Given(<<"sessions">>, Option("all", On)),
   Given(<<"sessions">>, Option("no-daemon", On)),
   Given(<<"doctor">>, <<>>), Given(<<"doctor">>, Option("live", On)),
   Given(<<"doctor">>, Options({"live", "stdio"}, On)), Configured("cached"), Configured("live")}
  \cup {Prompted(g) : g \in
         {<<>>, Option("json", On), Option("final-response", On), Option("stdio", On),
          Option("continue", On), Option("resume", TextValue), Option("agent", TextValue),
          Option("ws-url", Local),
          [o \in {"ws-url", "ws-auth-token"} |-> IF o = "ws-url" THEN Plain ELSE TextValue],
          [o \in {"ws-url", "ws-auth-token"} |-> IF o = "ws-url" THEN Remote ELSE TextValue]}}

SampleLines == WrongLines \cup RightLines

Recorded(id, cwd, recency, preview) ==
  [id |-> id, cwd |-> cwd, recency |-> recency, preview |-> preview]

ThreePages == <<<<Recorded(1, "here", 3, TRUE), Recorded(2, "there", 9, FALSE)>>, <<>>,
                 <<Recorded(3, "here", 5, FALSE), Recorded(4, "here", 3, TRUE)>>>>
NoAgent == [config |-> "unreadable", role |-> "none", developer |-> "none",
            modelFile |-> "none", description |-> "none"]
Machine == [url |-> Absent, legacyUrl |-> Absent, cwd |-> TRUE, home |-> NoAgent, stdin |-> "text",
            credentials |-> {}, cached |-> FALSE, codex |-> TRUE, logs |-> TRUE,
            server |-> "absent", account |-> "out", pages |-> <<<<>>>>]

Role(role, developer, modelFile, description) ==
  [config |-> "readable", role |-> role, developer |-> developer,
   modelFile |-> modelFile, description |-> description]

SampleEnvironments ==
  {Machine,
   [Machine EXCEPT !.server = "serving", !.account = "in", !.cached = TRUE,
                   !.pages = ThreePages],
   [Machine EXCEPT !.server = "serving", !.credentials = {"key"}, !.url = Local,
                   !.pages = ThreePages \o <<<<>>>>],
   [Machine EXCEPT !.credentials = {"tokens", "key"}, !.legacyUrl = Remote, !.server = "serving"],
   [Machine EXCEPT !.url = Raw("blank", {}), !.legacyUrl = Local],
   [Machine EXCEPT !.codex = FALSE, !.stdin = "unreadable"],
   [Machine EXCEPT !.stdin = "blank", !.cwd = FALSE, !.logs = FALSE],
   [Machine EXCEPT !.stdin = "terminal", !.account = "in",
                   !.home = Role("file", "none", "instructions", "about")],
   [Machine EXCEPT !.account = "in", !.home = Role("file", "none", "unusable file", "about")],
   [Machine EXCEPT !.account = "in", !.url = Local, !.home = Role("inline", "none", "none", "about")]}

Agent(id, text, phase) == ThreadItem("agentMessage", id, text, phase)
Thought(id, text) == ThreadItem("reasoning", id, text, NoPhase)
Tool(id) == ThreadItem("commandExecution", id, <<>>, NoPhase)
User == ThreadItem("userMessage", "u", <<3>>, NoPhase)
Delta(item) == ItemEvent("itemUpdated", item)
Snapshot(item) == ItemEvent("itemCompleted", item)

\* Two items in turns, one that ends its lines and one that does not, then
\* snapshots of items that were streamed and of one that was not
SampleStreams ==
  {<<TurnEvent("turnStarted"), Snapshot(User), Delta(Thought("r", <<1>>)),
     Delta(Agent("a", <<1, Break>>, NoPhase)), Delta(Thought("r", <<2>>)),
     Snapshot(Tool("c")), Snapshot(Thought("r", <<1, 2>>)),
     Snapshot(Agent("b", <<4>>, "final_answer")),
     Snapshot(Agent("a", <<1, Break>>, "commentary")), TurnEvent("turnCompleted")>>,
   <<Delta(Agent("a", <<1>>, NoPhase)), Delta(Agent("a", <<2>>, NoPhase)),
     Snapshot(Agent("a", <<1, 2>>, NoPhase)), TurnEvent("turnFailed")>>,
   <<Snapshot(Thought("r", <<Blank>>)), Snapshot(Agent("a", <<2>>, NoPhase)),
     TurnEvent("turnCompleted")>>,
   <<TurnEvent("turnStarted"), TurnEvent("error")>>}

ASSUME SampleAssumption == DistinctThreads /\ WholeItems
=============================================================================
