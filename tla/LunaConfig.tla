----------------------------- MODULE LunaConfig -----------------------------
(***************************************************************************)
(* What luna makes of a command line and of its environment before it      *)
(* talks to an app server: crates/luna/src/cli.rs, websocket.rs, config.rs *)
(* and error.rs.                                                           *)
(*                                                                         *)
(* A command line is its words (commands, legacy flag, prompt) and the     *)
(* options given, each with a raw value.  A raw value says what it is and  *)
(* holds a set v: of a JSON object or a list of KEY=VALUE its entries      *)
(* <<key, value>>, of a URL that URL.  The value of an option that names a *)
(* file is what reading the file gives.                                    *)
(***************************************************************************)
EXTENDS Naturals, Sequences, FiniteSets, SequencesExt, WsTargets

Raw(is, v) == [is |-> is, v |-> v]
Absent == Raw("absent", {})

Get(line, o) == IF o \in DOMAIN line.given THEN line.given[o] ELSE Absent
Has(line, o) == o \in DOMAIN line.given

-----------------------------------------------------------------------------
(* LunaError: its categories and their exit codes                          *)

ExitCode == [io |-> 1, usage |-> 2, dependency |-> 3, configuration |-> 4,
             authentication |-> 5, transport |-> 6, protocol |-> 7, turn |-> 8]

Categories == DOMAIN ExitCode

\* LunaError::code of a ClientError
ClientCategory(e) ==
  IF e \in {"Timeout", "Config", "Startup", "TransportSend", "TransportClosed", "Io"}
  THEN "transport" ELSE "protocol"

Failed(category) == [ok |-> FALSE, error |-> category]
Done(value) == [ok |-> TRUE, value |-> value]

-----------------------------------------------------------------------------
(* normalize_legacy_cli_args and clap                                      *)

Commands == {"exec", "chat", "start", "sessions", "doctor", "completions"}
Aliases == Commands \cup {"x"}
Legacy == "--sessions"

\* --sessions, wherever it is, is the command sessions.
NormalizedWords(line) ==
  IF Legacy \in Range(line.words)
  THEN <<"sessions">> \o SelectSeq(line.words, LAMBDA w : w # Legacy)
  ELSE line.words

LegacyUsage(line) ==
  /\ Legacy \in Range(line.words)
  /\ \/ Cardinality({k \in DOMAIN line.words : line.words[k] = Legacy}) > 1
     \/ \E w \in Range(line.words) : w \in Aliases

CommandOf(line) ==
  IF line.words = <<>> THEN "none"
  ELSE IF Head(NormalizedWords(line)) = "x" THEN "exec" ELSE Head(NormalizedWords(line))

Prompt(line) == IF line.words = <<>> THEN <<>> ELSE Tail(NormalizedWords(line))

TransportOptions == {"ws-url", "ws-auth-token", "ws-auth-token-file", "no-daemon", "stdio"}

\* By how cli.rs reads them: as given, trimmed and not empty, or one of a list
Flags == {"fast", "sandbox-network-access-enabled", "sandbox-network-access-disabled",
          "ephemeral", "experimental-raw-events", "persist-extended-history", "continue",
          "final-response", "json", "no-daemon", "stdio", "all", "summary", "live",
          "no-color", "ascii"}
Listed == {"reasoning-effort", "reasoning-summary", "model-verbosity", "approval-policy",
           "sandbox", "web-search-mode", "personality"}
Trimmed == {"ws-url", "cwd", "model", "model-provider", "config-profile",
            "sandbox-policy-json", "sandbox-writable-root", "dynamic-tools-json",
            "base-instructions", "developer-instructions", "resume", "config-json",
            "output-schema-json", "output-schema-file", "turn-extra-json",
            "ws-auth-token", "ws-auth-token-file"}

OptionsOf(command) ==
  CASE command \in {"exec", "chat"} ->
         (Flags \ {"all", "summary", "live", "no-color", "ascii"})
           \cup Listed \cup Trimmed \cup {"agent", "config"}
    [] command = "sessions" -> TransportOptions \cup {"all", "cwd"}
    [] command = "doctor"   -> TransportOptions \cup {"summary", "json", "live", "no-color", "ascii"}
    [] command = "start"    -> {"ws-url", "ws-auth-token", "ws-auth-token-file"}
    [] OTHER                -> {}

Conflicts == {{"ws-url", "stdio"}, {"ws-auth-token", "stdio"}, {"ws-auth-token-file", "stdio"},
              {"ws-auth-token", "ws-auth-token-file"}, {"continue", "resume"},
              {"sandbox-network-access-enabled", "sandbox-network-access-disabled"},
              {"output-schema-json", "output-schema-file"}, {"final-response", "json"},
              {"summary", "json"}}

\* No command, or words that the command has no place for
Misplaced(line) ==
  \/ CommandOf(line) \notin Commands
  \/ CommandOf(line) = "completions" /\ Len(Prompt(line)) > 1
  \/ CommandOf(line) \in {"start", "sessions", "doctor"} /\ Prompt(line) # <<>>

Refused(line) ==
  \/ Misplaced(line)
  \/ CommandOf(line) = "completions" /\ Prompt(line) = <<>>
  \/ ~ DOMAIN line.given \subseteq OptionsOf(CommandOf(line))
  \/ \E c \in Conflicts : c \subseteq DOMAIN line.given
  \/ \E o \in Listed : Get(line, o).is = "malformed"

\* turn_cli_args and the like: normalize_optional_string, normalize_agent_name,
\* normalize_working_directory, normalize_session_id and resolve_ws_auth_token
Unusable(line) ==
  \/ \E o \in Trimmed : Get(line, o).is = "blank"
  \/ Get(line, "ws-auth-token-file").is = "unreadable"
  \/ Get(line, "agent").is \in {"blank", "malformed"}

\* The line asks for help or the version, and clap looks no further: a command has
\* its own --help, taken to come before the other options of the line.
InformationOnly(line) ==
  \/ line.words = <<>> /\ DOMAIN line.given \cap {"help", "version"} # {}
  \/ Has(line, "help") /\ ~LegacyUsage(line) /\ ~Misplaced(line)

UsageError(line) ==
  ~InformationOnly(line) /\ (LegacyUsage(line) \/ Refused(line) \/ Unusable(line))

-----------------------------------------------------------------------------
(* resolve_prompt, of what stdin is                                        *)

ResolvePrompt(line, stdin) ==
  IF Prompt(line) # <<>> THEN Done(Prompt(line))
  ELSE CASE stdin = "unreadable"         -> Failed("io")
         [] stdin \in {"terminal", "blank"} -> Failed("usage")
         [] OTHER                         -> Done(<<stdin>>)

-----------------------------------------------------------------------------
(* websocket_url_for and resolve_websocket_url                             *)

DefaultUrl == Url("ws", "127.0.0.1", 4222)

\* The one given first in this order is the one, even if it is of no use.
Selected(line, vars) ==
  LET sources == <<Get(line, "ws-url"), vars.url, vars.legacyUrl>>
      given == {k \in DOMAIN sources : sources[k] # Absent}
  IN  IF Has(line, "stdio") \/ given = {} THEN Absent
      ELSE sources[CHOOSE k \in given : \A j \in given : k <= j]

ResolveUrl(line, vars) ==
  CASE Selected(line, vars) = Absent       -> Done(DefaultUrl)
    [] Selected(line, vars).is = "blank"   -> Failed("usage")
    [] OTHER -> Done(CHOOSE u \in Selected(line, vars).v : TRUE)

ManagesDaemon(line, vars) ==
  Selected(line, vars) = Absent /\ ~Has(line, "no-daemon") /\ ~Has(line, "stdio")

HasToken(line) == Has(line, "ws-auth-token") \/ Has(line, "ws-auth-token-file")

-----------------------------------------------------------------------------
(* build_thread_config: a configuration is a set of entries, one a key     *)

\* insert_thread_config: the same value again changes nothing.
InsertThreadConfig(config, e) ==
  IF ~config.ok THEN config
  ELSE IF \E f \in config.value : f[1] = e[1] /\ f # e THEN Failed("usage")
  ELSE Done(config.value \cup {e})

ConfigKey == [x \in {"web-search-mode", "config-profile", "model-verbosity",
                     "sandbox-network-access-enabled", "sandbox-network-access-disabled",
                     "sandbox-writable-root"} |->
  CASE x = "web-search-mode"       -> "web_search"
    [] x = "config-profile"        -> "profile"
    [] x = "model-verbosity"       -> "model_verbosity"
    [] x = "sandbox-writable-root" -> "sandbox_workspace_write.writable_roots"
    [] OTHER                       -> "sandbox_workspace_write.network_access"]

\* What an option of its own puts into the configuration
ConfigEntries(line, o) ==
  CASE o = "sandbox-network-access-enabled"  -> {<<ConfigKey[o], {"true"}>>}
    [] o = "sandbox-network-access-disabled" -> {<<ConfigKey[o], {"false"}>>}
    [] OTHER                                 -> {<<ConfigKey[o], Get(line, o).v>>}

FromOptions(line) ==
  UNION {ConfigEntries(line, o) : o \in DOMAIN ConfigKey \cap DOMAIN line.given}

IsObject(raw) == raw \in {Absent} \/ raw.is = "object"

BuildThreadConfig(line) ==
  LET json == Get(line, "config-json")
      entries == Get(line, "config")
      more == SetToSeq(entries.v) \o SetToSeq(FromOptions(line))
      config[k \in Nat] == IF k = 0 THEN Done(json.v)
                           ELSE InsertThreadConfig(config[k - 1], more[k])
  IN  IF ~IsObject(json) \/ entries.is = "malformed" THEN Failed("usage")
      ELSE config[Len(more)]

-----------------------------------------------------------------------------
(* The other options of a turn, in the order prepare resolves them          *)

SchemaError(line) ==
  LET json == Get(line, "output-schema-json")
      file == Get(line, "output-schema-file")
  IN  CASE json.is = "malformed" \/ (json = Absent /\ file.is = "malformed") -> "usage"
        [] json = Absent /\ file.is = "unreadable"                         -> "configuration"
        [] OTHER                                                          -> "none"

UsageUnless(ok) == IF ok THEN "none" ELSE "usage"

\* load_agent_profile: what config.toml and the files it names give for an agent
AgentInstructions(home) ==
  LET sources == IF home.role = "inline" THEN <<home.description>>
                 ELSE <<home.developer, home.modelFile, home.description>>
      texts == SelectSeq(sources, LAMBDA text : text # "none")
  IN  IF \/ home.config # "readable" \/ home.role \in {"none", "unreadable"}
         \/ texts = <<>> \/ Head(texts) = "unusable file"
      THEN Failed("configuration") ELSE Done(Head(texts))

AgentError(line, home) ==
  IF Has(line, "agent") /\ ~AgentInstructions(home).ok THEN "configuration" ELSE "none"

\* The developer instructions: the option's own win over the agent's.
Instructions(line, home) ==
  CASE Has(line, "developer-instructions") -> "option"
    [] ~Has(line, "developer-instructions") /\ Has(line, "agent") -> AgentInstructions(home).value
    [] OTHER                               -> "none"

\* Of stages, each of which has an error or none, the first's that fails
FirstError(stages) ==
  LET failed == {k \in DOMAIN stages : stages[k] # "none"}
  IN  IF failed = {} THEN "none" ELSE stages[CHOOSE k \in failed : \A j \in failed : k <= j]

\* prepare, before its connection is awaited
PrepareError(line, vars) ==
  FirstError(<<IF Has(line, "cwd") \/ vars.cwd THEN "none" ELSE "configuration",
               UsageUnless(BuildThreadConfig(line).ok),
               UsageUnless(Get(line, "sandbox-policy-json").is # "malformed"),
               SchemaError(line),
               UsageUnless(IsObject(Get(line, "turn-extra-json"))),
               UsageUnless(Get(line, "dynamic-tools-json").is \in {"absent", "tools"}),
               AgentError(line, vars.home)>>)
=============================================================================
