-------------------------------- MODULE Luna --------------------------------
(***************************************************************************)
(* One run of luna, from its command line to its exit code: the commands   *)
(* (crates/luna/src/commands), the connection, which exec opens in a task  *)
(* of its own while it reads its configuration, the account, the turn, the *)
(* list of sessions, the doctor, and what is printed.  Modules WsDaemon,   *)
(* ThreadOps and TurnStream say what a managed connection, a thread and    *)
(* its stream do inside; the screen of luna chat is module Chat.           *)
(***************************************************************************)
EXTENDS Integers, LunaConfig, ThreadItems

CONSTANTS
  Lines,        \* the command lines
  Environments, \* what the process finds around it
  Streams,      \* the events of a turn
  MaxPages      \* MAX_THREAD_LIST_PAGES

\* A raw value that is given is not absent, its entries are a finite set, and an
\* object has an entry for each of its keys.
ASSUME LinesAssumption ==
  \A l \in Lines :
    /\ \A o \in DOMAIN l.given : l.given[o] # Absent /\ IsFiniteSet(l.given[o].v)
    /\ \A e, f \in Get(l, "config-json").v : e[1] = f[1] => e = f

\* The list of sessions is at least one page; ids are numbers in their order, and the
\* recency of a thread is a number (an i64, the least if its times are unreadable).
ASSUME EnvironmentsAssumption ==
  \A e \in Environments :
    /\ e.server \in {"absent", "serving"} /\ e.account \in {"in", "out"}
    /\ e.codex \in BOOLEAN /\ e.logs \in BOOLEAN
    /\ e.pages \in Seq(Range(e.pages)) \ {<<>>}
    /\ \A p \in Range(e.pages) :
         p \in Seq(Range(p)) /\ \A t \in Range(p) : t.id \in Nat /\ t.recency \in Int

\* Every event has an item of a type that is rendered, and its text.
ASSUME StreamsAssumption ==
  \A s \in Streams :
    /\ s \in Seq(Range(s))
    /\ \A e \in Range(s) : /\ e.item.type \in DOMAIN RenderKind
                           /\ e.item.text \in Seq(Range(e.item.text))

ASSUME MaxPagesAssumption == MaxPages \in Nat

VARIABLES
  line, vars,   \* the command line and the environment
  at,           \* where the command is
  link,         \* the connection, or the category of its failure
  server,       \* the app server at the URL: absent, serving, or started by this run
  account,      \* the server's account: in, out
  asked,        \* the requests sent on the connection
  feed, got,    \* the turn's events, and how many were received and printed
  remembered,   \* the renderer's streamed items
  current,      \* the item the human output is in
  printed,      \* what was printed: pieces of items and line ends
  page, queue, entries,  \* the list of sessions
  checks,       \* the doctor's report
  code          \* the exit code

\* The members of S in a sequence, in its order
Kept(s, S) ==
  LET kept[k \in Nat] == IF k = 0 THEN <<>>
                         ELSE IF s[k] \in S THEN Append(kept[k - 1], s[k]) ELSE kept[k - 1]
  IN  kept[Len(s)]

process == <<line, vars>>
connection == <<link, server>>
turn == <<feed, got, remembered, current>>
listing == <<page, queue, entries>>
allVars == <<process, at, connection, account, asked, turn, printed, listing, checks, code>>

Running == 99
NoItemYet == <<"none", NoId>>

Command == IF InformationOnly(line) THEN "none" ELSE CommandOf(line)
TheUrl == ResolveUrl(line, vars).value
Stdio == Has(line, "stdio")
Managed == Command = "start" \/ ManagesDaemon(line, vars)
Mode == IF Has(line, "final-response") THEN "final"
        ELSE IF Has(line, "json") THEN "json" ELSE "human"

Init ==
  /\ line \in Lines /\ vars \in Environments
  /\ at = "parsing"
  /\ link = "none" /\ server = vars.server /\ account = vars.account
  /\ asked = <<>>
  /\ feed = <<>> /\ got = 0 /\ remembered = {} /\ current = NoItemYet
  /\ printed = <<>>
  /\ page = 0 /\ queue = <<>> /\ entries = <<>>
  /\ checks = {}
  /\ code = Running

Exit(c) == at' = "exited" /\ code' = c
Fail(category) == Exit(ExitCode[category])
Goto(place) == at' = place /\ UNCHANGED code

-----------------------------------------------------------------------------
(* main, dispatch, and what a command does before it connects              *)

\* Help, the version and the completions are printed, and that is all.
OnlyPrints == ~UsageError(line) /\ (InformationOnly(line) \/ Command = "completions")

Parse ==
  /\ at = "parsing"
  /\ CASE UsageError(line) -> Fail("usage")
       [] OnlyPrints       -> Exit(0)
       [] OTHER            -> Goto(IF Command \in {"exec", "chat"} THEN "prompting" ELSE "resolving")
  /\ UNCHANGED <<process, connection, account, asked, turn, printed, listing, checks>>

\* exec resolves its prompt before anything else; chat asks for a terminal.
ReadPrompt ==
  /\ at = "prompting"
  /\ CASE Command = "exec" /\ ~ResolvePrompt(line, vars.stdin).ok ->
            Fail(ResolvePrompt(line, vars.stdin).error)
       [] Command = "chat" /\ vars.stdin # "terminal" -> Fail("usage")
       [] OTHER -> Goto("resolving")
  /\ UNCHANGED <<process, connection, account, asked, turn, printed, listing, checks>>

\* websocket_url_for, and then the connect task of exec and chat is spawned,
\* sessions and start connect themselves, and doctor first checks the machine.
ResolveTransport ==
  /\ at = "resolving"
  /\ \/ /\ ~ResolveUrl(line, vars).ok
        /\ Fail("usage") /\ UNCHANGED link
     \/ /\ ResolveUrl(line, vars).ok
        /\ CASE Command \in {"exec", "chat"} -> Goto("preparing") /\ link' = "opening"
             [] Command = "doctor"           -> Goto("checking") /\ UNCHANGED link
             [] Command = "sessions" /\ ~Has(line, "all") /\ ~Has(line, "cwd") /\ ~vars.cwd ->
                  Fail("configuration") /\ UNCHANGED link
             [] OTHER                        -> Goto("joining") /\ link' = "opening"
  /\ UNCHANGED <<process, server, account, asked, turn, printed, listing, checks>>

\* Variant: a connection that has failed is reported first.
PrepareAfterConnecting ==
  /\ at = "preparing"
  /\ CASE link \in Categories                -> Fail(link) /\ UNCHANGED link
       [] PrepareError(line, vars) = "none" -> Goto("joining") /\ UNCHANGED link
       [] OTHER -> Fail(PrepareError(line, vars)) /\ link' = "aborted"
  /\ UNCHANGED <<process, server, account, asked, turn, printed, listing, checks>>

\* turn::prepare while the connect task runs: the first error aborts the task.
Prepare ==
  /\ at = "preparing"
  /\ IF PrepareError(line, vars) = "none" THEN Goto("joining") /\ UNCHANGED link
     ELSE Fail(PrepareError(line, vars)) /\ link' = "aborted"
  /\ UNCHANGED <<process, server, account, asked, turn, printed, listing, checks>>

-----------------------------------------------------------------------------
(* connect_ws_codex, start_ws_server and spawn_stdio_codex                 *)

TokenAllowed ==
  Stdio \/ ~HasToken(line) \/ AllowsAuthToken(TheUrl)

\* What start_and_connect_ws has to start a server for
Startable == Managed /\ ~Stdio /\ "lockKey" \in DOMAIN ManagedTarget(TheUrl)

LinkBecomes(state) ==
  /\ link = "opening"
  /\ link' = state
  /\ UNCHANGED <<process, at, server, account, asked, turn, printed, listing, checks, code>>

RefuseToken == link = "opening" /\ ~TokenAllowed /\ LinkBecomes("usage")
NoBinary == link = "opening" /\ Stdio /\ ~vars.codex /\ LinkBecomes("dependency")

StartServer ==
  /\ link = "opening" /\ TokenAllowed /\ Startable
  /\ server = "absent" /\ vars.codex
  /\ server' = "started"
  /\ UNCHANGED <<process, at, link, account, asked, turn, printed, listing, checks, code>>

\* What the URL, or for stdio the binary, lets be connected to: connect_ws refuses
\* other schemes, and a managed start a loopback URL without a port.
Connectable ==
  IF Stdio THEN vars.codex
  ELSE /\ server # "absent" /\ TheUrl.scheme \in {"ws", "wss"}
       /\ Managed => ManagedTarget(TheUrl) # ConfigError

Opens == link = "opening" /\ TokenAllowed /\ Connectable /\ LinkBecomes("open")

\* A connection refused, lost or late, or a handshake the server refuses
Closes == /\ link = "opening" /\ TokenAllowed /\ (Stdio => vars.codex)
          /\ \/ LinkBecomes("transport")
             \/ Connectable /\ LinkBecomes("protocol")

Connect == RefuseToken \/ NoBinary \/ StartServer \/ Opens \/ Closes

Joined == CASE Command \in {"exec", "chat"} -> Goto("authenticating")
            [] Command = "sessions"         -> Goto("listing")
            [] Command = "doctor"           -> Goto("probing")
            [] OTHER                        -> Exit(0)

\* The connection is awaited; the doctor reports a failure of it instead.
Join ==
  /\ at = "joining" /\ link \in {"open"} \cup Categories
  /\ \/ link = "open" /\ Joined /\ UNCHANGED checks
     \/ link # "open" /\ Command # "doctor" /\ Fail(link) /\ UNCHANGED checks
     \/ /\ link # "open" /\ Command = "doctor" /\ Goto("reporting")
        /\ checks' = checks \cup {<<"app_server.connection", "fail">>}
  /\ UNCHANGED <<process, connection, account, asked, turn, printed, listing>>

-----------------------------------------------------------------------------
(* Requests: each is sent, and answered, refused, or lost                  *)

ThreadRequest == IF Has(line, "continue") THEN "resume latest"
                 ELSE IF Has(line, "resume") THEN "thread/resume" ELSE "thread/start"

\* What the command asks next; the thread is prepared lazily by its first turn.
Pending ==
  CASE at \in {"authenticating", "probing"} -> <<"account/read">>
    [] at = "logging in" -> <<IF "tokens" \in vars.credentials THEN "login by tokens"
                                                              ELSE "login by key">>
    [] at = "turning" /\ Command = "exec" -> <<ThreadRequest, "turn/start">>
    [] at = "listing" /\ page < MaxPages -> <<"thread/list">>
    [] at = "previewing" /\ queue # <<>> /\ ~Head(queue).preview -> <<"thread/read">>
    [] OTHER -> <<>>

Answered == asked' = asked \o Pending

\* Variant: a key of the environment is taken for an account.
EnsureAuthenticatedByKey ==
  /\ at = "authenticating" /\ Answered
  /\ IF account = "in" \/ vars.credentials # {} THEN Goto("turning") ELSE Fail("authentication")
  /\ UNCHANGED <<process, connection, account, turn, printed, listing, checks>>

\* ensure_authenticated: an account the server has, or else a login with what
\* the environment holds
EnsureAuthenticated ==
  /\ at = "authenticating" /\ Answered
  /\ CASE account = "in"        -> Goto("turning")
       [] account # "in" /\ vars.credentials = {} -> Fail("authentication")
       [] OTHER                 -> Goto("logging in")
  /\ UNCHANGED <<process, connection, account, turn, printed, listing, checks>>

\* account/login/start
Login ==
  /\ at = "logging in" /\ Answered
  /\ account' = "in" /\ Goto("turning")
  /\ UNCHANGED <<process, connection, turn, printed, listing, checks>>

StartTurn ==
  /\ at = "turning" /\ Command = "exec" /\ Answered
  /\ feed' \in Streams /\ Goto("streaming")
  /\ UNCHANGED <<process, connection, account, got, remembered, current, printed, listing, checks>>

\* luna chat goes on as Chat, and ends well when its user leaves it.
ChatEnds ==
  /\ at = "turning" /\ Command = "chat"
  /\ Exit(0)
  /\ UNCHANGED <<process, connection, account, asked, turn, printed, listing, checks>>

\* thread.ask wraps what run() fails with; run_streamed keeps a client's error.
TurnCategory(category) == IF Mode = "final" THEN "turn" ELSE category

\* The answer is an error, or there is none; the doctor reports it instead.
RequestFails ==
  /\ at # "probing"
  /\ \E n \in DOMAIN Pending, error \in {"TransportClosed", "Timeout", "Rpc"} :
       /\ asked' = asked \o SubSeq(Pending, 1, n)
       /\ LET category == ClientCategory(error)
          IN  Fail(IF at = "turning" THEN TurnCategory(category) ELSE category)
  /\ UNCHANGED <<process, connection, account, turn, printed, listing, checks>>

-----------------------------------------------------------------------------
(* HumanOutput and the streams of exec                                     *)

LineEnd == <<"line end">>
Break == 9          \* a piece that ends its line
Label == 8          \* "Reasoning: ", "Plan: "

LastOf(text) == text[Len(text)]
EndsLine(token) == token = LineEnd \/ LastOf(token) = Break

SeparateBlocks ==
  CASE printed = <<>> -> <<>>
    [] OTHER -> IF EndsLine(LastOf(printed)) THEN <<LineEnd>> ELSE <<LineEnd, LineEnd>>

Identity(f) == <<f.kind, f.id>>
Tokens(f, text) == [k \in DOMAIN text |-> Identity(f) \o <<text[k]>>]

\* An item without text of its own says what it is.
WriteFragment(f) ==
  LET same == f.continuation /\ current = Identity(f)
      label == IF f.continuation /\ ~same /\ f.kind \in {"Reasoning", "Plan"}
               THEN <<Label>> ELSE <<>>
      text == IF f.text = <<>> THEN <<Blank>> ELSE f.text
  IN  (IF same THEN <<>> ELSE SeparateBlocks) \o Tokens(f, label \o text)

FinishLine(out) == IF out = <<>> \/ EndsLine(LastOf(out)) THEN out ELSE Append(out, LineEnd)

Shows(e) ==
  LET out == Render(remembered, e).out
  IN  IF out = <<>> \/ Head(out).kind = "UserMessage" THEN <<>> ELSE out

\* print_final_response of what run() takes for the final response
FinalItems(events) ==
  LET messages == SelectSeq(events, LAMBDA e : e.kind = "itemCompleted" /\ e.item.type = "agentMessage")
      final == SelectSeq(messages, LAMBDA e : e.item.phase = "final_answer")
      from == IF final # <<>> THEN final ELSE messages
  IN  IF from = <<>> THEN <<>> ELSE <<LastOf(from).item>>

FinalText == IF FinalItems(feed) = <<>> THEN <<>>
             ELSE FinishLine(Tokens(RenderThreadItem(Head(FinalItems(feed))),
                                    Head(FinalItems(feed)).text))

\* What an event prints, before the last line is finished
Written(e) ==
  CASE Mode = "json"  -> printed \o <<<<"json", e.kind, Break>>>>
    [] Mode = "final" -> IF e.kind = "turnCompleted" THEN FinalText ELSE <<>>
    [] OTHER          -> IF Shows(e) = <<>> THEN printed
                         ELSE printed \o WriteFragment(Head(Shows(e)))

Ends(e) == e.kind \in {"turnCompleted", "turnFailed", "error"}

\* Variant: only a failed turn is a failure.
TurnCode(e) == IF e.kind = "turnFailed" THEN ExitCode.turn ELSE 0

\* stream_human_events, stream_json_events and run()
StreamCode(e) == IF e.kind = "turnCompleted" THEN 0 ELSE ExitCode.turn

\* What is on stdout once the event is: the last one finishes the last line.
Output(e) == IF Ends(e) THEN FinishLine(Written(e)) ELSE Written(e)

Receive ==
  /\ at = "streaming" /\ got < Len(feed)
  /\ LET e == feed[got + 1]
     IN  /\ got' = got + 1
         /\ printed' = Output(e)
         /\ remembered' = IF Mode = "human" THEN Render(remembered, e).streamed ELSE remembered
         /\ current' = IF Mode = "human" /\ Shows(e) # <<>> THEN Identity(Head(Shows(e)))
                                                             ELSE current
         /\ IF Ends(e) THEN Exit(StreamCode(e)) ELSE Goto("streaming")
  /\ UNCHANGED <<process, connection, account, asked, feed, listing, checks>>

\* The connection closes before the turn ends, which the stream's last item tells
\* (TurnStream: it never ends without one), or stdout refuses what an event prints,
\* the end of the turn's or the final response included.
StreamFails ==
  /\ at = "streaming" /\ got < Len(feed)
  /\ \/ Fail(TurnCategory(ClientCategory("TransportClosed")))
     \/ Output(feed[got + 1]) # printed /\ Fail("io")
  /\ UNCHANGED <<process, connection, account, asked, turn, printed, listing, checks>>

-----------------------------------------------------------------------------
(* list_sessions                                                           *)

Matches(t) == Has(line, "all") \/ t.cwd = "here"

Filtered(threads) == Kept(threads, {t \in Range(threads) : Matches(t)})

\* Most recent first; by id when that does not tell.
Before(s, t) ==
  \/ s.recency > t.recency
  \/ s.recency = t.recency /\ s.id < t.id

Sorted ==
  LET order == CHOOSE p \in Bijection(DOMAIN entries, DOMAIN entries) :
                 \A i, j \in DOMAIN entries : i < j => ~Before(entries[p[j]], entries[p[i]])
  IN  [k \in DOMAIN entries |-> entries[order[k]]]

ListPage ==
  /\ at = "listing"
  /\ page' = page + 1
  /\ IF page' > MaxPages
     THEN Fail("protocol") /\ UNCHANGED <<asked, queue>>
     ELSE /\ Answered /\ Goto("previewing")
          /\ queue' = Filtered(vars.pages[page'])
  /\ UNCHANGED <<process, connection, account, turn, printed, entries, checks>>

\* A thread whose summary has no preview is read.
Preview ==
  /\ at = "previewing" /\ queue # <<>>
  /\ Answered
  /\ entries' = Append(entries, Head(queue))
  /\ queue' = Tail(queue)
  /\ UNCHANGED <<process, at, connection, account, turn, printed, page, checks, code>>

\* Variant: a page without threads is taken for the last.
PageDoneWhenEmpty ==
  /\ at = "previewing" /\ queue = <<>>
  /\ IF page < Len(vars.pages) /\ vars.pages[page] # <<>> THEN Goto("listing") /\ UNCHANGED printed
     ELSE Exit(0) /\ printed' = [k \in DOMAIN entries |-> <<"session", NoId, Sorted[k].id>>]
  /\ UNCHANGED <<process, connection, account, asked, turn, listing, checks>>

\* The next page, if there is one, or the whole list
PageDone ==
  /\ at = "previewing" /\ queue = <<>>
  /\ IF page < Len(vars.pages) THEN Goto("listing") /\ UNCHANGED printed
     ELSE Exit(0) /\ printed' = [k \in DOMAIN entries |-> <<"session", NoId, Sorted[k].id>>]
  /\ UNCHANGED <<process, connection, account, asked, turn, listing, checks>>

-----------------------------------------------------------------------------
(* build_report                                                            *)

Status(ok) == IF ok THEN "ok" ELSE "fail"
Check(new) == checks' = checks \cup new

\* The binary, the log directory, and then the version command
CheckMachine ==
  /\ at = "checking"
  /\ Check({<<"luna.binary", "ok">>, <<"luna.temp", Status(vars.logs)>>,
            <<"codex.binary", Status(vars.codex)>>})
  /\ Goto(IF vars.codex THEN "versioning" ELSE "reporting")
  /\ UNCHANGED <<process, connection, account, asked, turn, printed, listing>>

\* run_bounded_command of --version, and check_auth_availability; only a live
\* doctor goes on to codex's own doctor and to the app server.
CheckVersion ==
  /\ at = "versioning"
  /\ \E ok \in BOOLEAN :
       Check({<<"codex.version", Status(ok)>>,
              <<"codex.auth", IF vars.credentials # {} \/ vars.cached THEN "ok" ELSE "warning">>,
              <<"codex.doctor", IF Has(line, "live") THEN "due" ELSE "skipped">>}
             \ {<<"codex.doctor", "due">>})
  /\ Goto(IF Has(line, "live") THEN "upstream" ELSE "reporting")
  /\ UNCHANGED <<process, connection, account, asked, turn, printed, listing>>

\* check_upstream_doctor, and then check_live_readiness connects.
CheckUpstream ==
  /\ at = "upstream"
  /\ \E status \in {"ok", "warning", "fail"} : Check({<<"codex.doctor", status>>})
  /\ link' = "opening" /\ Goto("joining")
  /\ UNCHANGED <<process, server, account, asked, turn, printed, listing>>

\* account/read only: the doctor never logs in.
ProbeAccount ==
  /\ at = "probing" /\ Answered
  /\ \/ Check({<<"app_server.connection", "ok">>,
               <<"codex.auth.live", Status(account = "in")>>})
     \/ Check({<<"app_server.handshake", "fail">>})
  /\ Goto("reporting")
  /\ UNCHANGED <<process, connection, account, turn, printed, listing>>

Report ==
  /\ at = "reporting"
  /\ Exit(IF \E c \in checks : c[2] = "fail" THEN 1 ELSE 0)
  /\ UNCHANGED <<process, connection, account, asked, turn, printed, listing, checks>>

-----------------------------------------------------------------------------
Doctor == CheckMachine \/ CheckVersion \/ CheckUpstream \/ ProbeAccount \/ Report
Sessions == ListPage \/ Preview \/ PageDone
Exec == \/ ReadPrompt \/ Prepare \/ EnsureAuthenticated \/ Login \/ StartTurn
        \/ ChatEnds \/ Receive \/ StreamFails

Next == \/ Parse \/ ResolveTransport \/ Connect \/ Join
        \/ Exec \/ Sessions \/ Doctor \/ RequestFails

Spec == Init /\ [][Next]_allVars

\* Every step of the process itself is taken; requests are answered or time out.
FairSpec == Spec /\ WF_allVars(Next)

-----------------------------------------------------------------------------
(* Properties                                                              *)

TypeOK ==
  /\ line \in Lines /\ vars \in Environments
  /\ link \in {"none", "opening", "open", "aborted"} \cup Categories
  /\ server \in {"absent", "serving", "started"} /\ account \in {"in", "out"}
  /\ got \in 0..Len(feed)
  /\ page \in 0..(MaxPages + 1)
  /\ code = Running <=> at # "exited"
  /\ code \in {Running, 0} \cup Range(ExitCode)
  /\ \A e \in Range(entries) : \E k \in DOMAIN vars.pages : e \in Range(vars.pages[k])
  /\ \A c \in checks : c[2] \in {"ok", "warning", "fail", "skipped"}

\* What is wrong with the input of the command, found before a server is asked
\* anything: the first of these.
InputError ==
  LET prompt == ResolvePrompt(line, vars.stdin)
  IN  CASE UsageError(line) -> "usage"
        [] OnlyPrints       -> "none"
        [] OTHER            -> FirstError(
             <<IF Command = "exec" /\ ~prompt.ok THEN prompt.error ELSE "none",
               UsageUnless(Command = "chat" => vars.stdin = "terminal"),
               UsageUnless(ResolveUrl(line, vars).ok),
               IF Command \in {"exec", "chat"} THEN PrepareError(line, vars) ELSE "none">>)

\* An error in the input of exec or chat decides the exit code however the
\* connect task that runs beside it fares, and no request is sent: prepare
\* aborts the task and drops a connection it may have made.
InputErrorsDecide ==
  InputError # "none" =>
    /\ asked = <<>> /\ printed = <<>>
    /\ at = "exited" => code = ExitCode[InputError] /\ link \in {"none", "aborted"}

\* A server is started only by luna start, or at the default URL for a command
\* that was told neither --no-daemon nor --stdio and has a prompt: "Explicit
\* URLs are connect-only".
StartsOnlyItsOwn ==
  server = "started" =>
    \/ Command = "start"
    \/ /\ TheUrl = DefaultUrl /\ InputError # "io"
       /\ {"ws-url", "no-daemon", "stdio"} \cap DOMAIN line.given = {}
       /\ vars.url = Absent /\ vars.legacyUrl = Absent

\* A turn is started only for an account the server has, its own or one that
\* was logged in with the environment's credentials.
AuthenticatedFirst ==
  "turn/start" \in Range(asked) =>
    /\ account = "in" /\ Head(asked) = "account/read"
    /\ vars.account = "in" \/ \E r \in Range(asked) : r \in {"login by tokens", "login by key"}

\* No source of the configuration is overridden silently by another: what a
\* turn runs with has every entry every source gave (build_thread_config).
ConfigAgrees ==
  "turn/start" \in Range(asked) =>
    \A e \in Get(line, "config-json").v \cup Get(line, "config").v \cup FromOptions(line) :
      {f \in BuildThreadConfig(line).value : f[1] = e[1]} = {e}

\* luna acts only as its command line, its environment and its configuration say.
ActsAsTold == InputErrorsDecide /\ StartsOnlyItsOwn /\ ConfigAgrees

\* exec succeeds exactly when its turn completed and all of it was printed, in each
\* of its output modes.
ZeroIsCompleted ==
  at = "exited" /\ feed # <<>> =>
    (code = 0 <=> got > 0 /\ feed[got].kind = "turnCompleted")

\* Between the texts of two items there is exactly one empty line, whatever
\* way their deltas and snapshots interleave and their text ends.
Separated(i, j) ==
  LET between == SubSeq(printed, i + 1, j - 1)
  IN  Len(between) + (IF EndsLine(printed[i]) THEN 1 ELSE 0) = 2

Text(k) == printed[k] # LineEnd
BlocksSeparated ==
  Mode = "human" /\ Command = "exec" =>
    \A i, j \in DOMAIN printed :
      /\ i < j /\ Text(i) /\ Text(j)
      /\ \A k \in (i + 1)..(j - 1) : ~Text(k)
      => (SubSeq(printed[i], 1, 2) = SubSeq(printed[j], 1, 2) \/ Separated(i, j))

\* The text of every item the turn completed was printed, and no piece of it
\* twice: deltas and then nothing, or the snapshot.
PiecesOf(identity, out) ==
  LET own == Kept(out, {t \in Range(out) : /\ t # LineEnd /\ LastOf(t) # Label
                                           /\ SubSeq(t, 1, 2) = identity})
  IN  [k \in DOMAIN own |-> LastOf(own[k])]

TextOf(identity) == PiecesOf(identity, printed)

PrintedWhole ==
  Mode = "human" /\ Command = "exec" /\ code = 0 =>
    \A k \in 1..got :
      LET f == RenderThreadItem(feed[k].item)
      IN  feed[k].kind = "itemCompleted" /\ f.kind # "UserMessage" /\ ~Empty(f) /\ f.text # <<>>
            => TextOf(Identity(f)) = f.text

\* luna sessions prints all the recorded threads that match, each once, the most
\* recent first, or, if a page or a thread could not be read, none of them.
SessionsAllOrNothing ==
  Command = "sessions" /\ at = "exited" =>
    IF code # 0 THEN printed = <<>>
    ELSE LET wanted == Filtered(FlattenSeq(vars.pages))
             shown == [k \in DOMAIN printed |->
                         CHOOSE t \in Range(wanted) : t.id = printed[k][3]]
         IN  /\ Len(shown) = Len(wanted) /\ Range(shown) = Range(wanted)
             /\ \A i, j \in DOMAIN shown : i < j => shown[i].recency >= shown[j].recency

\* What a command prints is whole: exec's interleaved items, set apart, and the list
\* of luna sessions.
OutputIsWhole == BlocksSeparated /\ PrintedWhole /\ SessionsAllOrNothing

\* What OutputIsWhole takes for granted of what a server sends.  A thread is
\* listed as the same wherever it is listed.
DistinctThreads ==
  \A e \in Environments : \A p, q \in Range(e.pages) :
    \A t \in Range(p), u \in Range(q) : t.id = u.id => t = u

\* An item's deltas, if it has any, are the text of its snapshot, which comes
\* once and last.  Only what the pump forwards is a delta (delta_item_updated).
ItemOf(e) == Identity(RenderThreadItem(e.item))

Told(s, n, identity) ==
  LET deltas == Kept(SubSeq(s, 1, n), {e \in Range(s) : e.kind = "itemUpdated"
                                                        /\ ItemOf(e) = identity})
  IN  FlattenSeq([k \in DOMAIN deltas |-> deltas[k].item.text])

WholeItems ==
  \A s \in Streams : \A k \in DOMAIN s :
    /\ Label \notin Range(s[k].item.text)
    /\ s[k].kind = "itemUpdated" =>
         s[k].item.type \in DeltaTypes /\ s[k].item.id # NoId /\ s[k].item.text # <<>>
    /\ s[k].kind = "itemCompleted" =>
         /\ \A j \in DOMAIN s : /\ s[j].kind \in {"itemUpdated", "itemCompleted"}
                               /\ ItemOf(s[j]) = ItemOf(s[k])
                               => j <= k
         /\ LET text == RenderThreadItem(s[k].item).text
            IN  text = <<>> \/ Told(s, k, ItemOf(s[k])) \in {<<>>, text}

\* A doctor that passes is right about what it was asked: the binary is there,
\* and live, the server is connected to and has an account.  Offline it
\* connects to nothing and starts nothing.
DoctorIsRight ==
  Command = "doctor" =>
    /\ code = 0 => /\ vars.codex /\ vars.logs
                   /\ Has(line, "live") => link = "open" /\ account = "in"
    /\ ~Has(line, "live") => link = "none" /\ server = vars.server /\ asked = <<>>

\* Exit code 0 tells that the command did what it was asked: the turn completed and
\* was printed, the doctor found what it was to find.
ZeroMeansDone == ZeroIsCompleted /\ DoctorIsRight

\* "6: Process, WebSocket, timeout, or connection failure"
\* (crates/luna/README.md): what a connection lost during a turn exits with.  (Code 1
\* is that of a stdout that cannot be written.)
LostStreamIsTransport ==
  [][at = "streaming" /\ at' = "exited" /\ got' = got
       => code' \in {ExitCode.transport, ExitCode.io}]_allVars
=============================================================================
