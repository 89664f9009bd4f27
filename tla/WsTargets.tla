------------------------------ MODULE WsTargets ------------------------------
(***************************************************************************)
(* Websocket URLs as the SDK reads them (crates/sdk/src/transport/         *)
(* ws_daemon.rs and ws.rs): which of them name an app server the SDK       *)
(* manages, under which key a start of it is locked, and where its log is. *)
(*                                                                         *)
(* A URL is a record of the parts its parser finds; hosts are names.       *)
(***************************************************************************)
EXTENDS Naturals

NoHost == "no host"
NoPort == 0

Hosts == {"localhost", "127.0.0.1", "127.0.0.2", "::1", "0.0.0.0", "example.com"}
Schemes == {"ws", "wss", "http", "unparseable"}

Urls == [scheme : Schemes, host : Hosts \cup {NoHost}, port : Nat]

Url(scheme, host, port) == [scheme |-> scheme, host |-> host, port |-> port]

DefaultPort(scheme) == CASE scheme \in {"ws", "http"} -> 80
                         [] scheme = "wss" -> 443
                         [] OTHER -> NoPort

\* The parser drops the port that is the scheme's default.
PortOf(u) == IF u.port = DefaultPort(u.scheme) THEN NoPort ELSE u.port

IsLoopback(host) == host \in {"localhost", "127.0.0.1", "127.0.0.2", "::1"}

Normalized(host) == IF host = "localhost" THEN "127.0.0.1" ELSE host

Target(host, port) == [host |-> host, port |-> port]
ConfigError == [kind |-> "config error"]
ConnectOnly == [kind |-> "connect only"]

\* WsTarget::parse, of an explicit listen_url or connect_url
ParsedTarget(u) ==
  IF u.scheme # "ws" \/ u.host = NoHost \/ PortOf(u) = NoPort
  THEN ConfigError ELSE Target(u.host, PortOf(u))

\* What a start has to know: the listen target, the key its startup is locked
\* under and the log it writes to.
StartTarget(listen, written) ==
  [kind |-> "target", listen |-> listen, log |-> written,
   lockKey |-> Target(Normalized(listen.host), listen.port)]

\* start_ws_server: listen_url and connect_url must both be targets.
BuiltTarget(listen_url, connect_url) ==
  IF ConfigError \in {ParsedTarget(listen_url), ParsedTarget(connect_url)}
  THEN ConfigError
  ELSE StartTarget(ParsedTarget(listen_url), ParsedTarget(listen_url))

\* start_and_connect_ws: a loopback ws:// URL is managed, others are only
\* connected to.
ManagedTarget(u) ==
  IF u.scheme = "unparseable" THEN ConfigError
  ELSE IF u.scheme # "ws" THEN ConnectOnly
  ELSE IF u.host = NoHost THEN ConfigError
  ELSE IF ~IsLoopback(u.host) THEN ConnectOnly
  ELSE IF PortOf(u) = NoPort THEN ConfigError
  ELSE StartTarget(Target(Normalized(u.host), PortOf(u)), Target(u.host, PortOf(u)))

\* A bearer token may be sent there.
AllowsAuthToken(u) ==
  \/ u.scheme = "wss"
  \/ u.scheme = "ws" /\ u.host \in {"127.0.0.1", "localhost", "::1"}
=============================================================================
