------------------------------ MODULE NodeUri ------------------------------
(***************************************************************************)
(* parseURI() (src/subscription-manager/main.go:163-368): the outbound a   *)
(* node URI stands for, if it stands for one.  The catalog client parses   *)
(* with a frozen copy of the same code.                                    *)
(*                                                                         *)
(* A URI is the record net/url makes of it.  Query parameters are those    *)
(* the code asks for, "" where one is absent.  The text before or after a  *)
(* colon is a piece: user and password are sequences of pieces, so that    *)
(* joining them with a colon is \o.                                        *)
(***************************************************************************)
EXTENDS Integers, Sequences

CONSTANTS
    NoPort,      \* a URI without a port
    BadPath,     \* paths with an invalid escape
    Piece,       \* what user and password are made of
    Base64,      \* pieces that are the base64 form of something
    Decoded      \* Decoded[x]: the pieces x is the base64 form of

\* What stands for no outbound.
Unparsable == [type |-> "none"]

Schemes      == {"vless", "trojan", "hy2", "hysteria2", "ss"}
Securities   == {"", "none", "tls", "reality"}
Fingerprints == {"chrome", "firefox", "safari", "ios", "android", "edge"}
Methods      == {"aes-128-gcm", "aes-256-gcm", "chacha20-ietf-poly1305",
                 "2022-blake3-aes-128-gcm", "2022-blake3-aes-256-gcm",
                 "2022-blake3-chacha20-poly1305"}

-----------------------------------------------------------------------------
\* A parameter that says yes, under either of its names.
QueryBool(query, names) == \E n \in names : query[n] \in {"1", "true"}

NoKey == [key |-> "", id |-> ""]
NoTls == [enabled |-> FALSE, sni |-> "", alpn |-> "", insecure |-> FALSE, utls |-> "",
          reality |-> NoKey]

TlsFrom(query) ==
    IF query.security \notin {"tls", "reality"} THEN NoTls
    ELSE [enabled  |-> TRUE,
          sni      |-> query.sni,
          alpn     |-> query.alpn,
          insecure |-> QueryBool(query, {"insecure", "allowInsecure"}),
          utls     |-> IF query.fp \in Fingerprints THEN query.fp
                       ELSE IF query.security = "reality" THEN "chrome" ELSE "",
          reality  |-> IF query.security = "reality"
                       THEN [key |-> query.pbk, id |-> query.sid] ELSE NoKey]

NoTransport == [type |-> "", path |-> "", host |-> "", service |-> ""]

TransportKnown(query) ==
    /\ query.type \in {"", "tcp", "ws", "grpc"}
    /\ query.type = "ws" => query.path \notin BadPath

\* The transport of a query that asks for a known one.
TransportFrom(query) ==
    CASE query.type = "ws"   -> [NoTransport EXCEPT !.type = "ws", !.path = query.path,
                                                    !.host = query.host]
      [] query.type = "grpc" -> [NoTransport EXCEPT !.type = "grpc",
                                                    !.service = query.serviceName]
      [] OTHER               -> NoTransport

\* user:password, or the user alone.
UserInfo(uri) == uri.user \o uri.password

\* Shadowsocks: method and password, in the clear or in base64.
ShadowsocksInfo(uri) ==
    IF Len(UserInfo(uri)) > 1 THEN UserInfo(uri)
    ELSE IF uri.user[1] \in Base64 THEN Decoded[uri.user[1]] ELSE << >>

ShadowsocksKnown(uri) ==
    LET info == ShadowsocksInfo(uri)
    IN Len(info) > 1 /\ info[1] \in Methods

\* hysteria2: no obfuscation, or a complete one.
ObfsComplete(query) ==
    query.obfs # "" => query.obfs = "salamander" /\ query.obfsPassword # ""

Type(uri) ==
    CASE uri.scheme \in {"hy2", "hysteria2"} -> "hysteria2"
      [] uri.scheme = "ss"                   -> "shadowsocks"
      [] OTHER                               -> uri.scheme

\* trojan and hysteria2 use TLS unless the URI says otherwise.
Query(uri) ==
    IF Type(uri) \in {"trojan", "hysteria2"} /\ uri.query.security = ""
    THEN [uri.query EXCEPT !.security = "tls"] ELSE uri.query

Flow(query) ==
    CASE query.flow \in {"xtls-rprx-vision", "xtls-rprx-vision-udp443"} -> "xtls-rprx-vision"
      [] query.flow = "xtls-rprx-direct"                               -> "xtls-rprx-direct"
      [] OTHER                                                         -> ""

MaxPort == 65535

PortValid(uri) == uri.port \in 1 .. MaxPort

\* Everything the code asks of any URI before it looks at the protocol.
WellFormed(uri) ==
    /\ ~uri.malformed
    /\ uri.scheme \in Schemes
    /\ uri.host # "" /\ uri.port # NoPort
    /\ uri.query.security \in Securities
    /\ uri.query.security = "reality" => uri.query.pbk # ""
    /\ uri.query.plugin = "" /\ uri.query.network = ""
    /\ PortValid(uri)
    /\ uri.user # <<"">>

\* Mutant: a transport the protocol does not have is left out.
AnyTransport(uri) == TransportKnown(uri.query)

\* A known transport, of a protocol that has a choice.
TransportAllowed(uri) ==
    /\ TransportKnown(uri.query)
    /\ Type(uri) \in {"hysteria2", "shadowsocks"} => TransportFrom(uri.query) = NoTransport

\* What it asks because of the protocol.
Supported(uri) ==
    /\ Type(uri) = "hysteria2" => ObfsComplete(uri.query)
    /\ Type(uri) = "shadowsocks" => ShadowsocksKnown(uri)
    /\ Type(uri) \in {"trojan", "hysteria2"} => Query(uri).security = "tls"
    /\ TransportAllowed(uri)

\* Mutant: the password after the colon is dropped.
CredentialsOfUser(uri) == uri.user

\* Who the node takes the router for.
Credentials(uri) ==
    CASE Type(uri) = "vless"       -> uri.user
      [] Type(uri) = "shadowsocks" -> ShadowsocksInfo(uri)
      [] OTHER                     -> UserInfo(uri)

\* The outbound, without its tag.
ParseURI(uri) ==
    IF WellFormed(uri) /\ Supported(uri)
    THEN [type        |-> Type(uri),
          server      |-> uri.host,
          port        |-> uri.port,
          credentials |-> Credentials(uri),
          flow        |-> IF Type(uri) = "vless" THEN Flow(uri.query) ELSE "",
          obfs        |-> IF Type(uri) = "hysteria2" /\ uri.query.obfs = "salamander"
                          THEN uri.query.obfsPassword ELSE "",
          tls         |-> TlsFrom(Query(uri)),
          transport   |-> TransportFrom(uri.query)]
    ELSE Unparsable
=============================================================================
