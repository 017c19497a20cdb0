---------------------------- MODULE NodeParsing ----------------------------
(***************************************************************************)
(* What the outbounds that parseURI() makes have to do with the URIs they  *)
(* are made of, and when two nodes are taken for one.  Both callers        *)
(* (buildState, src/subscription-manager/main.go:500-522, and Run,         *)
(* src/catalog-client/internal/shadow/shadow.go:211-229) merge nodes whose *)
(* outbounds are equal.  The state is that of Run's loop.                  *)
(***************************************************************************)
EXTENDS CatalogCandidate

Query0 == {"security", "pbk", "sid", "sni", "alpn", "insecure", "allowInsecure", "fp", "type",
           "path", "host", "serviceName", "flow", "obfs", "obfsPassword", "plugin", "network"}

ASSUME UriAssumption ==
    \A uri \in Uri :
        /\ DOMAIN uri = {"malformed", "scheme", "host", "port", "user", "password", "query"}
        /\ DOMAIN uri.query = Query0
        /\ uri.malformed \in BOOLEAN
        /\ uri.port # NoPort => uri.port \in Int
        /\ uri.user \in Seq(Piece) \ {<< >>} /\ uri.password \in Seq(Piece)
ASSUME Base64Assumption ==
    /\ Decoded \in [Base64 -> Seq(Piece)]
    /\ "" \in Base64 => Decoded[""] = <<"">>

\* The node an outbound was made of.
Origin(outbound) == nodes[outbound.tag[2]]

\* What every node of the universe becomes.
Outbounds == [u \in Uri |-> ParseNode(u)]

\* Protocols that mean TLS by themselves, and those with a transport of choice.
Secure    == {"trojan", "hysteria2"}
Streaming == {"vless", "trojan"}

Features == {"tls", "reality", "insecure", "ws", "grpc", "obfs", "plugin", "network"}

\* What a URI asks of the connection, in the words of the URI ...
Demands(u) ==
    LET q == u.query
        Asks(feature) ==
            CASE feature = "tls"      -> \/ q.security \in {"tls", "reality"}
                                         \/ q.security = "" /\ Type(u) \in Secure
              [] feature = "reality"  -> q.security = "reality"
              [] feature = "insecure" -> QueryBool(q, {"insecure", "allowInsecure"})
              [] feature = "obfs"     -> Type(u) = "hysteria2" /\ q.obfs # ""
              [] feature = "plugin"   -> q.plugin # ""
              [] feature = "network"  -> q.network # ""
              [] OTHER                -> q.type = feature
    IN {feature \in Features : Asks(feature)}

\* ... and what an outbound has of it.
Offers(i) ==
    LET Has(feature) ==
            CASE feature = "tls"      -> i.tls.enabled
              [] feature = "reality"  -> i.tls.reality.key # "" /\ i.tls.utls # ""
              [] feature = "insecure" -> i.tls.insecure
              [] feature = "obfs"     -> i.type = "hysteria2" /\ i.obfs # ""
              [] feature \in {"plugin", "network"} -> FALSE
              [] OTHER                -> i.type \in Streaming /\ i.transport.type = feature
    IN {feature \in Features : Has(feature)}

\* Whom a node takes the router for: a vless node looks at the user alone.
Identity(u) ==
    IF Type(u) = "vless" THEN u.user
    ELSE IF Type(u) = "shadowsocks" /\ UserInfo(u) \in {<<x>> : x \in Base64}
    THEN Decoded[u.user[1]] ELSE UserInfo(u)

\* Other ways to write the same node: the protocol's second name, a default
\* spelled out, the second name of a parameter, base64 for credentials in the
\* clear (base64 of base64 is another spelling of nothing).
Respelled(u) ==
    {[u EXCEPT !.scheme = s] :
        s \in IF Type(u) = "hysteria2" THEN {"hy2", "hysteria2"} ELSE {u.scheme}}
    \cup {[u EXCEPT !.query.security = s] :
        s \in IF u.query.security # "" THEN {}
              ELSE IF Type(u) \in Secure THEN {"tls"} ELSE {"none"}}
    \cup {[u EXCEPT !.query.insecure = u.query.allowInsecure,
                    !.query.allowInsecure = u.query.insecure]}
    \cup {[u EXCEPT !.query.type = t] : t \in IF u.query.type = "" THEN {"tcp"} ELSE {}}
    \cup {[u EXCEPT !.user = <<x>>, !.password = << >>] :
        x \in {y \in Base64 : /\ Type(u) = "shadowsocks" /\ Len(UserInfo(u)) > 1
                              /\ Decoded[y] = UserInfo(u)}}

-----------------------------------------------------------------------------
\* Nothing a URI asks for is dropped on the way: an outbound has TLS, Reality,
\* the transport and the obfuscation exactly when its URI asks for them, and
\* skips the verification of certificates only when told to.  What the
\* router cannot do makes the node unusable, never a weaker connection: it has
\* a port a socket can have, TLS where the protocol needs it, and nothing that
\* belongs to another protocol (main.go:196-229, 262-367).
AsAsked ==
    \A j \in DOMAIN outbounds :
        LET uri  == Origin(outbounds[j])
            item == outbounds[j].item
        IN /\ Demands(uri) \ {"insecure"} = Offers(item) \ {"insecure"}
           /\ "insecure" \in Offers(item) => "insecure" \in Demands(uri)
           /\ item.tls.reality.key # "" => item.tls.reality.key = uri.query.pbk
           /\ item.port \in 1 .. MaxPort
           /\ item.type \in Secure => item.tls.enabled
           /\ item.type # "vless" => item.flow = ""
           /\ item.type # "hysteria2" => item.obfs = ""

\* Nodes that are merged because their outbounds are equal are one node:
\* server, port, protocol, the identity used there and everything asked of
\* the connection (main.go:514-525; shadow.go:221-227).
MergedMeansSame ==
    pc = "built" =>
        \A j \in DOMAIN outbounds :
            LET uri == Origin(outbounds[j])
            IN \A other \in Uri :
                Outbounds[other] = outbounds[j].item =>
                    /\ Type(other) = Type(uri)
                    /\ other.host = uri.host /\ other.port = uri.port
                    /\ Identity(other) = Identity(uri)
                    /\ Demands(other) \ {"insecure"} = Demands(uri) \ {"insecure"}

\* Two spellings of one node are merged, and are accepted or refused together
\* (main.go:301-358).
SpellingsMerge ==
    index > 0 =>
        \A other \in Respelled(nodes[index]) : ParseNode(other) = ParseNode(nodes[index])

\* Two URIs are merged exactly if they are one node, although what is compared
\* is the outbounds made of them (main.go:301-358, 514-525; shadow.go:221-227).
MergedIffSame == MergedMeansSame /\ SpellingsMerge
=============================================================================
