------------------------ MODULE MCCatalogCandidate ------------------------
(* Snapshots of one node, out of five families of URIs, each of which       *)
(* varies the parameters that meet in one part of the parser, over all      *)
(* protocols; and of up to four nodes: two nodes, one of them in two        *)
(* spellings, and one that cannot be used.  Bases with and without groups   *)
(* and with the tag of the second node.                                     *)
EXTENDS CatalogComparison

NoQuery == [q \in Query0 |-> ""]

Basic == [malformed |-> FALSE, scheme |-> "vless", host |-> "h", port |-> 443,
          user |-> <<"u">>, password |-> << >>, query |-> NoQuery]

\* Usable credentials of a protocol.
Known(scheme) == [Basic EXCEPT !.scheme = scheme, !.user = IF scheme = "ss" THEN <<"b1">> ELSE @]

AllSchemes == Schemes \cup {"vmess"}

SecurityFamily ==
    {[Known(s) EXCEPT !.query = [NoQuery EXCEPT !.security = sec, !.pbk = k, !.fp = f,
                                                !.insecure = i, !.allowInsecure = j]] :
        s \in AllSchemes, sec \in Securities \cup {"xtls"}, k \in {"", "k"},
        f \in {"", "firefox", "random"}, i \in {"", "1"}, j \in {"", "true"}}

TransportFamily ==
    {[Known(s) EXCEPT !.query = [NoQuery EXCEPT !.type = t, !.path = p, !.host = h, !.flow = f]] :
        s \in AllSchemes, t \in {"", "tcp", "ws", "grpc", "kcp"}, p \in {"", "%x"},
        h \in {"", "w"}, f \in {"", "xtls-rprx-vision", "xtls-rprx-vision-udp443"}}

IdentityFamily ==
    {[Basic EXCEPT !.scheme = s, !.user = u, !.password = p] :
        s \in AllSchemes,
        u \in {<<"">>, <<"u">>, <<"aes-128-gcm">>, <<"aes-128-gcm", "p">>, <<"b1">>, <<"b2">>, <<"b3">>},
        p \in {<< >>, <<"">>, <<"p">>, <<"p", "q">>}}

AddressFamily ==
    {[Known(s) EXCEPT !.host = h, !.port = n, !.malformed = m] :
        s \in AllSchemes, h \in {"", "h", "g"}, n \in {NoPort, 0, 1, 65535, 65536}, m \in BOOLEAN}

OptionFamily ==
    {[Known(s) EXCEPT !.query = [NoQuery EXCEPT !.obfs = o, !.obfsPassword = p, !.plugin = g,
                                                !.network = n]] :
        s \in AllSchemes, o \in {"", "salamander", "other"}, p \in {"", "p"},
        g \in {"", "g"}, n \in {"", "udp"}}

Families ==
    SecurityFamily \cup TransportFamily \cup IdentityFamily \cup AddressFamily \cup OptionFamily

Pieces   == {"", "u", "p", "q", "plain", "aes-128-gcm", "b1", "b2", "b3"}
Coded    == {"b1", "b2", "b3"}
Decoding == [x \in Coded |-> CASE x = "b1" -> <<"aes-128-gcm", "p">>
                               [] x = "b2" -> <<"aes-128-gcm", "p", "q">>
                               [] x = "b3" -> <<"plain">>]

Trojan  == Known("trojan")
Spelled == [Trojan EXCEPT !.query.security = "tls"]
Other   == [Trojan EXCEPT !.password = <<"p">>]
Bare    == [Trojan EXCEPT !.query.security = "none"]

FourUris == {Trojan, Spelled, Other, Bare}
AllUris  == Families \cup FourUris
Lists    == {<<u>> : u \in Families} \cup UNION {[1 .. n -> FourUris] : n \in 2 .. 4}
Labels   == [u \in AllUris |-> IF u = Other THEN <<"y">> ELSE <<"x">>]

Sub == "s"
Plain(tag)  == [tag |-> tag, members |-> << >>]
Choice(tag) == [tag |-> tag, members |-> <<<<"direct">>>>]
GroupTags    == {<<"telegram-auto">>, <<"default-auto">>}
BaseTags     == {NoTag, <<"direct">>, Tag(2), <<"sub", "s", "x", 2>>} \cup GroupTags
BaseContents == {NoBase, << >>,
                 <<Plain(<<"direct">>), Plain(<<"direct">>)>>,
                 <<Plain(NoTag), Choice(<<"telegram-auto">>), Plain(NoTag),
                   Plain(<<"default-auto">>)>>,
                 <<Choice(<<"default-auto">>), Plain(Tag(2))>>,
                 <<Choice(<<"default-auto">>), Plain(<<"sub", "s", "x", 2>>)>>}
=============================================================================
