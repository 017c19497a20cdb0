----------------------- MODULE CatalogCandidateProofs -----------------------
(***************************************************************************)
(* Theorems about CatalogCandidate, NodeParsing and CatalogComparison for  *)
(* any base configurations, snapshots and URIs.                            *)
(*                                                                         *)
(* The first part is about the parser alone: what an outbound has is what  *)
(* its URI asks for, so that URIs with equal outbounds are one node.  The  *)
(* second is about the loop: the invariant says where each outbound comes  *)
(* from, that each node looked at has one, and which tags are taken.  The  *)
(* third compares the result with what the manager's reference asks for.   *)
(***************************************************************************)
EXTENDS CatalogComparison, SequenceTheorems, TLAPS

\* What an outbound is made of: a place in the snapshot and the node there.
Made == [tag : {Tag(k) : k \in DOMAIN nodes}, item : {ParseNode(nodes[k]) : k \in DOMAIN nodes}]

TypeOK ==
    /\ base \in Bases /\ nodes \in NodeLists
    /\ pc \in {"base", "node", "built", "refused"}
    /\ index \in 0 .. Len(nodes)
    /\ outbounds \in Seq(Made)

\* Before the base is read nothing has been generated.
Fresh == pc = "base" => index = 0 /\ outbounds = << >> /\ seen = {}

\* An outbound comes from the place its tag names, and no other does.
FromNodes ==
    /\ \A j \in DOMAIN outbounds : \E k \in 1 .. index :
          /\ outbounds[j] = [tag |-> Tag(k), item |-> ParseNode(nodes[k])]
          /\ Usable(nodes[k])
    /\ \A i, j \in DOMAIN outbounds : i # j => outbounds[i].tag # outbounds[j].tag

\* Every node looked at has an outbound, and so has everything seen.
Represented ==
    /\ \A item \in seen : \E j \in DOMAIN outbounds : outbounds[j].item = item
    /\ pc \in {"node", "built"} =>
          \A k \in 1 .. index : \E j \in DOMAIN outbounds : outbounds[j].item = ParseNode(nodes[k])

\* The tags taken are the base's and those of the nodes looked at.
Taken ==
    pc \in {"node", "built"} =>
        /\ base # NoBase /\ Distinct(base)
        /\ tags = {base[k].tag : k \in DOMAIN base} \cup {Tag(k) : k \in 1 .. index}
        /\ \A j \in DOMAIN outbounds, k \in DOMAIN base : outbounds[j].tag # base[k].tag

\* Why a snapshot is refused.
Refusal ==
    pc = "refused" =>
        \/ base = NoBase \/ ~Distinct(base)
        \/ \E k \in DOMAIN nodes :
              \/ ParseNode(nodes[k]) = Unparsable
              \/ \E j \in DOMAIN base : base[j].tag = Tag(k)

\* The base with its groups led by the generated outbounds.
GeneratedTags == [j \in DOMAIN outbounds |-> outbounds[j].tag]
Led == [k \in DOMAIN base |->
           IF base[k].tag \in Groups
           THEN [base[k] EXCEPT !.members = Members(@, GeneratedTags)]
           ELSE base[k]]

Finished == pc = "built" => index = Len(nodes) /\ candidate = Led \o outbounds

Inv == TypeOK /\ Fresh /\ FromNodes /\ Represented /\ Taken /\ Refusal /\ Finished

-----------------------------------------------------------------------------
\* A URI that stands for an outbound meets all conditions of the parser.
LEMMA Accepted ==
    ASSUME NEW u, ParseURI(u) # Unparsable
    PROVE  /\ WellFormed(u) /\ Supported(u)
           /\ ParseURI(u).type = Type(u)
           /\ ParseURI(u).server = u.host
           /\ ParseURI(u).port = u.port
           /\ ParseURI(u).credentials = Credentials(u)
           /\ ParseURI(u).flow = (IF Type(u) = "vless" THEN Flow(u.query) ELSE "")
           /\ ParseURI(u).obfs = (IF Type(u) = "hysteria2" /\ u.query.obfs = "salamander"
                                  THEN u.query.obfsPassword ELSE "")
           /\ ParseURI(u).tls = TlsFrom(Query(u))
           /\ ParseURI(u).transport = TransportFrom(u.query)
  BY DEF ParseURI

\* A URI that does not meet them stands for none.
LEMMA Refused ==
    ASSUME NEW u, ~(WellFormed(u) /\ Supported(u)) PROVE ParseURI(u) = Unparsable
  BY Zenon DEF ParseURI

\* The query that is used differs in its security only.
LEMMA QueryUsed ==
    ASSUME NEW u, DOMAIN u.query = Query0
    PROVE  /\ DOMAIN Query(u) = Query0
           /\ \A q \in Query0 \ {"security"} : Query(u)[q] = u.query[q]
           /\ Query(u).security = (IF Type(u) \in Secure /\ u.query.security = ""
                                   THEN "tls" ELSE u.query.security)
  BY DEF Query, Query0, Secure

\* The protocols of the scheme.
LEMMA TypeKnown ==
    ASSUME NEW u, WellFormed(u)
    PROVE  Type(u) \in {"vless", "trojan", "hysteria2", "shadowsocks"}
  BY DEF WellFormed, Schemes, Type

\* TLS as the outbound has it.
LEMMA TlsAsAsked ==
    ASSUME NEW u \in Uri, WellFormed(u), NEW tls, tls = TlsFrom(Query(u))
    PROVE  /\ tls.enabled <=> \/ u.query.security \in {"tls", "reality"}
                              \/ u.query.security = "" /\ Type(u) \in Secure
           /\ tls.reality.key # "" /\ tls.utls # "" <=> u.query.security = "reality"
           /\ tls.reality.key # "" => tls.reality.key = u.query.pbk
           /\ tls.insecure => QueryBool(u.query, {"insecure", "allowInsecure"})
  <1>1. \A n \in {"insecure", "allowInsecure", "pbk", "fp"} : Query(u)[n] = u.query[n]
    BY QueryUsed, UriAssumption DEF Query0
  <1>2. CASE Query(u).security \notin {"tls", "reality"}
    BY <1>2, QueryUsed, UriAssumption DEF TlsFrom, NoTls, NoKey
  <1>3. CASE Query(u).security = "tls"
    BY <1>1, <1>3, QueryUsed, UriAssumption DEF TlsFrom, NoKey, QueryBool
  <1>4. CASE Query(u).security = "reality"
    BY <1>1, <1>4, QueryUsed, UriAssumption DEF TlsFrom, QueryBool, Fingerprints, WellFormed
  <1> QED
    BY <1>2, <1>3, <1>4

\* The transport as the outbound has it.
LEMMA TransportAsAsked ==
    ASSUME NEW u, NEW feature \in {"ws", "grpc"}, WellFormed(u), Supported(u)
    PROVE  u.query.type = feature <=>
               Type(u) \in Streaming /\ TransportFrom(u.query).type = feature
  BY TypeKnown DEF Supported, TransportAllowed, TransportFrom, NoTransport, Streaming

\* Membership in what a URI asks for and in what an outbound has, by feature.
LEMMA DemandsMembers ==
    ASSUME NEW u
    PROVE  /\ "tls" \in Demands(u) <=> \/ u.query.security \in {"tls", "reality"}
                                       \/ u.query.security = "" /\ Type(u) \in Secure
           /\ "reality"  \in Demands(u) <=> u.query.security = "reality"
           /\ "insecure" \in Demands(u) <=> QueryBool(u.query, {"insecure", "allowInsecure"})
           /\ "obfs"     \in Demands(u) <=> Type(u) = "hysteria2" /\ u.query.obfs # ""
           /\ "plugin"   \in Demands(u) <=> u.query.plugin # ""
           /\ "network"  \in Demands(u) <=> u.query.network # ""
           /\ "ws"       \in Demands(u) <=> u.query.type = "ws"
           /\ "grpc"     \in Demands(u) <=> u.query.type = "grpc"
  BY DEF Demands, Features

\* The same of what an outbound has.
LEMMA OffersMembers ==
    ASSUME NEW i
    PROVE  /\ "tls" \in Offers(i) <=> i.tls.enabled
           /\ "reality"  \in Offers(i) <=> i.tls.reality.key # "" /\ i.tls.utls # ""
           /\ "insecure" \in Offers(i) <=> i.tls.insecure
           /\ "obfs"     \in Offers(i) <=> i.type = "hysteria2" /\ i.obfs # ""
           /\ "plugin"  \notin Offers(i)
           /\ "network" \notin Offers(i)
           /\ "ws"   \in Offers(i) <=> i.type \in Streaming /\ i.transport.type = "ws"
           /\ "grpc" \in Offers(i) <=> i.type \in Streaming /\ i.transport.type = "grpc"
  BY DEF Offers, Features

\* An outbound has what its URI asks for, and nothing else (main.go:262-367).
LEMMA OfferedAsDemanded ==
    ASSUME NEW u \in Uri, ParseURI(u) # Unparsable
    PROVE  /\ Demands(u) \ {"insecure"} = Offers(ParseURI(u)) \ {"insecure"}
           /\ "insecure" \in Offers(ParseURI(u)) => "insecure" \in Demands(u)
  <1> DEFINE i == ParseURI(u)
  <1>1. /\ i.type = Type(u) /\ i.tls = TlsFrom(Query(u)) /\ i.transport = TransportFrom(u.query)
        /\ WellFormed(u) /\ Supported(u)
    BY Accepted
  <1>2. i.obfs = (IF Type(u) = "hysteria2" /\ u.query.obfs = "salamander"
                  THEN u.query.obfsPassword ELSE "")
    BY Accepted
  <1> HIDE DEF i
  <1>3. "tls" \in Demands(u) <=> "tls" \in Offers(i)
    BY <1>1, TlsAsAsked, DemandsMembers, OffersMembers
  <1>4. "reality" \in Demands(u) <=> "reality" \in Offers(i)
    BY <1>1, TlsAsAsked, DemandsMembers, OffersMembers
  <1>5. "insecure" \in Offers(i) => "insecure" \in Demands(u)
    BY <1>1, TlsAsAsked, DemandsMembers, OffersMembers
  <1>6. "obfs" \in Demands(u) <=> "obfs" \in Offers(i)
    <2>1. Type(u) = "hysteria2" /\ u.query.obfs # "" =>
              u.query.obfs = "salamander" /\ u.query.obfsPassword # ""
      BY <1>1 DEF Supported, ObfsComplete
    <2>2. "obfs" \in Demands(u) <=> Type(u) = "hysteria2" /\ u.query.obfs # ""
      BY DemandsMembers
    <2>3. "obfs" \in Offers(i) <=> i.type = "hysteria2" /\ i.obfs # ""
      BY OffersMembers
    <2> QED
      BY <1>1, <1>2, <2>1, <2>2, <2>3
  <1>7. /\ "plugin" \notin Demands(u) /\ "plugin" \notin Offers(i)
        /\ "network" \notin Demands(u) /\ "network" \notin Offers(i)
    BY <1>1, DemandsMembers, OffersMembers DEF WellFormed
  <1>8. /\ "ws" \in Demands(u) <=> "ws" \in Offers(i)
        /\ "grpc" \in Demands(u) <=> "grpc" \in Offers(i)
    <2>1. ASSUME NEW feature \in {"ws", "grpc"}
          PROVE  feature \in Demands(u) <=> feature \in Offers(i)
      <3>1. feature \in Demands(u) <=> u.query.type = feature
        BY DEF Demands, Features
      <3>2. feature \in Offers(i) <=> i.type \in Streaming /\ i.transport.type = feature
        BY DEF Offers, Features
      <3> QED
        BY <1>1, <3>1, <3>2, TransportAsAsked
    <2> QED
      BY <2>1
  <1>9. Demands(u) \subseteq Features /\ Offers(i) \subseteq Features
    BY DEF Demands, Offers
  <1>10. Demands(u) \ {"insecure"} = Offers(i) \ {"insecure"}
    BY <1>3, <1>4, <1>6, <1>7, <1>8, <1>9 DEF Features
  <1> QED
    BY <1>5, <1>10 DEF i

-----------------------------------------------------------------------------
\* Sequences of which the first is not empty: it begins what they are together,
LEMMA ConcatHead ==
    ASSUME NEW S, NEW s \in Seq(S), NEW t \in Seq(S), s # << >>
    PROVE  /\ Len(s) \in Nat /\ Len(t) \in Nat /\ Len(s) # 0
           /\ s \o t \in Seq(S) /\ Len(s \o t) = Len(s) + Len(t)
           /\ (s \o t)[1] = s[1]
  <1>1. Len(s) \in Nat /\ Len(t) \in Nat /\ Len(s) # 0
    BY EmptySeq, LenProperties
  <1> QED
    BY <1>1

\* and is all of it if that is one element.
LEMMA ShortConcat ==
    ASSUME NEW S, NEW s \in Seq(S), NEW t \in Seq(S), s # << >>, ~(Len(s \o t) > 1)
    PROVE  s \o t = <<s[1]>>
  <1>1. Len(s) \in Nat /\ Len(t) \in Nat /\ Len(s) # 0
    BY ConcatHead
  <1>2. /\ s \o t \in Seq(S) /\ Len(s \o t) = Len(s) + Len(t)
        /\ (s \o t)[1] = s[1]
    BY ConcatHead
  <1>3. Len(s \o t) = 1
    BY <1>1, <1>2
  <1>4. /\ <<s[1]>> \in Seq(S) /\ Len(<<s[1]>>) = 1
        /\ <<s[1]>>[1] = s[1]
    BY <1>1, ElementOfSeq
  <1>5. \A i \in 1 .. Len(s \o t) : (s \o t)[i] = <<s[1]>>[i]
    BY <1>2, <1>3, <1>4
  <1> QED
    BY <1>2, <1>3, <1>4, <1>5, SeqEqual

\* Credentials that are one piece are the user's only one.
LEMMA OnePiece ==
    ASSUME NEW u \in Uri, ~(Len(UserInfo(u)) > 1)
    PROVE  UserInfo(u) = <<u.user[1]>>
  <1>1. u.user \in Seq(Piece) /\ u.user # << >> /\ u.password \in Seq(Piece)
    BY UriAssumption
  <1>2. ~(Len(u.user \o u.password) > 1)
    BY DEF UserInfo
  <1> QED
    BY <1>1, <1>2, ShortConcat DEF UserInfo

\* The credentials used tell who a node takes the router for (main.go:301-358).
LEMMA CredentialsIdentify ==
    ASSUME NEW u \in Uri, WellFormed(u), Supported(u)
    PROVE  Credentials(u) = Identity(u)
  <1>1. CASE Type(u) # "shadowsocks"
    BY <1>1, TypeKnown DEF Credentials, Identity
  <1>2. CASE Type(u) = "shadowsocks" /\ Len(UserInfo(u)) > 1
    <2>1. ASSUME NEW x \in Base64 PROVE UserInfo(u) # <<x>>
      <3>1. Len(<<x>>) = 1
        OBVIOUS
      <3>2. ~(1 > 1)
        OBVIOUS
      <3> QED
        BY <1>2, <3>1, <3>2, Zenon
    <2> QED
      BY <1>2, <2>1 DEF Credentials, Identity, ShadowsocksInfo
  <1>3. CASE Type(u) = "shadowsocks" /\ ~(Len(UserInfo(u)) > 1)
    <2>1. UserInfo(u) = <<u.user[1]>>
      BY <1>3, OnePiece
    <2>2. u.user[1] \in Base64
      BY <1>3 DEF Supported, ShadowsocksKnown, ShadowsocksInfo
    <2> QED
      BY <1>3, <2>1, <2>2 DEF Credentials, Identity, ShadowsocksInfo
  <1> QED
    BY <1>1, <1>2, <1>3

\* URIs with one outbound are one node (main.go:514-525).
LEMMA EqualOutbounds ==
    ASSUME NEW u \in Uri, NEW v \in Uri, ParseURI(u) = ParseURI(v), ParseURI(u) # Unparsable
    PROVE  /\ Type(v) = Type(u)
           /\ v.host = u.host /\ v.port = u.port
           /\ Identity(v) = Identity(u)
           /\ Demands(v) \ {"insecure"} = Demands(u) \ {"insecure"}
  BY Accepted, CredentialsIdentify, OfferedAsDemanded

-----------------------------------------------------------------------------
\* URIs that agree in what the parser looks at have one outbound, or none.
LEMMA SameOutbound ==
    ASSUME NEW u, NEW v,
           WellFormed(v) <=> WellFormed(u), Supported(v) <=> Supported(u),
           Type(v) = Type(u), v.host = u.host, v.port = u.port,
           Supported(u) => Credentials(v) = Credentials(u),
           Flow(v.query) = Flow(u.query),
           v.query.obfs = u.query.obfs, v.query.obfsPassword = u.query.obfsPassword,
           WellFormed(u) => TlsFrom(Query(v)) = TlsFrom(Query(u)),
           TransportFrom(v.query) = TransportFrom(u.query)
    PROVE  ParseURI(v) = ParseURI(u)
  BY DEF ParseURI

\* The protocol's second name, or the one it has.
LEMMA SchemeSpelling ==
    ASSUME NEW u \in Uri,
           NEW s \in IF Type(u) = "hysteria2" THEN {"hy2", "hysteria2"} ELSE {u.scheme}
    PROVE  ParseURI([u EXCEPT !.scheme = s]) = ParseURI(u)
  <1> DEFINE v == [u EXCEPT !.scheme = s]
  <1>1. /\ v.scheme = s /\ (v.malformed <=> u.malformed) /\ v.host = u.host
        /\ v.port = u.port /\ v.user = u.user /\ v.password = u.password
        /\ v.query = u.query
    BY UriAssumption
  <1> HIDE DEF v
  <1>2. Type(v) = Type(u) /\ (v.scheme \in Schemes <=> u.scheme \in Schemes)
    BY <1>1 DEF Type, Schemes
  <1>3. WellFormed(v) <=> WellFormed(u)
    <2>1. PortValid(v) <=> PortValid(u)
      BY <1>1 DEF PortValid
    <2>2. v.user # <<"">> <=> u.user # <<"">>
      BY <1>1
    <2> QED
      BY <1>1, <1>2, <2>1, <2>2 DEF WellFormed
  <1>4. ShadowsocksInfo(v) = ShadowsocksInfo(u) /\ UserInfo(v) = UserInfo(u)
    <2>1. UserInfo(v) = UserInfo(u)
      BY <1>1 DEF UserInfo
    <2> QED
      BY <1>1, <2>1 DEF ShadowsocksInfo
  <1>5. Query(v) = Query(u) /\ Credentials(v) = Credentials(u)
    BY <1>1, <1>2, <1>4 DEF Query, Credentials
  <1>6. Supported(v) <=> Supported(u)
    <2>1. TransportAllowed(v) <=> TransportAllowed(u)
      BY <1>1, <1>2 DEF TransportAllowed
    <2>2. ShadowsocksKnown(v) <=> ShadowsocksKnown(u)
      BY <1>4 DEF ShadowsocksKnown
    <2> QED
      BY <1>1, <1>2, <1>5, <2>1, <2>2 DEF Supported
  <1>7. ParseURI(v) = ParseURI(u)
    BY <1>1, <1>2, <1>3, <1>5, <1>6, SameOutbound
  <1> QED
    BY <1>7 DEF v

\* URIs that differ in their query only, and there in nothing but parameters
\* about TLS and the transport.
LEMMA QuerySpelling ==
    ASSUME NEW u \in Uri, NEW q, NEW v, v = [u EXCEPT !.query = q],
           /\ q.obfs = u.query.obfs /\ q.obfsPassword = u.query.obfsPassword
           /\ q.flow = u.query.flow /\ q.pbk = u.query.pbk
           /\ q.plugin = u.query.plugin /\ q.network = u.query.network,
           /\ q.security \in Securities <=> u.query.security \in Securities
           /\ q.security = "reality" <=> u.query.security = "reality",
           /\ TransportKnown(q) <=> TransportKnown(u.query)
           /\ TransportFrom(q) = TransportFrom(u.query),
           Query(v).security = "tls" <=> Query(u).security = "tls",
           TlsFrom(Query(v)) = TlsFrom(Query(u))
    PROVE  ParseURI(v) = ParseURI(u)
  <1>1. /\ v.scheme = u.scheme /\ (v.malformed <=> u.malformed) /\ v.host = u.host
        /\ v.port = u.port /\ v.user = u.user /\ v.password = u.password /\ v.query = q
    BY UriAssumption
  <1>2. Type(v) = Type(u)
    BY <1>1 DEF Type
  <1>3. WellFormed(v) <=> WellFormed(u)
    <2>1. (q.security = "reality" => q.pbk # "") <=>
              (u.query.security = "reality" => u.query.pbk # "")
      OBVIOUS
    <2>2. PortValid(v) <=> PortValid(u)
      BY <1>1 DEF PortValid
    <2>3. v.user # <<"">> <=> u.user # <<"">>
      BY <1>1
    <2>4. v.query.security \in Securities <=> u.query.security \in Securities
      BY <1>1
    <2> QED
      BY <1>1, <2>1, <2>2, <2>3, <2>4 DEF WellFormed
  <1>4. ShadowsocksInfo(v) = ShadowsocksInfo(u) /\ UserInfo(v) = UserInfo(u)
    <2>1. UserInfo(v) = UserInfo(u)
      BY <1>1 DEF UserInfo
    <2> QED
      BY <1>1, <2>1 DEF ShadowsocksInfo
  <1>5. Supported(v) <=> Supported(u)
    <2>1. TransportAllowed(v) <=> TransportAllowed(u)
      BY <1>1, <1>2 DEF TransportAllowed
    <2>2. ObfsComplete(v.query) <=> ObfsComplete(u.query)
      BY <1>1 DEF ObfsComplete
    <2>3. ShadowsocksKnown(v) <=> ShadowsocksKnown(u)
      BY <1>4 DEF ShadowsocksKnown
    <2> QED
      BY <1>2, <2>1, <2>2, <2>3 DEF Supported
  <1>6. Credentials(v) = Credentials(u)
    BY <1>1, <1>2, <1>4 DEF Credentials
  <1>7. Flow(v.query) = Flow(u.query)
    BY <1>1 DEF Flow
  <1> QED
    BY <1>1, <1>2, <1>3, <1>5, <1>6, <1>7, SameOutbound

\* The TLS of two queries that agree in what is asked about it.
LEMMA SameTls ==
    ASSUME NEW q, NEW r,
           q.security = r.security \/ {q.security, r.security} \cap {"tls", "reality"} = {},
           q.sni = r.sni, q.alpn = r.alpn, q.fp = r.fp, q.pbk = r.pbk, q.sid = r.sid,
           QueryBool(q, {"insecure", "allowInsecure"})
               <=> QueryBool(r, {"insecure", "allowInsecure"})
    PROVE  TlsFrom(q) = TlsFrom(r)
  <1>1. QueryBool(q, {"insecure", "allowInsecure"}) = QueryBool(r, {"insecure", "allowInsecure"})
    BY DEF QueryBool
  <1>2. CASE q.security = r.security
    BY <1>1, <1>2 DEF TlsFrom
  <1>3. CASE {q.security, r.security} \cap {"tls", "reality"} = {}
    BY <1>3 DEF TlsFrom
  <1> QED
    BY <1>2, <1>3

\* A default of the security spelled out.
LEMMA SecuritySpelling ==
    ASSUME NEW u \in Uri, u.query.security = "",
           NEW s, s = IF Type(u) \in Secure THEN "tls" ELSE "none"
    PROVE  ParseURI([u EXCEPT !.query.security = s]) = ParseURI(u)
  <1> DEFINE q == [u.query EXCEPT !.security = s]
             v == [u EXCEPT !.query = q]
  <1>1. /\ v.query = q /\ v.scheme = u.scheme
        /\ DOMAIN q = Query0 /\ q.security = s
        /\ \A p \in Query0 \ {"security"} : q[p] = u.query[p]
    BY UriAssumption DEF Query0
  <1>2. [u EXCEPT !.query.security = s] = v
    BY UriAssumption DEF Query0
  <1>8. v = [u EXCEPT !.query = q]
    OBVIOUS
  <1> HIDE DEF q, v
  <1>3. Type(v) = Type(u)
    BY <1>1 DEF Type
  <1>4. /\ Query(v).security = s
        /\ Query(u).security = IF Type(u) \in Secure THEN "tls" ELSE ""
        /\ \A p \in Query0 \ {"security"} : Query(v)[p] = Query(u)[p]
    <2>1. /\ Query(v).security = (IF Type(v) \in Secure /\ q.security = ""
                                  THEN "tls" ELSE q.security)
          /\ \A p \in Query0 \ {"security"} : Query(v)[p] = q[p]
      BY <1>1, QueryUsed
    <2>2. /\ Query(u).security = (IF Type(u) \in Secure /\ u.query.security = ""
                                  THEN "tls" ELSE u.query.security)
          /\ \A p \in Query0 \ {"security"} : Query(u)[p] = u.query[p]
      BY QueryUsed, UriAssumption
    <2> QED
      BY <1>1, <1>3, <2>1, <2>2
  <1>5. TlsFrom(Query(v)) = TlsFrom(Query(u))
    BY <1>4, SameTls DEF Query0, QueryBool
  <1>6. TransportFrom(q) = TransportFrom(u.query) /\ (TransportKnown(q) <=> TransportKnown(u.query))
    BY <1>1 DEF TransportFrom, TransportKnown, Query0
  <1>7. ParseURI(v) = ParseURI(u)
    <2>1. /\ q.obfs = u.query.obfs /\ q.obfsPassword = u.query.obfsPassword
          /\ q.flow = u.query.flow /\ q.pbk = u.query.pbk
          /\ q.plugin = u.query.plugin /\ q.network = u.query.network
      BY <1>1 DEF Query0
    <2>2. /\ q.security \in Securities <=> u.query.security \in Securities
          /\ q.security = "reality" <=> u.query.security = "reality"
      BY <1>1 DEF Query0, Securities
    <2>3. Query(v).security = "tls" <=> Query(u).security = "tls"
      BY <1>4
    <2> QED
      BY <1>5, <1>6, <1>8, <2>1, <2>2, <2>3, QuerySpelling
  <1> QED
    BY <1>2, <1>7

\* The two names of the parameter that turns verification off.
LEMMA InsecureSpelling ==
    ASSUME NEW u \in Uri
    PROVE  ParseURI([u EXCEPT !.query.insecure = u.query.allowInsecure,
                              !.query.allowInsecure = u.query.insecure]) = ParseURI(u)
  <1> DEFINE q == [u.query EXCEPT !.insecure = u.query.allowInsecure,
                                  !.allowInsecure = u.query.insecure]
             v == [u EXCEPT !.query = q]
  <1>1. /\ v.query = q /\ v.scheme = u.scheme
        /\ DOMAIN q = Query0
        /\ q.insecure = u.query.allowInsecure /\ q.allowInsecure = u.query.insecure
        /\ \A p \in Query0 \ {"insecure", "allowInsecure"} : q[p] = u.query[p]
    BY UriAssumption DEF Query0
  <1>2. [u EXCEPT !.query.insecure = u.query.allowInsecure,
                  !.query.allowInsecure = u.query.insecure] = v
    BY UriAssumption DEF Query0
  <1>8. v = [u EXCEPT !.query = q]
    OBVIOUS
  <1> HIDE DEF q, v
  <1>3. Type(v) = Type(u)
    BY <1>1 DEF Type
  <1>4. /\ Query(v).insecure = Query(u).allowInsecure
        /\ Query(v).allowInsecure = Query(u).insecure
        /\ \A p \in Query0 \ {"insecure", "allowInsecure"} : Query(v)[p] = Query(u)[p]
    <2>1. /\ Query(v).security = (IF Type(v) \in Secure /\ q.security = ""
                                  THEN "tls" ELSE q.security)
          /\ \A p \in Query0 \ {"security"} : Query(v)[p] = q[p]
      BY <1>1, QueryUsed
    <2>2. /\ Query(u).security = (IF Type(u) \in Secure /\ u.query.security = ""
                                  THEN "tls" ELSE u.query.security)
          /\ \A p \in Query0 \ {"security"} : Query(u)[p] = u.query[p]
      BY QueryUsed, UriAssumption
    <2> QED
      BY <1>1, <1>3, <2>1, <2>2 DEF Query0
  <1>5. TlsFrom(Query(v)) = TlsFrom(Query(u))
    BY <1>4, SameTls DEF Query0, QueryBool
  <1>6. TransportFrom(q) = TransportFrom(u.query) /\ (TransportKnown(q) <=> TransportKnown(u.query))
    BY <1>1 DEF TransportFrom, TransportKnown, Query0
  <1>7. ParseURI(v) = ParseURI(u)
    <2>1. /\ q.obfs = u.query.obfs /\ q.obfsPassword = u.query.obfsPassword
          /\ q.flow = u.query.flow /\ q.pbk = u.query.pbk
          /\ q.plugin = u.query.plugin /\ q.network = u.query.network
      BY <1>1 DEF Query0
    <2>2. /\ q.security \in Securities <=> u.query.security \in Securities
          /\ q.security = "reality" <=> u.query.security = "reality"
      BY <1>1 DEF Query0
    <2>3. Query(v).security = "tls" <=> Query(u).security = "tls"
      BY <1>4 DEF Query0
    <2> QED
      BY <1>5, <1>6, <1>8, <2>1, <2>2, <2>3, QuerySpelling
  <1> QED
    BY <1>2, <1>7

\* The default transport spelled out.
LEMMA TransportSpelling ==
    ASSUME NEW u \in Uri, u.query.type = ""
    PROVE  ParseURI([u EXCEPT !.query.type = "tcp"]) = ParseURI(u)
  <1> DEFINE q == [u.query EXCEPT !.type = "tcp"]
             v == [u EXCEPT !.query = q]
  <1>1. /\ v.query = q /\ v.scheme = u.scheme
        /\ DOMAIN q = Query0 /\ q.type = "tcp"
        /\ \A p \in Query0 \ {"type"} : q[p] = u.query[p]
    BY UriAssumption DEF Query0
  <1>2. [u EXCEPT !.query.type = "tcp"] = v
    BY UriAssumption DEF Query0
  <1>8. v = [u EXCEPT !.query = q]
    OBVIOUS
  <1> HIDE DEF q, v
  <1>3. Type(v) = Type(u)
    BY <1>1 DEF Type
  <1>4. \A p \in Query0 \ {"type"} : Query(v)[p] = Query(u)[p]
    <2>1. /\ Query(v).security = (IF Type(v) \in Secure /\ q.security = ""
                                  THEN "tls" ELSE q.security)
          /\ \A p \in Query0 \ {"security"} : Query(v)[p] = q[p]
      BY <1>1, QueryUsed
    <2>2. /\ Query(u).security = (IF Type(u) \in Secure /\ u.query.security = ""
                                  THEN "tls" ELSE u.query.security)
          /\ \A p \in Query0 \ {"security"} : Query(u)[p] = u.query[p]
      BY QueryUsed, UriAssumption
    <2> QED
      BY <1>1, <1>3, <2>1, <2>2 DEF Query0
  <1>5. TlsFrom(Query(v)) = TlsFrom(Query(u))
    BY <1>4, SameTls DEF Query0, QueryBool
  <1>6. TransportFrom(q) = TransportFrom(u.query) /\ (TransportKnown(q) <=> TransportKnown(u.query))
    BY <1>1 DEF TransportFrom, TransportKnown
  <1>7. ParseURI(v) = ParseURI(u)
    <2>1. /\ q.obfs = u.query.obfs /\ q.obfsPassword = u.query.obfsPassword
          /\ q.flow = u.query.flow /\ q.pbk = u.query.pbk
          /\ q.plugin = u.query.plugin /\ q.network = u.query.network
      BY <1>1 DEF Query0
    <2>2. /\ q.security \in Securities <=> u.query.security \in Securities
          /\ q.security = "reality" <=> u.query.security = "reality"
      BY <1>1 DEF Query0
    <2>3. Query(v).security = "tls" <=> Query(u).security = "tls"
      BY <1>4 DEF Query0
    <2> QED
      BY <1>5, <1>6, <1>8, <2>1, <2>2, <2>3, QuerySpelling
  <1> QED
    BY <1>2, <1>7

\* Credentials in base64 (main.go:332-338).
LEMMA Base64Spelling ==
    ASSUME NEW u \in Uri, Type(u) = "shadowsocks", Len(UserInfo(u)) > 1,
           NEW x \in Base64, Decoded[x] = UserInfo(u)
    PROVE  ParseURI([u EXCEPT !.user = <<x>>, !.password = << >>]) = ParseURI(u)
  <1> DEFINE v == [u EXCEPT !.user = <<x>>, !.password = << >>]
  <1>1. /\ v.scheme = u.scheme /\ (v.malformed <=> u.malformed) /\ v.host = u.host
        /\ v.port = u.port /\ v.query = u.query
        /\ v.user = <<x>> /\ v.password = << >>
    BY UriAssumption
  <1> HIDE DEF v
  <1>2. x # ""
    <2>1. Len(<<"">>) = 1 /\ ~(1 > 1)
      OBVIOUS
    <2> QED
      BY <2>1, Base64Assumption, Zenon
  <1>3. Type(v) = Type(u) /\ Query(v) = Query(u)
    BY <1>1 DEF Type, Query
  <1>4. ShadowsocksInfo(v) = UserInfo(u) /\ ShadowsocksInfo(u) = UserInfo(u)
    <2>1. UserInfo(v) = <<x>> /\ v.user[1] = x
      BY <1>1, ConcatEmptySeq DEF UserInfo
    <2>2. ~(Len(UserInfo(v)) > 1)
      <3>1. Len(<<x>>) = 1 /\ ~(1 > 1)
        OBVIOUS
      <3> QED
        BY <2>1, <3>1, Zenon
    <2> QED
      BY <2>1, <2>2 DEF ShadowsocksInfo
  <1>5. Supported(v) <=> Supported(u)
    <2>1. TransportAllowed(v) <=> TransportAllowed(u)
      BY <1>1, <1>3 DEF TransportAllowed
    <2>2. ShadowsocksKnown(v) <=> ShadowsocksKnown(u)
      BY <1>4 DEF ShadowsocksKnown
    <2> QED
      BY <1>1, <1>3, <2>1, <2>2 DEF Supported
  <1>6. Supported(u) => u.user # <<"">>
    <2> SUFFICES ASSUME u.user = <<"">>, Supported(u) PROVE FALSE
      OBVIOUS
    <2>1. UserInfo(u)[1] = ""
      <3>1. u.user \in Seq(Piece) /\ u.user # << >> /\ u.password \in Seq(Piece)
        BY UriAssumption
      <3>2. UserInfo(u)[1] = u.user[1]
        BY <3>1, ConcatHead DEF UserInfo
      <3>3. <<"">>[1] = ""
        OBVIOUS
      <3> QED
        BY <3>2, <3>3, Zenon
    <2>2. UserInfo(u)[1] \in Methods
      BY <1>4 DEF Supported, ShadowsocksKnown
    <2> QED
      BY <2>1, <2>2 DEF Methods
  <1>7. ASSUME Supported(u) PROVE WellFormed(v) <=> WellFormed(u)
    <2>1. PortValid(v) <=> PortValid(u)
      BY <1>1 DEF PortValid
    <2>2. v.user # <<"">> /\ u.user # <<"">>
      <3>1. <<x>>[1] = x /\ <<"">>[1] = ""
        OBVIOUS
      <3>2. <<x>> # <<"">>
        BY <1>2, <3>1, Zenon
      <3> QED
        BY <1>1, <1>6, <1>7, <3>2
    <2> QED
      BY <1>1, <2>1, <2>2 DEF WellFormed
  <1>8. ParseURI(v) = ParseURI(u)
    <2>1. CASE Supported(u)
      <3>1. Credentials(v) = Credentials(u)
        BY <1>3, <1>4 DEF Credentials
      <3>2. WellFormed(v) <=> WellFormed(u)
        BY <1>7, <2>1
      <3> QED
        BY <1>1, <1>3, <1>5, <2>1, <3>1, <3>2, SameOutbound
    <2>2. CASE ~Supported(u)
      BY <1>5, <2>2, Refused
    <2> QED
      BY <2>1, <2>2
  <1> QED
    BY <1>8 DEF v

\* Every spelling of a node has the node's outbound, or none if the node has
\* none (main.go:301-358).
LEMMA SpellingsAlike ==
    ASSUME NEW u \in Uri, NEW other \in Respelled(u)
    PROVE  ParseURI(other) = ParseURI(u)
  <1>1. CASE other \in {[u EXCEPT !.scheme = s] :
                s \in IF Type(u) = "hysteria2" THEN {"hy2", "hysteria2"} ELSE {u.scheme}}
    BY <1>1, SchemeSpelling
  <1>2. CASE other \in {[u EXCEPT !.query.security = s] :
                s \in IF u.query.security # "" THEN {}
                      ELSE IF Type(u) \in Secure THEN {"tls"} ELSE {"none"}}
    BY <1>2, SecuritySpelling
  <1>3. CASE other = [u EXCEPT !.query.insecure = u.query.allowInsecure,
                               !.query.allowInsecure = u.query.insecure]
    BY <1>3, InsecureSpelling
  <1>4. CASE other \in {[u EXCEPT !.query.type = t] :
                t \in IF u.query.type = "" THEN {"tcp"} ELSE {}}
    BY <1>4, TransportSpelling
  <1>5. CASE other \in {[u EXCEPT !.user = <<x>>, !.password = << >>] :
                x \in {y \in Base64 : /\ Type(u) = "shadowsocks" /\ Len(UserInfo(u)) > 1
                                      /\ Decoded[y] = UserInfo(u)}}
    BY <1>5, Base64Spelling
  <1> QED
    BY <1>1, <1>2, <1>3, <1>4, <1>5 DEF Respelled

-----------------------------------------------------------------------------
\* The nodes of a snapshot are URIs.
LEMMA NodesTyped ==
    ASSUME TypeOK
    PROVE  /\ nodes \in Seq(Uri) /\ Len(nodes) \in Nat /\ DOMAIN nodes = 1 .. Len(nodes)
           /\ \A k \in 1 .. Len(nodes) : nodes[k] \in Uri
           /\ index \in Nat /\ index <= Len(nodes)
  <1>1. nodes \in Seq(Uri)
    BY NodesAssumption DEF TypeOK
  <1>2. /\ Len(nodes) \in Nat /\ DOMAIN nodes = 1 .. Len(nodes)
        /\ \A k \in 1 .. Len(nodes) : nodes[k] \in Uri
    BY <1>1, LenProperties, ElementOfSeq
  <1> QED
    BY <1>1, <1>2 DEF TypeOK

\* The outbounds generated are a sequence of records.
LEMMA OutboundsTyped ==
    ASSUME TypeOK
    PROVE  Len(outbounds) \in Nat /\ DOMAIN outbounds = 1 .. Len(outbounds)
  BY LenProperties DEF TypeOK

\* The tags of two places differ.
LEMMA TagInjective ==
    ASSUME NEW j, NEW k, Tag(j) = Tag(k) PROVE j = k
  <1>1. Tag(j)[2] = j /\ Tag(k)[2] = k
    BY DEF Tag
  <1> QED
    BY <1>1

\* A run begins with nothing generated.
LEMMA InitInv == Init => Inv
  <1> SUFFICES ASSUME Init PROVE Inv
    OBVIOUS
  <1>1. TypeOK
    <2>1. nodes \in Seq(Uri)
      BY NodesAssumption DEF Init
    <2>2. Len(nodes) \in Nat
      BY <2>1, LenProperties
    <2> QED
      BY <2>2 DEF Init, TypeOK
  <1> QED
    BY <1>1 DEF Inv, Init, Fresh, FromNodes, Represented, Taken, Refusal, Finished

\* A base with distinct tags begins the loop (shadow.go:185-208).
LEMMA ReadBaseStep == Inv /\ ReadBase => Inv'
  <1> SUFFICES ASSUME Inv, ReadBase PROVE Inv'
    OBVIOUS
  <1> USE DEF Inv, ReadBase
  <1>1. index = 0 /\ outbounds = << >> /\ seen = {}
    BY DEF Fresh
  <1>2. TypeOK'
    BY DEF TypeOK, Made
  <1>3. Fresh' /\ FromNodes' /\ Represented' /\ Finished'
    BY <1>1 DEF Fresh, FromNodes, Represented, Finished
  <1>4. Taken'
    BY <1>1 DEF Taken, Distinct
  <1>5. Refusal'
    BY DEF Refusal, Distinct
  <1> QED
    BY <1>2, <1>3, <1>4, <1>5

\* After the last node the candidate is put together (shadow.go:231-238).
LEMMA AssembleStep == Inv /\ Assemble => Inv'
  <1> SUFFICES ASSUME Inv, Assemble PROVE Inv'
    OBVIOUS
  <1> USE DEF Inv, Assemble
  <1>1. TypeOK'
    BY DEF TypeOK, Made
  <1>2. Fresh' /\ FromNodes' /\ Represented'
    BY DEF Fresh, FromNodes, Represented
  <1>3. Taken' /\ Refusal'
    BY DEF Taken, Refusal, Distinct
  <1>4. Finished'
    BY DEF Finished, Led, GeneratedTags
  <1> QED
    BY <1>1, <1>2, <1>3, <1>4

\* A node that cannot be used, or whose tag is not free, refuses the snapshot.
LEMMA RefuseStep ==
    ASSUME Inv, Node, ~(Usable(nodes[index + 1]) /\ TagFree(Tag(index + 1)))
    PROVE  Inv'
  <1> USE DEF Inv
  <1>1. /\ pc = "node" /\ index < Len(nodes) /\ pc' = "refused" /\ index' = index + 1
        /\ UNCHANGED <<base, nodes, candidate, tags, seen, outbounds>>
    BY DEF Node
  <1>2. index \in Nat /\ Len(nodes) \in Nat /\ DOMAIN nodes = 1 .. Len(nodes)
    BY NodesTyped
  <1>3. TypeOK'
    BY <1>1, <1>2 DEF TypeOK, Made
  <1>4. FromNodes'
    BY <1>1, <1>2 DEF FromNodes
  <1>5. Refusal'
    <2>1. CASE ~Usable(nodes[index + 1])
      BY <1>1, <1>2, <2>1 DEF Refusal, Usable
    <2>2. CASE Tag(index + 1) \in tags
      <3>1. Tag(index + 1) \notin {Tag(k) : k \in 1 .. index}
        BY <1>2, TagInjective
      <3>2. \E j \in DOMAIN base : base[j].tag = Tag(index + 1)
        BY <1>1, <2>2, <3>1 DEF Taken
      <3> QED
        BY <1>1, <1>2, <3>2 DEF Refusal
    <2> QED
      BY <2>1, <2>2 DEF TagFree
  <1> QED
    BY <1>1, <1>3, <1>4, <1>5 DEF Fresh, Represented, Taken, Finished

\* A node that can be used is generated, or is one that has been seen.
LEMMA AcceptStep ==
    ASSUME Inv, Node, Usable(nodes[index + 1]), TagFree(Tag(index + 1))
    PROVE  Inv'
  <1> DEFINE node == ParseNode(nodes[index + 1])
             made == [tag |-> Tag(index + 1), item |-> node]
  <1> USE DEF Inv
  <1>1. /\ pc = "node" /\ index < Len(nodes) /\ pc' = "node" /\ index' = index + 1
        /\ tags' = tags \cup {Tag(index + 1)} /\ seen' = seen \cup {node}
        /\ outbounds' = IF node \notin seen THEN Append(outbounds, made) ELSE outbounds
        /\ UNCHANGED <<base, nodes, candidate>>
    BY DEF Node, New
  <1>2. /\ index \in Nat /\ Len(nodes) \in Nat /\ DOMAIN nodes = 1 .. Len(nodes)
        /\ Len(outbounds) \in Nat /\ DOMAIN outbounds = 1 .. Len(outbounds)
    BY NodesTyped, OutboundsTyped
  <1>3. made \in Made /\ node # Unparsable
    BY <1>1, <1>2 DEF Made, Usable
  <1> HIDE DEF node
  <1>4. TypeOK'
    <2>1. outbounds' \in Seq(Made)
      BY <1>1, <1>3, AppendProperties DEF TypeOK
    <2>2. Made' = Made
      BY <1>1 DEF Made
    <2> QED
      BY <1>1, <1>2, <2>1, <2>2 DEF TypeOK
  <1>5. \* The tag is new among the outbounds and to the base.
        /\ \A j \in DOMAIN outbounds : outbounds[j].tag # made.tag
        /\ \A k \in DOMAIN base : base[k].tag # made.tag
    <2>1. \A j \in DOMAIN outbounds : outbounds[j].tag \in {Tag(k) : k \in 1 .. index}
      BY DEF FromNodes
    <2> QED
      BY <1>1, <2>1 DEF Taken, TagFree
  <1>6. CASE node \in seen
    <2>1. outbounds' = outbounds
      BY <1>1, <1>6
    <2>2. FromNodes'
      <3>1. \A k \in 1 .. index : k \in 1 .. index'
        BY <1>1, <1>2
      <3>2. \A j \in DOMAIN outbounds : \E k \in 1 .. index' :
                /\ outbounds[j] = [tag |-> Tag(k), item |-> ParseNode(nodes[k])]
                /\ Usable(nodes[k])
        BY <3>1 DEF FromNodes
      <3> QED
        BY <1>1, <2>1, <3>2 DEF FromNodes
    <2>3. Represented'
      BY <1>1, <1>2, <1>6, <2>1 DEF Represented, node
    <2>4. Taken'
      <3>1. tags' = {base[k].tag : k \in DOMAIN base} \cup {Tag(k) : k \in 1 .. index'}
        BY <1>1, <1>2 DEF Taken
      <3> QED
        BY <1>1, <2>1, <3>1 DEF Taken, Distinct
    <2> QED
      BY <1>1, <1>4, <2>2, <2>3, <2>4 DEF Fresh, Refusal, Finished
  <1>7. CASE node \notin seen
    <2> DEFINE last == Len(outbounds) + 1
    <2>1. /\ DOMAIN outbounds' = 1 .. last /\ last \in DOMAIN outbounds'
          /\ outbounds'[last] = made
          /\ \A j \in DOMAIN outbounds : j \in DOMAIN outbounds' /\ outbounds'[j] = outbounds[j]
          /\ \A j \in DOMAIN outbounds' : j \in DOMAIN outbounds \/ j = last
      <3>1. outbounds' = Append(outbounds, made) /\ outbounds \in Seq(Made)
        BY <1>1, <1>7 DEF TypeOK
      <3> QED
        BY <1>2, <1>3, <3>1, AppendProperties, LenProperties
    <2> HIDE DEF last, made
    <2>2. FromNodes'
      <3>1. ASSUME NEW j \in DOMAIN outbounds'
            PROVE  \E k \in 1 .. index' :
                      /\ outbounds'[j] = [tag |-> Tag(k), item |-> ParseNode(nodes'[k])]
                      /\ Usable(nodes'[k])
        <4>1. CASE j \in DOMAIN outbounds
          BY <1>1, <1>2, <2>1, <4>1 DEF FromNodes
        <4>2. CASE j = last
          BY <1>1, <1>2, <2>1, <4>2 DEF made, node
        <4> QED
          BY <2>1, <4>1, <4>2
      <3>2. \A i, j \in DOMAIN outbounds' : i # j => outbounds'[i].tag # outbounds'[j].tag
        BY <1>5, <2>1 DEF FromNodes
      <3> QED
        BY <3>1, <3>2 DEF FromNodes
    <2>3. Represented'
      <3>1. made.item = node
        BY DEF made
      <3>2. \A k \in 1 .. index' : k \in 1 .. index \/ k = index + 1
        BY <1>1, <1>2
      <3> QED
        BY <1>1, <2>1, <3>1, <3>2 DEF Represented, node
    <2>4. Taken'
      <3>1. tags' = {base[k].tag : k \in DOMAIN base} \cup {Tag(k) : k \in 1 .. index'}
        BY <1>1, <1>2 DEF Taken
      <3> QED
        BY <1>1, <1>5, <2>1, <3>1 DEF Taken, Distinct
    <2> QED
      BY <1>1, <1>4, <2>2, <2>3, <2>4 DEF Fresh, Refusal, Finished
  <1> QED
    BY <1>6, <1>7

\* The loop keeps Inv, for any snapshot and any base configuration.
THEOREM Invariance == Spec => []Inv
  <1>1. Inv /\ [Next]_vars => Inv'
    <2>1. Inv /\ Node => Inv'
      BY RefuseStep, AcceptStep
    <2>2. Inv /\ UNCHANGED vars => Inv'
      <3> SUFFICES ASSUME Inv, UNCHANGED vars PROVE Inv'
        OBVIOUS
      <3> USE DEF Inv, vars
      <3>1. TypeOK' /\ Fresh' /\ Refusal'
        BY DEF TypeOK, Made, Fresh, Refusal, Distinct
      <3>2. FromNodes' /\ Represented'
        BY DEF FromNodes, Represented
      <3>3. Taken'
        BY DEF Taken, Distinct
      <3>4. Finished'
        BY DEF Finished, Led, GeneratedTags
      <3> QED
        BY <3>1, <3>2, <3>3, <3>4
    <2> QED
      BY <2>1, <2>2, ReadBaseStep, AssembleStep DEF Next
  <1> QED
    BY <1>1, InitInv, PTL DEF Spec

-----------------------------------------------------------------------------
\* The URI an outbound was made of.
LEMMA OriginKnown ==
    ASSUME Inv, NEW j \in DOMAIN outbounds
    PROVE  /\ Origin(outbounds[j]) \in Uri
           /\ outbounds[j].item = ParseURI(Origin(outbounds[j]))
           /\ outbounds[j].item # Unparsable
  <1>1. PICK k \in 1 .. index :
            /\ outbounds[j] = [tag |-> Tag(k), item |-> ParseNode(nodes[k])]
            /\ Usable(nodes[k])
    BY DEF Inv, FromNodes
  <1>2. Origin(outbounds[j]) = nodes[k]
    BY <1>1 DEF Origin, Tag
  <1>3. nodes[k] \in Uri
    BY NodesTyped DEF Inv
  <1> QED
    BY <1>1, <1>2, <1>3 DEF ParseNode, Usable

\* Nothing a URI asks for is dropped on the way, and what cannot be had makes
\* the node unusable (main.go:196-229, 262-367).
THEOREM NothingIsDropped == Spec => []AsAsked
  <1> DEFINE Kept(u, item) ==
               /\ Demands(u) \ {"insecure"} = Offers(item) \ {"insecure"}
               /\ "insecure" \in Offers(item) => "insecure" \in Demands(u)
               /\ item.tls.reality.key # "" => item.tls.reality.key = u.query.pbk
               /\ item.port \in 1 .. MaxPort
               /\ item.type \in Secure => item.tls.enabled
               /\ item.type # "vless" => item.flow = ""
               /\ item.type # "hysteria2" => item.obfs = ""
  <1>1. ASSUME Inv, NEW j \in DOMAIN outbounds,
               NEW u, u = Origin(outbounds[j]), NEW item, item = outbounds[j].item
        PROVE  Kept(u, item)
    <2>1. u \in Uri /\ item = ParseURI(u) /\ item # Unparsable
      BY <1>1, OriginKnown
    <2>2. WellFormed(u) /\ Supported(u)
      BY <2>1, Accepted
    <2>3. /\ item.type = Type(u) /\ item.port = u.port /\ item.tls = TlsFrom(Query(u))
          /\ item.flow = (IF Type(u) = "vless" THEN Flow(u.query) ELSE "")
          /\ item.obfs = (IF Type(u) = "hysteria2" /\ u.query.obfs = "salamander"
                          THEN u.query.obfsPassword ELSE "")
      BY <2>1, Accepted
    <2>4. /\ Demands(u) \ {"insecure"} = Offers(item) \ {"insecure"}
          /\ "insecure" \in Offers(item) => "insecure" \in Demands(u)
      BY <2>1, OfferedAsDemanded
    <2>5. item.tls.reality.key # "" => item.tls.reality.key = u.query.pbk
      BY <2>1, <2>2, <2>3, TlsAsAsked
    <2>6. item.type \in Secure => item.tls.enabled
      <3>1. Type(u) \in Secure => Query(u).security = "tls"
        BY <2>2 DEF Supported, Secure
      <3>2. Query(u).security = "tls" => TlsFrom(Query(u)).enabled
        BY DEF TlsFrom
      <3> QED
        BY <2>3, <3>1, <3>2
    <2>7. item.port \in 1 .. MaxPort
      BY <2>2, <2>3 DEF WellFormed, PortValid
    <2>8. /\ item.type # "vless" => item.flow = ""
          /\ item.type # "hysteria2" => item.obfs = ""
      BY <2>3
    <2> QED
      BY <2>4, <2>5, <2>6, <2>7, <2>8
  <1>2. AsAsked <=> \A j \in DOMAIN outbounds : Kept(Origin(outbounds[j]), outbounds[j].item)
    BY DEF AsAsked
  <1> HIDE DEF Kept
  <1>3. Inv => AsAsked
    BY <1>1, <1>2
  <1> QED
    BY <1>3, Invariance, PTL

\* Two URIs are merged exactly if they are one node (main.go:514-525;
\* shadow.go:221-227).
THEOREM MergedAreSame == Spec => []MergedIffSame
  <1>1. Inv => MergedMeansSame
    <2> SUFFICES ASSUME Inv, NEW j \in DOMAIN outbounds, NEW v \in Uri,
                        Outbounds[v] = outbounds[j].item,
                        NEW u, u = Origin(outbounds[j])
                 PROVE  /\ Type(v) = Type(u)
                        /\ v.host = u.host /\ v.port = u.port
                        /\ Identity(v) = Identity(u)
                        /\ Demands(v) \ {"insecure"} = Demands(u) \ {"insecure"}
      BY DEF MergedMeansSame
    <2>1. u \in Uri /\ ParseURI(u) = outbounds[j].item /\ ParseURI(u) # Unparsable
      BY OriginKnown
    <2>2. ParseURI(v) = ParseURI(u)
      BY <2>1 DEF Outbounds, ParseNode
    <2> QED
      BY <2>1, <2>2, EqualOutbounds
  <1>2. Inv => SpellingsMerge
    <2> SUFFICES ASSUME Inv, index > 0, NEW other \in Respelled(nodes[index])
                 PROVE  ParseURI(other) = ParseURI(nodes[index])
      BY DEF SpellingsMerge, ParseNode
    <2>1. nodes[index] \in Uri
      BY NodesTyped DEF Inv
    <2> QED
      BY <2>1, SpellingsAlike
  <1> QED
    BY <1>1, <1>2, Invariance, PTL DEF MergedIffSame

-----------------------------------------------------------------------------
\* A function on an initial segment of the numbers is a sequence.
LEMMA FunctionIsSeq ==
    ASSUME NEW T, NEW n \in Nat, NEW f \in [1 .. n -> T]
    PROVE  f \in Seq(T)
  BY SeqDef

\* The base in use is a sequence of outbounds.
LEMMA BaseTyped ==
    ASSUME Inv, pc = "built"
    PROVE  /\ base # NoBase /\ Distinct(base)
           /\ Len(base) \in Nat /\ DOMAIN base = 1 .. Len(base)
           /\ \A k \in 1 .. Len(base) : base[k] \in [tag : BaseTag, members : Seq(BaseTag)]
  <1> DEFINE S == [tag : BaseTag, members : Seq(BaseTag)]
  <1>1. base # NoBase /\ Distinct(base)
    BY DEF Inv, Taken
  <1>2. base \in Seq(S)
    BY <1>1, BasesAssumption DEF Inv, TypeOK
  <1> HIDE DEF S
  <1>3. /\ Len(base) \in Nat /\ DOMAIN base = 1 .. Len(base)
        /\ \A k \in 1 .. Len(base) : base[k] \in S
    BY <1>2, LenProperties, ElementOfSeq
  <1> QED
    BY <1>1, <1>3 DEF S

\* A candidate is the base, with its tags and its number, and the generated
\* outbounds behind it.
LEMMA Assembled ==
    ASSUME Inv, pc = "built"
    PROVE  /\ DOMAIN candidate = 1 .. Len(base) + Len(outbounds)
           /\ \A k \in 1 .. Len(base) :
                 candidate[k] = Led[k] /\ candidate[k].tag = base[k].tag
           /\ \A k \in 1 .. Len(base) :
                 base[k].tag \in Groups =>
                     candidate[k].members = GeneratedTags \o base[k].members
           /\ \A k \in 1 .. Len(outbounds) : candidate[Len(base) + k] = outbounds[k]
  <1> DEFINE T == {Led[k] : k \in DOMAIN Led} \cup {outbounds[k] : k \in DOMAIN outbounds}
  <1>1. Len(outbounds) \in Nat /\ DOMAIN outbounds = 1 .. Len(outbounds)
    BY OutboundsTyped DEF Inv
  <1>2. \A k \in 1 .. Len(base) :
           /\ Led[k].tag = base[k].tag
           /\ base[k].tag \in Groups => Led[k].members = GeneratedTags \o base[k].members
    BY BaseTyped DEF Led, Members
  <1>3. Led = [k \in 1 .. Len(base) |-> Led[k]] /\ DOMAIN Led = 1 .. Len(base)
    BY BaseTyped DEF Led
  <1>4. Led \in Seq(T) /\ Len(Led) = Len(base)
    <2>1. \A k \in 1 .. Len(base) : Led[k] \in T
      BY <1>3
    <2> HIDE DEF T
    <2>2. Led \in [1 .. Len(base) -> T]
      BY <1>3, <2>1
    <2>3. Led \in Seq(T)
      BY <2>2, BaseTyped, FunctionIsSeq
    <2> QED
      BY <1>3, <2>3, BaseTyped, LenProperties
  <1>5. outbounds \in Seq(T)
    <2>1. outbounds \in [1 .. Len(outbounds) -> Made]
      BY LenProperties DEF Inv, TypeOK
    <2>2. \A k \in 1 .. Len(outbounds) : outbounds[k] \in T
      BY <1>1
    <2> HIDE DEF T
    <2>3. outbounds \in [1 .. Len(outbounds) -> T]
      BY <2>1, <2>2
    <2> QED
      BY <1>1, <2>3, FunctionIsSeq
  <1> HIDE DEF T
  <1>6. /\ candidate \in Seq(T) /\ Len(candidate) = Len(base) + Len(outbounds)
        /\ \A i \in 1 .. Len(base) + Len(outbounds) :
              candidate[i] = IF i <= Len(base) THEN Led[i] ELSE outbounds[i - Len(base)]
    <2>1. candidate = Led \o outbounds
      BY DEF Inv, Finished
    <2>2. /\ Led \o outbounds \in Seq(T)
          /\ Len(Led \o outbounds) = Len(Led) + Len(outbounds)
          /\ \A i \in 1 .. Len(Led) + Len(outbounds) :
                (Led \o outbounds)[i] = IF i <= Len(Led) THEN Led[i]
                                        ELSE outbounds[i - Len(Led)]
      BY <1>4, <1>5, ConcatProperties
    <2> QED
      BY <1>4, <2>1, <2>2
  <1>7. DOMAIN candidate = 1 .. Len(base) + Len(outbounds)
    BY <1>6, LenProperties
  <1>8. \A k \in 1 .. Len(base) : candidate[k] = Led[k]
    BY <1>1, <1>6, BaseTyped
  <1>9. ASSUME NEW k \in 1 .. Len(outbounds) PROVE candidate[Len(base) + k] = outbounds[k]
    <2>1. /\ Len(base) + k \in 1 .. Len(base) + Len(outbounds)
          /\ ~(Len(base) + k <= Len(base)) /\ (Len(base) + k) - Len(base) = k
      BY <1>1, BaseTyped
    <2> QED
      BY <1>6, <2>1
  <1> QED
    BY <1>2, <1>7, <1>8, <1>9

\* The whole snapshot or nothing (shadow.go:189-220).
LEMMA WholeOrNothing == Inv => AllOrNothing
  <1> SUFFICES ASSUME Inv PROVE AllOrNothing
    OBVIOUS
  <1>1. ASSUME pc = "built", NEW k \in DOMAIN nodes
        PROVE  \E j \in DOMAIN outbounds : outbounds[j].item = ParseNode(nodes[k])
    <2>1. k \in 1 .. index
      BY <1>1, NodesTyped DEF Inv, Finished
    <2> QED
      BY <1>1, <2>1 DEF Inv, Represented
  <1> QED
    BY <1>1 DEF Inv, Refusal, AllOrNothing

\* No two outbounds of a candidate have one tag (shadow.go:197-208, 217-220).
LEMMA CandidateDistinct == ASSUME Inv, pc = "built" PROVE Distinct(candidate)
  <1>1. /\ \A j, k \in DOMAIN outbounds : j # k => outbounds[j].tag # outbounds[k].tag
        /\ \A j \in DOMAIN outbounds, k \in DOMAIN base : outbounds[j].tag # base[k].tag
    BY DEF Inv, FromNodes, Taken
  <1>2. DOMAIN outbounds = 1 .. Len(outbounds) /\ Len(outbounds) \in Nat
    BY OutboundsTyped DEF Inv
  <1> SUFFICES ASSUME NEW j \in DOMAIN candidate, NEW k \in DOMAIN candidate,
                      j # k, candidate[j].tag = candidate[k].tag
               PROVE  candidate[j].tag = NoTag
    BY DEF Distinct
  <1>3. \A i \in DOMAIN candidate :
           \/ i \in 1 .. Len(base) /\ candidate[i].tag = base[i].tag
           \/ \E m \in 1 .. Len(outbounds) : i = Len(base) + m /\ candidate[i] = outbounds[m]
    <2> SUFFICES ASSUME NEW i \in DOMAIN candidate, i \notin 1 .. Len(base)
                 PROVE  \E m \in 1 .. Len(outbounds) :
                           i = Len(base) + m /\ candidate[i] = outbounds[m]
      BY Assembled
    <2>1. i - Len(base) \in 1 .. Len(outbounds) /\ i = Len(base) + (i - Len(base))
      BY <1>2, Assembled, BaseTyped
    <2> QED
      BY <2>1, Assembled
  <1>4. j \in 1 .. Len(base) /\ k \in 1 .. Len(base)
    <2>1. /\ \A i \in 1 .. Len(base), m \in 1 .. Len(outbounds) : base[i].tag # outbounds[m].tag
          /\ \A i, m \in 1 .. Len(outbounds) : outbounds[i].tag = outbounds[m].tag => i = m
      BY <1>1, <1>2, BaseTyped
    <2>2. ASSUME NEW i \in DOMAIN candidate, NEW m \in DOMAIN candidate,
                 i \in 1 .. Len(base), candidate[i].tag = candidate[m].tag
          PROVE  m \in 1 .. Len(base)
      <3> SUFFICES ASSUME m \notin 1 .. Len(base) PROVE FALSE
        OBVIOUS
      <3>1. PICK n \in 1 .. Len(outbounds) : candidate[m] = outbounds[n]
        BY <1>3, Zenon
      <3>2. candidate[i].tag = base[i].tag
        <4>1. ~ \E n2 \in 1 .. Len(outbounds) : i = Len(base) + n2
          BY <1>2, <2>2, BaseTyped
        <4> QED
          BY <1>3, <4>1, Zenon
      <3>3. base[i].tag = outbounds[n].tag
        BY <2>2, <3>1, <3>2
      <3> QED
        BY <2>1, <2>2, <3>3, Zenon
    <2>3. j \in 1 .. Len(base) <=> k \in 1 .. Len(base)
      BY <2>2
    <2>4. CASE j \notin 1 .. Len(base) /\ k \notin 1 .. Len(base)
      <3>1. PICK i \in 1 .. Len(outbounds) :
                  j = Len(base) + i /\ candidate[j] = outbounds[i]
        BY <1>3, <2>4, Zenon
      <3>2. PICK m \in 1 .. Len(outbounds) :
                  k = Len(base) + m /\ candidate[k] = outbounds[m]
        BY <1>3, <2>4, Zenon
      <3>3. outbounds[i].tag = outbounds[m].tag
        BY <3>1, <3>2
      <3>4. i = m
        BY <2>1, <3>3, Zenon
      <3> QED
        BY <3>1, <3>2, <3>4
    <2> QED
      BY <2>3, <2>4
  <1> QED
    BY <1>4, Assembled, BaseTyped DEF Distinct

\* What the members of a group are: the generated tags, then the base's.
LEMMA GroupMembers ==
    ASSUME Inv, pc = "built", NEW k \in DOMAIN base, base[k].tag \in Groups
    PROVE  /\ Len(base[k].members) \in Nat
           /\ DOMAIN base[k].members = 1 .. Len(base[k].members)
           /\ DOMAIN candidate[k].members = 1 .. Len(outbounds) + Len(base[k].members)
           /\ \A j \in 1 .. Len(outbounds) + Len(base[k].members) :
                 candidate[k].members[j] = IF j <= Len(outbounds) THEN outbounds[j].tag
                                           ELSE base[k].members[j - Len(outbounds)]
  <1>1. DOMAIN outbounds = 1 .. Len(outbounds) /\ Len(outbounds) \in Nat
    BY OutboundsTyped DEF Inv
  <1>2. /\ Len(GeneratedTags) = Len(outbounds)
        /\ \A i \in 1 .. Len(outbounds) : GeneratedTags[i] = outbounds[i].tag
    BY <1>1 DEF GeneratedTags
  <1>3. k \in 1 .. Len(base)
    BY BaseTyped
  <1>4. base[k].members \in Seq(BaseTag)
    BY <1>3, BaseTyped
  <1>5. Len(base[k].members) \in Nat /\ DOMAIN base[k].members = 1 .. Len(base[k].members)
    BY <1>4, LenProperties
  <1>6. candidate[k].members = GeneratedTags \o base[k].members
    BY <1>3, Assembled
  <1>7. /\ Len(GeneratedTags \o base[k].members) = Len(outbounds) + Len(base[k].members)
        /\ \A j \in 1 .. Len(outbounds) + Len(base[k].members) :
              (GeneratedTags \o base[k].members)[j] =
                  IF j <= Len(outbounds) THEN outbounds[j].tag
                  ELSE base[k].members[j - Len(outbounds)]
    BY <1>1, <1>2, <1>5
  <1> QED
    BY <1>1, <1>5, <1>6, <1>7

\* The members of a group are outbounds or the base's, and all generated
\* outbounds are among them (shadow.go:231-237).
LEMMA MembersResolve ==
    ASSUME Inv, pc = "built", NEW k \in DOMAIN base, base[k].tag \in Groups
    PROVE  /\ \A j \in DOMAIN candidate[k].members :
                 \/ \E i \in DOMAIN base[k].members :
                       base[k].members[i] = candidate[k].members[j]
                 \/ \E i \in DOMAIN candidate : candidate[i].tag = candidate[k].members[j]
           /\ \A i \in DOMAIN outbounds :
                 \E j \in DOMAIN candidate[k].members :
                     candidate[k].members[j] = outbounds[i].tag
  <1>1. DOMAIN outbounds = 1 .. Len(outbounds) /\ Len(outbounds) \in Nat
    BY OutboundsTyped DEF Inv
  <1>2. ASSUME NEW j \in DOMAIN candidate[k].members
        PROVE  \/ \E i \in DOMAIN base[k].members :
                     base[k].members[i] = candidate[k].members[j]
               \/ \E i \in DOMAIN candidate : candidate[i].tag = candidate[k].members[j]
    <2>1. CASE j <= Len(outbounds)
      <3>1. j \in 1 .. Len(outbounds) /\ candidate[k].members[j] = outbounds[j].tag
        BY <1>1, <1>2, <2>1, GroupMembers
      <3>2. Len(base) + j \in DOMAIN candidate /\ candidate[Len(base) + j] = outbounds[j]
        BY <1>1, <3>1, Assembled, BaseTyped
      <3> QED
        BY <3>1, <3>2
    <2>2. CASE ~(j <= Len(outbounds))
      <3>1. /\ j - Len(outbounds) \in DOMAIN base[k].members
            /\ candidate[k].members[j] = base[k].members[j - Len(outbounds)]
        BY <1>1, <1>2, <2>2, GroupMembers
      <3> QED
        BY <3>1
    <2> QED
      BY <2>1, <2>2
  <1>3. ASSUME NEW i \in DOMAIN outbounds
        PROVE  i \in DOMAIN candidate[k].members /\ candidate[k].members[i] = outbounds[i].tag
    BY <1>1, <1>3, GroupMembers
  <1> QED
    BY <1>2, <1>3

\* A candidate stands for the whole snapshot and can be run as it is, for any
\* base configuration and any snapshot (shadow.go:189-237).
THEOREM CandidatesAreWhole == Spec => []CandidateIsWhole
  <1>1. Inv => CandidateResolves
    BY CandidateDistinct, MembersResolve DEF CandidateResolves
  <1> QED
    BY <1>1, WholeOrNothing, Invariance, PTL DEF CandidateIsWhole

-----------------------------------------------------------------------------
(***************************************************************************)
(* The manager: the outbounds are the first nodes of their classes, in the *)
(* order of the snapshot, which is what its reference asks for.            *)
(***************************************************************************)

\* The place an outbound was made of.
PlaceOf(outbound) == outbound.tag[2]

\* Outbounds stand in the order of the snapshot, each for the first of its class.
InOrder ==
    /\ \A i, j \in DOMAIN outbounds : i < j => PlaceOf(outbounds[i]) < PlaceOf(outbounds[j])
    /\ \A j \in DOMAIN outbounds, k \in 1 .. index :
          ParseNode(nodes[k]) = outbounds[j].item => PlaceOf(outbounds[j]) <= k
    /\ \A j \in DOMAIN outbounds : outbounds[j].item \in seen

\* The place its tag names.
LEMMA PlaceKnown ==
    ASSUME Inv, NEW j \in DOMAIN outbounds
    PROVE  LET k == PlaceOf(outbounds[j])
           IN k \in 1 .. index /\ outbounds[j] = [tag |-> Tag(k), item |-> ParseNode(nodes[k])]
  <1>1. PICK k \in 1 .. index : outbounds[j] = [tag |-> Tag(k), item |-> ParseNode(nodes[k])]
    BY DEF Inv, FromNodes
  <1>2. PlaceOf(outbounds[j]) = k
    BY <1>1 DEF PlaceOf, Tag
  <1> QED
    BY <1>1, <1>2

LEMMA InOrderKept ==
    ASSUME Inv, InOrder, UNCHANGED <<nodes, outbounds, seen, index>>
    PROVE  InOrder'
  BY DEF InOrder, PlaceOf

\* A node generates only if none of its class has been looked at.
LEMMA NodeOrder == ASSUME Inv, InOrder, Node PROVE InOrder'
  <1> DEFINE node == ParseNode(nodes[index + 1])
             made == [tag |-> Tag(index + 1), item |-> node]
             last == Len(outbounds) + 1
  <1>1. /\ pc = "node" /\ index' = index + 1 /\ nodes' = nodes
        /\ \/ UNCHANGED <<outbounds, seen>>
           \/ /\ seen' = seen \cup {node}
              /\ outbounds' = IF node \notin seen THEN Append(outbounds, made) ELSE outbounds
    BY DEF Node, New
  <1>2. /\ index \in Nat /\ 1 .. index' = 1 .. index \cup {index + 1} /\ index + 1 \in DOMAIN nodes
        /\ Len(outbounds) \in Nat /\ DOMAIN outbounds = 1 .. Len(outbounds)
    BY <1>1, NodesTyped, OutboundsTyped DEF Inv, Node
  <1>3. \A j \in DOMAIN outbounds :
           PlaceOf(outbounds[j]) \in 1 .. index /\ PlaceOf(outbounds[j]) <= index + 1
    BY <1>2, PlaceKnown
  <1>4. \A k \in 1 .. index : ParseNode(nodes[k]) \in seen
    BY <1>1 DEF Inv, Represented, InOrder
  <1> HIDE DEF node
  <1>5. CASE UNCHANGED outbounds /\ (seen' = seen \/ seen' = seen \cup {node})
    BY <1>1, <1>2, <1>3, <1>5 DEF InOrder
  <1>6. CASE /\ node \notin seen /\ seen' = seen \cup {node}
             /\ outbounds' = Append(outbounds, made)
    <2>1. made \in Made /\ outbounds \in Seq(Made)
      BY <1>2 DEF Made, Inv, TypeOK, node
    <2>2. made.item = node /\ PlaceOf(made) = index + 1
      BY DEF PlaceOf, Tag
    <2> HIDE DEF made
    <2>3. /\ DOMAIN outbounds' = 1 .. last /\ outbounds'[last] = made
          /\ \A j \in DOMAIN outbounds : j \in DOMAIN outbounds' /\ outbounds'[j] = outbounds[j]
          /\ \A j \in DOMAIN outbounds' : j \in DOMAIN outbounds \/ j = last
      BY <1>2, <1>6, <2>1, AppendProperties, LenProperties
    <2>4. \A j \in DOMAIN outbounds' :
             \/ j \in DOMAIN outbounds /\ outbounds'[j] = outbounds[j]
             \/ /\ j = last /\ outbounds'[j].item = node
                /\ PlaceOf(outbounds'[j]) = index + 1
      BY <2>2, <2>3
    <2>5. \A j \in DOMAIN outbounds : ~(last < j) /\ PlaceOf(outbounds[j]) < index + 1
      BY <1>2, <1>3
    <2>6. \A i, j \in DOMAIN outbounds' :
             i < j => PlaceOf(outbounds'[i]) < PlaceOf(outbounds'[j])
      BY <1>2, <2>4, <2>5 DEF InOrder
    <2>7. \A j \in DOMAIN outbounds', k \in 1 .. index' :
             ParseNode(nodes[k]) = outbounds'[j].item => PlaceOf(outbounds'[j]) <= k
      <3> SUFFICES ASSUME NEW j \in DOMAIN outbounds', NEW k \in 1 .. index',
                          ParseNode(nodes[k]) = outbounds'[j].item
                   PROVE  PlaceOf(outbounds'[j]) <= k
        OBVIOUS
      <3>1. CASE j \in DOMAIN outbounds
        BY <1>2, <1>3, <2>3, <3>1 DEF InOrder
      <3>2. CASE j = last
        <4>1. k \notin 1 .. index
          BY <1>4, <1>6, <2>2, <2>3, <3>2
        <4> QED
          BY <1>2, <2>2, <2>3, <3>2, <4>1
      <3> QED
        BY <2>3, <3>1, <3>2
    <2>8. \A j \in DOMAIN outbounds' : outbounds'[j].item \in seen'
      BY <1>6, <2>4 DEF InOrder
    <2> QED
      BY <1>1, <2>6, <2>7, <2>8 DEF InOrder, PlaceOf
  <1> QED
    BY <1>1, <1>5, <1>6

\* The loop keeps the order, for any snapshot.
LEMMA OrderInvariance == Spec => []InOrder
  <1>1. Init => InOrder
    BY DEF Init, InOrder
  <1>2. Inv /\ InOrder /\ [Next]_vars => InOrder'
    BY InOrderKept, NodeOrder DEF Next, ReadBase, Assemble, vars
  <1> QED
    BY <1>1, <1>2, Invariance, PTL DEF Spec

\* Places and nodes of the manager, whose one provider has sent the snapshot.
LEMMA ManagerPlaces ==
    /\ Manager!Places = {<<1, k>> : k \in DOMAIN nodes}
    /\ \A k : Manager!At(<<1, k>>) = nodes[k]
    /\ \A k, m : Manager!Before(<<1, k>>, <<1, m>>) <=> k < m
  <1>1. DOMAIN <<nodes>> = {1} /\ <<nodes>>[1] = nodes
    OBVIOUS
  <1>2. Manager!Places = {1} \X DOMAIN nodes
    BY <1>1 DEF Manager!Places
  <1>3. {1} \X DOMAIN nodes = {<<1, k>> : k \in DOMAIN nodes}
    OBVIOUS
  <1>4. \A k : Manager!At(<<1, k>>) = nodes[k]
    BY <1>1 DEF Manager!At
  <1>5. \A k, m : Manager!Before(<<1, k>>, <<1, m>>) <=> k < m
    BY DEF Manager!Before
  <1> QED
    BY <1>2, <1>3, <1>4, <1>5

\* All nodes of a finished snapshot are nodes to the manager.
LEMMA ManagerNodes ==
    ASSUME Inv, pc = "built"
    PROVE  /\ Manager!Nodes = {<<1, k>> : k \in DOMAIN nodes}
           /\ \A k \in DOMAIN nodes :
                 Manager!OutboundAt(<<1, k>>) = [tag  |-> Manager!TagAt(<<1, k>>),
                                                 item |-> ParseNode(nodes[k])]
  <1>1. ASSUME NEW k \in DOMAIN nodes
        PROVE  nodes[k] \in Uri /\ ParseNode(nodes[k]) \in Items
    <2>1. nodes[k] \in Uri /\ k \in 1 .. index
      BY <1>1, NodesTyped DEF Inv, Finished
    <2>2. PICK j \in DOMAIN outbounds : outbounds[j].item = ParseNode(nodes[k])
      BY <2>1 DEF Inv, Represented
    <2>3. outbounds[j].item # Unparsable
      BY OriginKnown
    <2> QED
      BY <2>1, <2>2, <2>3 DEF Items
  <1>2. Manager!Nodes = {<<1, k>> : k \in DOMAIN nodes}
    BY <1>1, ManagerPlaces DEF Manager!Nodes
  <1>3. ASSUME NEW k \in DOMAIN nodes
        PROVE  Manager!OutboundAt(<<1, k>>) = [tag  |-> Manager!TagAt(<<1, k>>),
                                               item |-> ParseNode(nodes[k])]
    BY <1>1, ManagerPlaces DEF Manager!OutboundAt
  <1> QED
    BY <1>2, <1>3

\* What the manager makes of one of them.
LEMMA ManagerOutbound ==
    ASSUME Inv, pc = "built", NEW k \in DOMAIN nodes
    PROVE  /\ Manager!OutboundAt(<<1, k>>).tag = Manager!TagAt(<<1, k>>)
           /\ Manager!OutboundAt(<<1, k>>).item = ParseNode(nodes[k])
  <1>1. Manager!OutboundAt(<<1, k>>) = [tag  |-> Manager!TagAt(<<1, k>>),
                                        item |-> ParseNode(nodes[k])]
    BY ManagerNodes
  <1> QED
    BY <1>1

\* The first nodes of their classes.
LEMMA ManagerFirsts ==
    ASSUME Inv, pc = "built", NEW k
    PROVE  <<1, k>> \in Manager!Firsts <=>
               /\ k \in DOMAIN nodes
               /\ \A m \in DOMAIN nodes : ParseNode(nodes[m]) = ParseNode(nodes[k]) => ~(m < k)
  <1>1. \A m \in DOMAIN nodes : nodes[m] \in Uri
    BY NodesTyped DEF Inv
  <1>2. <<1, k>> \in Manager!Nodes <=> k \in DOMAIN nodes
    BY ManagerNodes
  <1>3. \A m \in DOMAIN nodes :
           [u \in Uri |-> ParseNode(u)][Manager!At(<<1, m>>)] = ParseNode(nodes[m])
    <2>1. \A u \in Uri : [v \in Uri |-> ParseNode(v)][u] = ParseNode(u)
      OBVIOUS
    <2>2. \A m : Manager!At(<<1, m>>) = nodes[m]
      BY ManagerPlaces
    <2> QED
      BY <1>1, <2>1, <2>2
  <1> QED
    BY <1>2, <1>3, ManagerNodes, ManagerPlaces DEF Manager!Firsts

\* What the manager calls an outbound.
LEMMA RenamedKnown ==
    ASSUME Inv, pc = "built", NEW j \in DOMAIN outbounds
    PROVE  LET k == PlaceOf(outbounds[j])
           IN /\ k \in DOMAIN nodes
              /\ ManagerTag(outbounds[j].tag) = Manager!TagAt(<<1, k>>)
              /\ Renamed(outbounds[j]) = Manager!OutboundAt(<<1, k>>)
              /\ outbounds[j].item = ParseNode(nodes[k])
  <1> DEFINE k == PlaceOf(outbounds[j])
  <1>1. k \in DOMAIN nodes /\ outbounds[j] = [tag |-> Tag(k), item |-> ParseNode(nodes[k])]
    BY PlaceKnown, NodesTyped DEF Inv, Finished
  <1> HIDE DEF k
  <1>2. \A m \in DOMAIN nodes : Tag(m) = Tag(k) => m = k
    BY <1>1, TagInjective
  <1>3. ManagerTag(Tag(k)) = Manager!TagAt(<<1, k>>)
    BY <1>1, <1>2 DEF ManagerTag
  <1>4. Renamed(outbounds[j]) = [tag |-> Manager!TagAt(<<1, k>>), item |-> ParseNode(nodes[k])]
    BY <1>1, <1>3 DEF Renamed
  <1> QED
    BY <1>1, <1>3, <1>4, ManagerNodes DEF k

\* Places are numbers within the snapshot.
LEMMA PlacesInOrder ==
    ASSUME Inv, InOrder, pc = "built"
    PROVE  /\ DOMAIN nodes = 1 .. index /\ DOMAIN nodes \subseteq Nat
           /\ \A j \in DOMAIN outbounds :
                 /\ j \in Nat /\ PlaceOf(outbounds[j]) \in Nat
                 /\ PlaceOf(outbounds[j]) \in DOMAIN nodes
                 /\ \A k \in DOMAIN nodes :
                       ParseNode(nodes[k]) = outbounds[j].item => PlaceOf(outbounds[j]) <= k
  <1>1. DOMAIN nodes = 1 .. index /\ index \in Nat
    BY NodesTyped DEF Inv, Finished
  <1>2. \A j \in DOMAIN outbounds : j \in Nat
    BY OutboundsTyped DEF Inv
  <1>3. \A j \in DOMAIN outbounds : PlaceOf(outbounds[j]) \in 1 .. index
    BY PlaceKnown
  <1> QED
    BY <1>1, <1>2, <1>3 DEF InOrder

\* The client generates what the manager's reference asks for.
LEMMA ManagerEnumerates ==
    ASSUME Inv, InOrder, pc = "built"
    PROVE  Manager!Enumerates(RenamedOutbounds,
               [pos \in Manager!Firsts |-> Manager!OutboundAt(pos)])
  <1> DEFINE made == [pos \in Manager!Firsts |-> Manager!OutboundAt(pos)]
             place(j) == <<1, PlaceOf(outbounds[j])>>
  <1>1. /\ DOMAIN RenamedOutbounds = DOMAIN outbounds
        /\ \A j \in DOMAIN outbounds : RenamedOutbounds[j] = Manager!OutboundAt(place(j))
    BY RenamedKnown DEF RenamedOutbounds
  <1>2. /\ DOMAIN nodes = 1 .. index /\ DOMAIN nodes \subseteq Nat
        /\ \A j \in DOMAIN outbounds :
              /\ j \in Nat /\ PlaceOf(outbounds[j]) \in Nat
              /\ PlaceOf(outbounds[j]) \in DOMAIN nodes
              /\ \A k \in DOMAIN nodes :
                    ParseNode(nodes[k]) = outbounds[j].item => PlaceOf(outbounds[j]) <= k
    BY PlacesInOrder
  <1>3. \A j \in DOMAIN outbounds : place(j) \in Manager!Firsts
    <2> SUFFICES ASSUME NEW j \in DOMAIN outbounds,
                        NEW m \in DOMAIN nodes,
                        ParseNode(nodes[m]) = ParseNode(nodes[PlaceOf(outbounds[j])])
                 PROVE  ~(m < PlaceOf(outbounds[j]))
      BY RenamedKnown, ManagerFirsts
    <2>1. ParseNode(nodes[m]) = outbounds[j].item
      BY RenamedKnown
    <2>2. /\ PlaceOf(outbounds[j]) <= m
          /\ PlaceOf(outbounds[j]) \in Nat /\ m \in Nat
      BY <1>2, <2>1
    <2> QED
      BY <2>1, <2>2
  <1>4. ASSUME NEW pos \in Manager!Firsts
        PROVE  \E k \in DOMAIN nodes : pos = <<1, k>>
    BY ManagerNodes DEF Manager!Firsts
  <1>5. \* The first nodes are told apart by their outbounds.
        ASSUME NEW p \in Manager!Firsts, NEW q \in Manager!Firsts,
               Manager!OutboundAt(p) = Manager!OutboundAt(q)
        PROVE  p = q
    <2>1. PICK k \in DOMAIN nodes : p = <<1, k>>
      BY <1>4
    <2>2. PICK m \in DOMAIN nodes : q = <<1, m>>
      BY <1>4
    <2>3. ParseNode(nodes[k]) = ParseNode(nodes[m])
      <3>1. Manager!OutboundAt(<<1, k>>) = Manager!OutboundAt(<<1, m>>)
        BY <1>5, <2>1, <2>2
      <3>2. Manager!OutboundAt(<<1, k>>).item = ParseNode(nodes[k])
        BY <2>1, ManagerOutbound
      <3>3. Manager!OutboundAt(<<1, m>>).item = ParseNode(nodes[m])
        BY <2>2, ManagerOutbound
      <3> QED
        BY <3>1, <3>2, <3>3
    <2>4. ~(k < m) /\ ~(m < k)
      BY <2>1, <2>2, <2>3, ManagerFirsts
    <2> QED
      BY <1>2, <2>1, <2>2, <2>4
  <1>6. ASSUME NEW pos \in Manager!Firsts
        PROVE  \E j \in DOMAIN outbounds : place(j) = pos
    <2>1. PICK k \in DOMAIN nodes : pos = <<1, k>>
      BY <1>4
    <2>2. PICK j \in DOMAIN outbounds : outbounds[j].item = ParseNode(nodes[k])
      BY <1>2, <2>1 DEF Inv, Represented
    <2>3. ~(PlaceOf(outbounds[j]) < k)
      <3>1. ParseNode(nodes[PlaceOf(outbounds[j])]) = ParseNode(nodes[k])
        BY <2>2, RenamedKnown
      <3> QED
        BY <1>2, <2>1, <3>1, ManagerFirsts
    <2>4. /\ PlaceOf(outbounds[j]) <= k
          /\ PlaceOf(outbounds[j]) \in Nat /\ k \in Nat
      BY <1>2, <2>2
    <2> QED
      BY <2>1, <2>3, <2>4
  <1>7. \A j, k \in DOMAIN outbounds : j < k <=> Manager!Before(place(j), place(k))
    <2> SUFFICES ASSUME NEW j \in DOMAIN outbounds, NEW k \in DOMAIN outbounds
                 PROVE  j < k <=> PlaceOf(outbounds[j]) < PlaceOf(outbounds[k])
      BY ManagerPlaces
    <2>1. /\ PlaceOf(outbounds[j]) \in Nat /\ PlaceOf(outbounds[k]) \in Nat
          /\ j \in Nat /\ k \in Nat
      BY <1>2
    <2>2. CASE j < k
      BY <2>2 DEF InOrder
    <2>3. CASE k < j
      BY <2>1, <2>3 DEF InOrder
    <2>4. CASE j = k
      BY <2>1, <2>4
    <2> QED
      BY <2>1, <2>2, <2>3, <2>4
  <1> HIDE DEF place
  <1>8. \A j \in DOMAIN RenamedOutbounds : \E pos \in DOMAIN made : RenamedOutbounds[j] = made[pos]
    BY <1>1, <1>3
  <1>9. \A pos \in DOMAIN made : \E j \in DOMAIN RenamedOutbounds : RenamedOutbounds[j] = made[pos]
    BY <1>1, <1>6
  <1>10. \A j, k \in DOMAIN RenamedOutbounds : \A p, q \in DOMAIN made :
            RenamedOutbounds[j] = made[p] /\ RenamedOutbounds[k] = made[q] =>
                (j < k <=> Manager!Before(p, q))
    <2> SUFFICES ASSUME NEW j \in DOMAIN outbounds, NEW k \in DOMAIN outbounds,
                        NEW p \in Manager!Firsts, NEW q \in Manager!Firsts,
                        Manager!OutboundAt(place(j)) = Manager!OutboundAt(p),
                        Manager!OutboundAt(place(k)) = Manager!OutboundAt(q)
                 PROVE  j < k <=> Manager!Before(p, q)
      BY <1>1
    <2>1. place(j) = p /\ place(k) = q
      BY <1>3, <1>5
    <2> QED
      BY <1>7, <2>1
  <1> QED
    BY <1>8, <1>9, <1>10 DEF Manager!Enumerates

\* Tags of the generated outbounds as the manager calls them, and the base led
\* by them.
RenamedTags == [j \in DOMAIN RenamedOutbounds |-> RenamedOutbounds[j].tag]
RenamedLed  == [k \in DOMAIN base |->
                   IF base[k].tag \in Groups
                   THEN [base[k] EXCEPT !.members = RenamedTags \o @]
                   ELSE base[k]]

\* The generated outbounds and tags, renamed one by one.
LEMMA RenamedTagged ==
    ASSUME Inv, pc = "built"
    PROVE  /\ DOMAIN RenamedOutbounds = 1 .. Len(outbounds)
           /\ DOMAIN RenamedTags = 1 .. Len(outbounds) /\ Len(RenamedTags) = Len(outbounds)
           /\ \A j \in 1 .. Len(outbounds) :
                 /\ RenamedOutbounds[j] = Renamed(outbounds[j])
                 /\ RenamedTags[j] = ManagerTag(outbounds[j].tag)
  <1>1. Len(outbounds) \in Nat /\ DOMAIN outbounds = 1 .. Len(outbounds)
    BY OutboundsTyped DEF Inv
  <1>2. /\ DOMAIN RenamedOutbounds = 1 .. Len(outbounds)
        /\ \A j \in 1 .. Len(outbounds) : RenamedOutbounds[j] = Renamed(outbounds[j])
    BY <1>1 DEF RenamedOutbounds
  <1>3. DOMAIN RenamedTags = 1 .. Len(outbounds) /\ Len(RenamedTags) = Len(outbounds)
    BY <1>1, <1>2 DEF RenamedTags
  <1>4. ASSUME NEW j \in 1 .. Len(outbounds)
        PROVE  RenamedTags[j] = ManagerTag(outbounds[j].tag)
    <2>1. /\ Renamed(outbounds[j]) = Manager!OutboundAt(<<1, PlaceOf(outbounds[j])>>)
          /\ ManagerTag(outbounds[j].tag) = Manager!TagAt(<<1, PlaceOf(outbounds[j])>>)
          /\ PlaceOf(outbounds[j]) \in DOMAIN nodes
      BY <1>1, RenamedKnown
    <2>2. Renamed(outbounds[j]).tag = ManagerTag(outbounds[j].tag)
      BY <2>1, ManagerOutbound
    <2> QED
      BY <1>2, <2>2 DEF RenamedTags
  <1> QED
    BY <1>2, <1>3, <1>4

\* A group of the candidate, renamed.
LEMMA RenamedLeads ==
    ASSUME Inv, pc = "built", NEW k \in 1 .. Len(base)
    PROVE  RenamedCandidate[k] = RenamedLed[k]
  <1>1. /\ k \in DOMAIN base /\ k \in DOMAIN candidate /\ ~(k > Len(base))
        /\ candidate[k] = Led[k] /\ candidate[k].tag = base[k].tag
        /\ base[k] \in [tag : BaseTag, members : Seq(BaseTag)]
        /\ Len(outbounds) \in Nat
    BY Assembled, BaseTyped, OutboundsTyped DEF Inv
  <1>2. RenamedCandidate[k] = IF base[k].tag \in Groups THEN RenamedGroup(candidate[k])
                              ELSE candidate[k]
    BY <1>1 DEF RenamedCandidate
  <1>3. CASE base[k].tag \notin Groups
    BY <1>1, <1>2, <1>3 DEF Led, RenamedLed
  <1>4. CASE base[k].tag \in Groups
    <2> DEFINE old == base[k].members
               all == candidate[k].members
               new == [j \in DOMAIN all |->
                          IF j <= Len(outbounds) THEN ManagerTag(all[j]) ELSE all[j]]
    <2>1. /\ Len(old) \in Nat /\ DOMAIN old = 1 .. Len(old)
          /\ DOMAIN all = 1 .. Len(outbounds) + Len(old)
          /\ \A j \in 1 .. Len(outbounds) + Len(old) :
                all[j] = IF j <= Len(outbounds) THEN outbounds[j].tag
                         ELSE old[j - Len(outbounds)]
      BY <1>1, <1>4, GroupMembers
    <2>2. candidate[k] = [base[k] EXCEPT !.members = all]
      BY <1>1, <1>4 DEF Led
    <2>3. RenamedGroup(candidate[k]) = [base[k] EXCEPT !.members = new]
      BY <1>1, <2>2 DEF RenamedGroup
    <2>4. \A j \in 1 .. Len(outbounds) + Len(old) :
             new[j] = IF j <= Len(outbounds) THEN RenamedTags[j] ELSE old[j - Len(outbounds)]
      BY <1>1, <2>1, RenamedTagged
    <2>5. new = [j \in 1 .. Len(outbounds) + Len(old) |-> new[j]]
      BY <2>1
    <2> HIDE DEF new
    <2>6. RenamedTags \o old =
             [j \in 1 .. Len(outbounds) + Len(old) |->
                 IF j <= Len(outbounds) THEN RenamedTags[j] ELSE old[j - Len(outbounds)]]
      BY <1>1, <2>1, RenamedTagged
    <2>7. new = RenamedTags \o old
      BY <2>4, <2>5, <2>6
    <2> QED
      BY <1>1, <1>2, <1>4, <2>3, <2>7 DEF RenamedLed
  <1> QED
    BY <1>3, <1>4

\* The renamed candidate is put together like the manager's configuration.
LEMMA RenamedIsConfiguration ==
    ASSUME Inv, pc = "built"
    PROVE  RenamedCandidate = RenamedLed \o RenamedOutbounds
  <1> DEFINE n == Len(base) + Len(outbounds)
             T == {RenamedLed[k] : k \in 1 .. Len(base)}
                  \cup {RenamedOutbounds[k] : k \in 1 .. Len(outbounds)}
  <1>1. /\ Len(outbounds) \in Nat /\ DOMAIN outbounds = 1 .. Len(outbounds)
        /\ Len(base) \in Nat /\ DOMAIN base = 1 .. Len(base)
        /\ DOMAIN candidate = 1 .. n
    BY Assembled, BaseTyped, OutboundsTyped DEF Inv
  <1>2. RenamedLed \in Seq(T) /\ Len(RenamedLed) = Len(base)
    <2>1. RenamedLed = [k \in 1 .. Len(base) |-> RenamedLed[k]]
      BY <1>1 DEF RenamedLed
    <2>2. \A k \in 1 .. Len(base) : RenamedLed[k] \in T
      OBVIOUS
    <2> HIDE DEF T
    <2>3. RenamedLed \in [1 .. Len(base) -> T]
      BY <2>1, <2>2
    <2> QED
      BY <1>1, <2>3, FunctionIsSeq, LenProperties
  <1>3. RenamedOutbounds \in Seq(T) /\ Len(RenamedOutbounds) = Len(outbounds)
    <2>1. RenamedOutbounds = [k \in 1 .. Len(outbounds) |-> RenamedOutbounds[k]]
      BY <1>1 DEF RenamedOutbounds
    <2>2. \A k \in 1 .. Len(outbounds) : RenamedOutbounds[k] \in T
      OBVIOUS
    <2> HIDE DEF T
    <2>3. RenamedOutbounds \in [1 .. Len(outbounds) -> T]
      BY <2>1, <2>2
    <2> QED
      BY <1>1, <2>3, FunctionIsSeq, LenProperties
  <1> HIDE DEF T
  <1>4. /\ Len(RenamedLed \o RenamedOutbounds) = n
        /\ RenamedLed \o RenamedOutbounds \in Seq(T)
        /\ \A i \in 1 .. n :
              (RenamedLed \o RenamedOutbounds)[i] =
                  IF i <= Len(base) THEN RenamedLed[i] ELSE RenamedOutbounds[i - Len(base)]
    <2> DEFINE A == RenamedLed
               B == RenamedOutbounds
    <2>1. A \in Seq(T) /\ B \in Seq(T)
      BY <1>2, <1>3
    <2> HIDE DEF A, B
    <2>2. /\ A \o B \in Seq(T) /\ Len(A \o B) = Len(A) + Len(B)
          /\ \A i \in 1 .. Len(A) + Len(B) :
                (A \o B)[i] = IF i <= Len(A) THEN A[i] ELSE B[i - Len(A)]
      BY <2>1, ConcatProperties
    <2>3. Len(A) = Len(base) /\ Len(B) = Len(outbounds)
      BY <1>2, <1>3 DEF A, B
    <2> QED
      BY <2>2, <2>3 DEF A, B
  <1>5. ASSUME NEW i \in 1 .. n
        PROVE  RenamedCandidate[i] = (RenamedLed \o RenamedOutbounds)[i]
    <2>1. CASE i <= Len(base)
      BY <1>1, <1>4, <2>1, RenamedLeads
    <2>2. CASE ~(i <= Len(base))
      <3>1. /\ i - Len(base) \in 1 .. Len(outbounds)
            /\ Len(base) + (i - Len(base)) = i
        BY <1>1, <2>2
      <3>2. candidate[i] = outbounds[i - Len(base)]
        BY <3>1, Assembled
      <3>3. RenamedCandidate[i] = Renamed(candidate[i])
        BY <1>1, <2>2 DEF RenamedCandidate
      <3> QED
        BY <1>4, <2>2, <3>1, <3>2, <3>3, RenamedTagged
    <2> QED
      BY <2>1, <2>2
  <1>6. RenamedCandidate = [i \in 1 .. n |-> RenamedCandidate[i]]
    BY <1>1 DEF RenamedCandidate
  <1>7. RenamedLed \o RenamedOutbounds = [i \in 1 .. n |-> (RenamedLed \o RenamedOutbounds)[i]]
    BY <1>4, LenProperties
  <1> QED
    BY <1>5, <1>6, <1>7

\* Where both generate a configuration it is the same one, except for the names
\* of the generated outbounds, for any snapshot and any base configuration
\* (shadow.go:209-238, main.go:498-548).
THEOREM ManagerIsMirrored == Spec => []MirrorsManager
  <1>1. ASSUME Inv, InOrder, pc = "built"
        PROVE  Manager!IsConfiguration(RenamedCandidate, RenamedOutbounds)
    <2>1. Manager!Enumerates(RenamedOutbounds,
              [pos \in Manager!Firsts |-> Manager!OutboundAt(pos)])
      BY <1>1, ManagerEnumerates
    <2>2. RenamedCandidate = RenamedLed \o RenamedOutbounds
      BY <1>1, RenamedIsConfiguration
    <2> QED
      BY <2>1, <2>2 DEF Manager!IsConfiguration, RenamedLed, RenamedTags
  <1>2. Inv /\ InOrder => MirrorsManager
    BY <1>1 DEF MirrorsManager
  <1> QED
    BY <1>2, Invariance, OrderInvariance, PTL
=============================================================================
