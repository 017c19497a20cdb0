-------------------------- MODULE CatalogCandidate --------------------------
(***************************************************************************)
(* The part of Run() (src/catalog-client/internal/shadow/shadow.go:185-238)*)
(* that makes a candidate configuration out of the base configuration and  *)
(* the nodes of a catalog snapshot.  The whole run, with the snapshot's    *)
(* freshness and the publication, is CatalogShadow.                        *)
(***************************************************************************)
EXTENDS NodeUri

CONSTANTS
    Uri,          \* the URIs a snapshot may hold
    NodeLists,    \* the lists of URIs a valid snapshot may hold
    BaseTag,      \* the tags the base configuration uses
    NoTag,        \* an outbound of the base configuration without a tag
    Groups,       \* the tags of telegram-auto and default-auto
    Bases,        \* what the base configuration may hold
    NoBase        \* a base configuration that cannot be read as one

ASSUME NodesAssumption == NodeLists \subseteq Seq(Uri) \ {<< >>}
ASSUME BasesAssumption == Bases \ {NoBase} \subseteq Seq([tag : BaseTag, members : Seq(BaseTag)])

VARIABLES
    base,       \* the outbounds of the base configuration: tag and members
    nodes,      \* the URIs of the snapshot, in its order
    pc,         \* what comes next
    index,      \* how many nodes have been looked at
    tags,       \* all tags met so far
    seen,       \* the fingerprints met so far
    outbounds,  \* the outbounds generated so far
    candidate   \* the outbounds of the finished candidate

vars == <<base, nodes, pc, index, tags, seen, outbounds, candidate>>

\* ParseURI() of the catalog client is a frozen copy of the manager's.
ParseNode(uri) == ParseURI(uri)

\* The tag of the node at a place: "catalog-shadow-1", ...
Tag(place) == <<"catalog-shadow", place>>

Distinct(list) ==
    \A j, k \in DOMAIN list : j # k /\ list[j].tag = list[k].tag => list[j].tag = NoTag

Init ==
    /\ base \in Bases /\ nodes \in NodeLists
    /\ pc = "base" /\ index = 0
    /\ tags = {} /\ seen = {} /\ outbounds = << >> /\ candidate = << >>

\* The base is read; its tags are taken.
ReadBase ==
    /\ pc = "base"
    /\ IF base # NoBase /\ Distinct(base)
       THEN pc' = "node" /\ tags' = {base[k].tag : k \in DOMAIN base}
       ELSE pc' = "refused" /\ UNCHANGED tags
    /\ UNCHANGED <<base, nodes, index, seen, outbounds, candidate>>

Usable(uri) == ParseNode(uri) # Unparsable

\* Mutant: nodes of one server are taken for one node.
NewServer(uri) == \A item \in seen : item.server # ParseNode(uri).server

New(uri) == ParseNode(uri) \notin seen

TagFree(tag) == tag \notin tags

\* One node: it must parse and its tag must be free, even when it is merged.
Node ==
    /\ pc = "node" /\ index < Len(nodes)
    /\ LET uri == nodes[index + 1]
           tag == Tag(index + 1)
       IN IF Usable(uri) /\ TagFree(tag)
          THEN /\ tags' = tags \cup {tag}
               /\ seen' = seen \cup {ParseNode(uri)}
               /\ outbounds' = IF New(uri)
                               THEN Append(outbounds, [tag |-> tag, item |-> ParseNode(uri)])
                               ELSE outbounds
               /\ UNCHANGED pc
          ELSE pc' = "refused" /\ UNCHANGED <<tags, seen, outbounds>>
    /\ index' = index + 1
    /\ UNCHANGED <<base, nodes, candidate>>

\* Mutant: the groups lose what the base has given them.
ReplacedMembers(members, generated) == generated

Members(members, generated) == generated \o members

\* The two groups lead to the generated outbounds first.
Assemble ==
    /\ pc = "node" /\ index = Len(nodes)
    /\ candidate' =
           [k \in DOMAIN base |->
               IF base[k].tag \in Groups
               THEN [base[k] EXCEPT
                        !.members = Members(@, [j \in DOMAIN outbounds |-> outbounds[j].tag])]
               ELSE base[k]]
           \o outbounds
    /\ pc' = "built"
    /\ UNCHANGED <<base, nodes, index, tags, seen, outbounds>>

Next == ReadBase \/ Node \/ Assemble

Spec == Init /\ [][Next]_vars

-----------------------------------------------------------------------------
\* The client is all or nothing: a candidate represents every node of its
\* snapshot, and it refuses a snapshot only if the base is unusable, a node is,
\* or the base has taken a tag the client gives.  In particular it generates
\* whenever the manager would skip nothing and no base tag is its own
\* (shadow.go:189-220; README of the client, lines 72-73).
AllOrNothing ==
    /\ pc = "built" =>
          \A k \in DOMAIN nodes :
              \E j \in DOMAIN outbounds : outbounds[j].item = ParseNode(nodes[k])
    /\ pc = "refused" =>
          \/ base = NoBase \/ ~Distinct(base)
          \/ \E k \in DOMAIN nodes :
                \/ ParseNode(nodes[k]) = Unparsable
                \/ \E j \in DOMAIN base : base[j].tag = Tag(k)

\* Every outbound of the candidate can be told from the others, and every
\* member of a group is an outbound or was named by the base
\* (shadow.go:197-208, 217-220, 231-237).
CandidateResolves ==
    pc = "built" =>
        /\ Distinct(candidate)
        /\ \A k \in DOMAIN base : base[k].tag \in Groups =>
              /\ \A j \in DOMAIN candidate[k].members :
                    \/ \E i \in DOMAIN base[k].members :
                          base[k].members[i] = candidate[k].members[j]
                    \/ \E i \in DOMAIN candidate : candidate[i].tag = candidate[k].members[j]
              /\ \A i \in DOMAIN outbounds :
                    \E j \in DOMAIN candidate[k].members :
                        candidate[k].members[j] = outbounds[i].tag

\* A candidate stands for the whole snapshot and can be run as it is; a snapshot
\* of which that cannot be said gives none (shadow.go:189-237).
CandidateIsWhole == AllOrNothing /\ CandidateResolves
=============================================================================
