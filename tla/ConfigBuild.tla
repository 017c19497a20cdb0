---------------------------- MODULE ConfigBuild ----------------------------
(***************************************************************************)
(* The part of buildState() (src/subscription-manager/main.go:452-548)     *)
(* that makes a configuration out of the base configuration and of what    *)
(* the providers of a state send: names, tags, parsing, merging of equal   *)
(* nodes, selectors.  One step per check, provider and node, in the order   *)
(* of the code.  Writing, checking and publishing the candidate is in       *)
(* SubscriptionManager, which takes all of this as one step.               *)
(*                                                                         *)
(* A tag is the sequence of its pieces between hyphens: "sub-a-b-x-1" is   *)
(* <<Prefix, a, b, x, 1>> whether the subscription is called "a" and the   *)
(* node "b-x" or the subscription "a-b" and the node "x".                  *)
(***************************************************************************)
EXTENDS Naturals, Sequences

CONSTANTS
    Name,         \* subscription names, the empty one among them
    EmptyName,
    Norm,         \* Norm[n]: the pieces of n, unsafe characters replaced
    StateLists,   \* the lists of subscription names a build may be given
    Uri,          \* lines that contain "://"
    Label,        \* Label[u]: the pieces of u's name as nodeName() leaves it
    Item,         \* outbounds without their tag
    Unparsable,   \* what parseURI() makes of a URI it rejects
    Parsed,       \* Parsed[u]: the outbound u stands for, or Unparsable
    Junk,         \* any other line
    Comment,      \* a comment or an empty line
    Bodies,       \* what a provider may answer
    Prefix,       \* the piece "sub"
    BaseTag,      \* the tags the base configuration uses
    NoTag,        \* an outbound of the base configuration without a tag
    Groups,       \* the tags of telegram-auto and default-auto
    Bases,        \* what the base configuration may hold
    NoBase,       \* a base configuration that cannot be read as one
    MaxWarnings   \* how many warnings are kept (20 in the code)

Line == Uri \cup {Junk, Comment}

\* A body has lines; if none of them is a URI, they may be the base64 form of
\* the lines in inner (none, if they are not).
ASSUME BodyAssumption == Bodies \subseteq [lines : Seq(Line), inner : Seq(Line)]
ASSUME BaseAssumption ==
    Bases \ {NoBase} \subseteq Seq([tag : BaseTag, members : Seq(BaseTag)])
ASSUME NormAssumption  == EmptyName \in Name /\ DOMAIN Norm = Name
ASSUME UriAssumption   == /\ Junk \notin Uri /\ Comment \notin Uri
                          /\ DOMAIN Label = Uri
                          /\ Parsed \in [Uri -> Item \cup {Unparsable}]
                          /\ Unparsable \notin Item
ASSUME StateAssumption == StateLists \subseteq Seq(Name)
ASSUME LimitAssumption == MaxWarnings \in Nat

VARIABLES
    base,       \* the outbounds of the base configuration: tag and members
    state,      \* the subscriptions, by name, in the order of the state file
    pc,         \* the loop or check that comes next
    sent,       \* what each provider fetched so far has answered
    bodies,     \* the lines decodeBody() has made of it
    index,      \* how far the loop over lines or nodes has come
    tags,       \* all tags met so far
    seen,       \* the fingerprints met so far
    outbounds,  \* the outbounds generated so far
    counted,    \* the nodes of the present provider that could be parsed
    skipped,    \* how many nodes could not
    warnings,   \* where, for the first of them
    config      \* the outbounds of the finished configuration

vars == <<base, state, pc, sent, bodies, index, tags, seen, outbounds, counted, skipped,
          warnings, config>>

Provider == Len(bodies)
Uris     == bodies[Provider]

\* What decodeBody() is reading.
Text == IF pc = "plain" THEN sent[Provider].lines ELSE sent[Provider].inner

\* No answer at all leaves as much as an empty one.
NoBody == [lines |-> << >>, inner |-> << >>]

HasUri(lines) == \E k \in DOMAIN lines : lines[k] \in Uri

\* The tag of a node: subscription, node name, and place in the body.
Tag(name, uri, place) == <<Prefix>> \o Norm[name] \o Label[uri] \o <<place>>

\* Untagged outbounds do not collide.
Distinct(list) ==
    \A j, k \in DOMAIN list : j # k /\ list[j].tag = list[k].tag => list[j].tag = NoTag

Init ==
    /\ base \in Bases
    /\ state \in StateLists
    /\ pc = "base"
    /\ sent = << >> /\ bodies = << >> /\ index = 0
    /\ tags = {} /\ seen = {} /\ outbounds = << >>
    /\ counted = 0 /\ skipped = 0 /\ warnings = << >>
    /\ config = << >>

-----------------------------------------------------------------------------
Refuse == pc' = "refused"

\* The base configuration is read; its tags are taken.
ReadBase ==
    /\ pc = "base"
    /\ IF base # NoBase /\ Distinct(base)
       THEN /\ tags' = {base[k].tag : k \in DOMAIN base}
            /\ pc' = "names"
       ELSE Refuse /\ UNCHANGED tags
    /\ UNCHANGED <<base, state, sent, bodies, index, seen, outbounds, counted, skipped,
                   warnings, config>>

NamesDiffer ==
    /\ \A k \in DOMAIN state : state[k] # EmptyName
    /\ \A j, k \in DOMAIN state : j # k => Norm[state[j]] # Norm[state[k]]

CheckNames ==
    /\ pc = "names"
    /\ IF NamesDiffer THEN pc' = "provider" ELSE Refuse
    /\ UNCHANGED <<base, state, sent, bodies, index, tags, seen, outbounds, counted,
                   skipped, warnings, config>>

\* The next provider answers, or does not.
Fetch ==
    /\ pc = "provider" /\ Provider < Len(state)
    /\ \/ \E body \in Bodies : sent' = Append(sent, body) /\ pc' = "plain"
       \/ sent' = Append(sent, NoBody) /\ Refuse
    /\ bodies' = Append(bodies, << >>)
    /\ index' = 0 /\ counted' = 0
    /\ UNCHANGED <<base, state, tags, seen, outbounds, skipped, warnings, config>>

\* decodeBody() keeps a line, unless it is empty or a comment.
ReadLine ==
    /\ pc \in {"plain", "inner"} /\ index < Len(Text)
    /\ bodies' = IF Text[index + 1] = Comment THEN bodies
                 ELSE [bodies EXCEPT ![Provider] = Append(@, Text[index + 1])]
    /\ index' = index + 1
    /\ UNCHANGED <<base, state, pc, sent, tags, seen, outbounds, counted, skipped,
                   warnings, config>>

\* Lines without any "://" are decoded once; a body without lines is refused.
EndText ==
    /\ pc \in {"plain", "inner"} /\ index = Len(Text)
    /\ \/ /\ pc = "plain" /\ ~HasUri(Uris)
          /\ pc' = "inner"
          /\ bodies' = [bodies EXCEPT ![Provider] = << >>]
       \/ /\ pc = "plain" => HasUri(Uris)
          /\ IF Uris = << >> THEN Refuse ELSE pc' = "node"
          /\ UNCHANGED bodies
    /\ index' = 0
    /\ UNCHANGED <<base, state, sent, tags, seen, outbounds, counted, skipped,
                   warnings, config>>

TagFree(tag) == tag \notin tags

SeenBefore(uri) == Parsed[uri] \in seen

\* A node that parses: its tag must be new, and is taken even when an equal
\* node is in the configuration already.
AcceptNode(uri) ==
    LET tag == Tag(state[Provider], uri, index + 1)
    IN /\ uri \in Uri /\ Parsed[uri] \in Item
       /\ counted' = counted + 1
       /\ IF TagFree(tag)
          THEN /\ tags' = tags \cup {tag}
               /\ seen' = seen \cup {Parsed[uri]}
               /\ outbounds' = IF SeenBefore(uri) THEN outbounds
                               ELSE Append(outbounds, [tag |-> tag, item |-> Parsed[uri]])
               /\ UNCHANGED pc
          ELSE Refuse /\ UNCHANGED <<tags, seen, outbounds>>
       /\ UNCHANGED <<skipped, warnings>>

RoomForWarning == Len(warnings) < MaxWarnings

\* Any other line is skipped, with a warning while there is room.
SkipNode(line) ==
    /\ line \in Uri => Parsed[line] = Unparsable
    /\ skipped' = skipped + 1
    /\ warnings' = IF RoomForWarning
                   THEN Append(warnings, <<Provider, index + 1>>) ELSE warnings
    /\ UNCHANGED <<pc, tags, seen, outbounds, counted>>

Node ==
    /\ pc = "node" /\ index < Len(Uris)
    /\ AcceptNode(Uris[index + 1]) \/ SkipNode(Uris[index + 1])
    /\ index' = index + 1
    /\ UNCHANGED <<base, state, sent, bodies, config>>

\* Mutant: nodes that an earlier provider has sent do not count.
UsableIfNew ==
    \E k \in DOMAIN outbounds, j \in DOMAIN Uris :
        Uris[j] \in Uri /\ outbounds[k].tag = Tag(state[Provider], Uris[j], j)

Usable == counted > 0

EndProvider ==
    /\ pc = "node" /\ index = Len(Uris)
    /\ IF Usable THEN pc' = "provider" ELSE Refuse
    /\ UNCHANGED <<base, state, sent, bodies, index, tags, seen, outbounds, counted,
                   skipped, warnings, config>>

\* Mutant: the groups receive the tags of merged nodes too.
GeneratedAndMerged ==
    LET generated == [k \in DOMAIN outbounds |-> outbounds[k].tag]
        merged    == tags \ ({base[k].tag : k \in DOMAIN base}
                              \cup {outbounds[k].tag : k \in DOMAIN outbounds})
    IN IF merged = {} THEN generated ELSE Append(generated, CHOOSE tag \in merged : TRUE)

GeneratedTags == [k \in DOMAIN outbounds |-> outbounds[k].tag]

\* The base's outbounds, the two groups led by the generated tags, and then
\* the generated outbounds.
Assemble ==
    /\ pc = "provider" /\ Provider = Len(state)
    /\ config' = [k \in DOMAIN base |->
                     IF base[k].tag \in Groups
                     THEN [base[k] EXCEPT !.members = GeneratedTags \o @]
                     ELSE base[k]]
                 \o outbounds
    /\ pc' = "built"
    /\ UNCHANGED <<base, state, sent, bodies, index, tags, seen, outbounds, counted,
                   skipped, warnings>>

Next ==
    \/ ReadBase \/ CheckNames \/ Fetch \/ ReadLine \/ EndText \/ Node \/ EndProvider
    \/ Assemble

Spec == Init /\ [][Next]_vars

-----------------------------------------------------------------------------
\* A node that parses and has been looked at: place k of provider p.
IsMet(p, k) ==
    /\ p \in DOMAIN bodies /\ k \in DOMAIN bodies[p]
    /\ p = Provider => pc \notin {"plain", "inner"} /\ k <= index
    /\ bodies[p][k] \in Uri /\ Parsed[bodies[p][k]] \in Item

\* Every variable has its type, no loop is past its end, and no more warnings
\* are kept than may be (main.go:478-532).
TypeOK ==
    /\ base \in Bases /\ state \in StateLists
    /\ pc \in {"base", "names", "provider", "plain", "inner", "node", "built", "refused"}
    /\ sent \in Seq(Bodies \cup {NoBody}) /\ Len(sent) = Provider
    /\ bodies \in Seq(Seq(Uri \cup {Junk})) /\ Provider <= Len(state)
    /\ index \in Nat
    /\ pc \in {"plain", "inner", "node"} => Provider > 0
    /\ pc \in {"plain", "inner"} => index <= Len(Text)
    /\ pc = "node" => index <= Len(Uris)
    /\ outbounds \in Seq([tag : tags, item : seen]) /\ seen \subseteq Item
    /\ counted \in Nat /\ skipped \in Nat
    /\ warnings \in Seq(Nat \X Nat) /\ Len(warnings) <= MaxWarnings

\* No two outbounds of a finished configuration have one tag, whatever
\* subscriptions and nodes are called: "sub-a" with node "b-x" and "sub-a-b"
\* with node "x" included (main.go:466-477, 511-524).
UniqueTags == pc = "built" => Distinct(config)

\* The groups lead to outbounds that exist: merging equal nodes drops their
\* tags from the groups too (main.go:534-546).
GroupsResolve ==
    pc = "built" =>
        \A k \in DOMAIN base :
            base[k].tag \in Groups =>
                \A j \in DOMAIN config[k].members :
                    \/ \E i \in DOMAIN base[k].members : base[k].members[i] = config[k].members[j]
                    \/ \E i \in DOMAIN config : config[i].tag = config[k].members[j]

\* Skipping and merging lose nothing usable and invent nothing: the generated
\* outbounds are the nodes met that parse, each once (main.go:508-533).
NothingLost ==
    pc # "refused" =>
        /\ \A p \in DOMAIN bodies : \A k \in DOMAIN bodies[p] :
              IsMet(p, k) =>
                  \E j \in DOMAIN outbounds : outbounds[j].item = Parsed[bodies[p][k]]
        /\ \A j \in DOMAIN outbounds :
              \E p \in DOMAIN bodies : \E k \in DOMAIN bodies[p] :
                  /\ IsMet(p, k)
                  /\ outbounds[j] = [tag  |-> Tag(state[p], bodies[p][k], k),
                                     item |-> Parsed[bodies[p][k]]]
        /\ \A j, k \in DOMAIN outbounds :
              j # k => outbounds[j].item # outbounds[k].item

\* A configuration can be run as it is and has every node the subscriptions
\* offer: tags are unique, groups lead to outbounds and no node is lost
\* (main.go:466-548).
ConfigurationIsWhole == UniqueTags /\ GroupsResolve /\ NothingLost
=============================================================================
