------------------------- MODULE CatalogComparison -------------------------
(***************************************************************************)
(* The catalog client's candidate beside the configuration the manager     *)
(* would generate if the snapshot's nodes were one subscription's.  Shadow *)
(* runs exist for this comparison (src/catalog-client/README.md:117-118).  *)
(***************************************************************************)
EXTENDS NodeParsing

CONSTANTS
    Label,        \* Label[u]: the pieces of u's name, which only the manager uses
    Subscription, \* the name of the one subscription, and its pieces
    Prefix,
    Junk,         \* the lines that are no URI, which a snapshot does not have
    Comment

Items == {ParseNode(u) : u \in Uri} \ {Unparsable}

Manager == INSTANCE ConfigBuildReference WITH
    Name <- {Subscription, ""}, EmptyName <- "", Norm <- [n \in {Subscription, ""} |-> <<n>>],
    StateLists <- {<<Subscription>>}, Item <- Items, Parsed <- [u \in Uri |-> ParseNode(u)],
    Bodies <- {}, MaxWarnings <- 20,
    state <- <<Subscription>>, sent <- <<[lines |-> nodes, inner |-> << >>]>>,
    bodies <- <<nodes>>, counted <- 0, skipped <- 0, warnings <- << >>, config <- candidate

\* What the manager calls the outbound the client calls tag.
ManagerTag(tag) ==
    IF \E k \in DOMAIN nodes : tag = Tag(k)
    THEN Manager!TagAt(<<1, CHOOSE k \in DOMAIN nodes : tag = Tag(k)>>)
    ELSE tag

Renamed(outbound) == [outbound EXCEPT !.tag = ManagerTag(@)]

RenamedOutbounds == [j \in DOMAIN outbounds |-> Renamed(outbounds[j])]

\* A group leads to the generated outbounds first; what the base has given it
\* keeps its name.
RenamedGroup(group) ==
    [group EXCEPT !.members =
        [j \in DOMAIN group.members |->
            IF j <= Len(outbounds) THEN ManagerTag(group.members[j]) ELSE group.members[j]]]

\* The candidate with the manager's names for the generated outbounds.
RenamedCandidate ==
    [k \in DOMAIN candidate |->
        IF k > Len(base) THEN Renamed(candidate[k])
        ELSE IF candidate[k].tag \in Groups THEN RenamedGroup(candidate[k])
        ELSE candidate[k]]

-----------------------------------------------------------------------------
\* Where both generate a configuration it is the same one, except for the
\* names of the generated outbounds: the order, the merging and the groups of
\* the client are the manager's (shadow.go:209-238, main.go:498-548).
MirrorsManager ==
    pc = "built" /\ Manager!Acceptable =>
        Manager!IsConfiguration(RenamedCandidate, RenamedOutbounds)
=============================================================================
