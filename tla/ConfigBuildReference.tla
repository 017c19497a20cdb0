------------------------ MODULE ConfigBuildReference ------------------------
(***************************************************************************)
(* What buildState() should make of its inputs, stated without its loops:  *)
(* what a provider's answer means, which inputs are acceptable, and the    *)
(* configuration they stand for.                                           *)
(***************************************************************************)
EXTENDS ConfigBuild, FiniteSets

\* The number a line has when the comments are left out.
Number(lines, k) == Cardinality({i \in 1 .. k : lines[i] # Comment})

\* These are the lines without the comments.
Keeps(kept, lines) ==
    /\ Len(kept) = Number(lines, Len(lines))
    /\ \A k \in DOMAIN lines : lines[k] # Comment => kept[Number(lines, k)] = lines[k]

\* What a body means: its lines if one of them is a URI, and what they decode
\* to otherwise.
Means(kept, body) ==
    IF HasUri(body.lines) THEN Keeps(kept, body.lines) ELSE Keeps(kept, body.inner)

-----------------------------------------------------------------------------
\* All lines the providers have sent, by their places.
Places == UNION {{p} \X DOMAIN bodies[p] : p \in DOMAIN bodies}

At(pos) == bodies[pos[1]][pos[2]]

\* The order of the state, and that of the lines.
Before(p, q) == p[1] < q[1] \/ (p[1] = q[1] /\ p[2] < q[2])

Nodes   == {pos \in Places : At(pos) \in Uri /\ Parsed[At(pos)] \in Item}
NoNodes == Places \ Nodes

TagAt(pos) == Tag(state[pos[1]], At(pos), pos[2])

\* The inputs a configuration can be built from; nothing in this depends on
\* the order of the subscriptions.
Acceptable ==
    /\ base # NoBase /\ Distinct(base)
    /\ NamesDiffer
    /\ \A p \in DOMAIN bodies : \E pos \in Nodes : pos[1] = p
    /\ \A p, q \in Nodes : p # q => TagAt(p) # TagAt(q)
    /\ \A pos \in Nodes, k \in DOMAIN base : TagAt(pos) # base[k].tag

\* The first of every class of equal nodes, and what it becomes.
Firsts == {pos \in Nodes : \A q \in Nodes : Parsed[At(q)] = Parsed[At(pos)] => ~Before(q, pos)}

OutboundAt(pos) == [tag |-> TagAt(pos), item |-> Parsed[At(pos)]]

\* A list has what is made of each of some places, in the order of the places.
Enumerates(list, made) ==
    /\ \A j \in DOMAIN list : \E pos \in DOMAIN made : list[j] = made[pos]
    /\ \A pos \in DOMAIN made : \E j \in DOMAIN list : list[j] = made[pos]
    /\ \A j, k \in DOMAIN list : \A p, q \in DOMAIN made :
          list[j] = made[p] /\ list[k] = made[q] => (j < k <=> Before(p, q))

\* The base's outbounds, of which the two groups are led by the tags of the
\* generated ones, and those behind.
IsConfiguration(list, generated) ==
    /\ Enumerates(generated, [pos \in Firsts |-> OutboundAt(pos)])
    /\ list = [k \in DOMAIN base |->
                  IF base[k].tag \in Groups
                  THEN [base[k] EXCEPT
                           !.members = [j \in DOMAIN generated |-> generated[j].tag] \o @]
                  ELSE base[k]] \o generated

\* The lines that are no nodes, as long as warnings are kept.
Reported ==
    {pos \in NoNodes : Cardinality({q \in NoNodes : Before(q, pos)}) < MaxWarnings}

\* A build ends with a configuration exactly if its inputs are acceptable, and
\* then with the reference's outbounds, groups, count of skipped nodes and first
\* warnings: no check depends on the order of the subscriptions, and a provider
\* that repeats another's nodes counts as usable (main.go:452-548).
BuildsTheReference ==
    /\ pc \in {"refused", "built"} => \A p \in DOMAIN bodies : Means(bodies[p], sent[p])
    /\ pc = "refused" => ~Acceptable
    /\ pc = "built" =>
          /\ Acceptable /\ Provider = Len(state)
          /\ IsConfiguration(config, outbounds)
          /\ skipped = Cardinality(NoNodes)
          /\ Enumerates(warnings, [pos \in Reported |-> pos])
=============================================================================
