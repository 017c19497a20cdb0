--------------------------- MODULE Subscriptions ---------------------------
(***************************************************************************)
(* What the manager's state and configurations are, and the operators that *)
(* update() and buildState() of src/subscription-manager/main.go apply to  *)
(* them.                                                                   *)
(*                                                                         *)
(* A state list is the set of its subscriptions: their order only decides  *)
(* which of two equal nodes keeps its tag.  (A list with the same entry     *)
(* twice, which only a hand-written file can be, is refused like any other *)
(* name collision; it has no counterpart here.)                            *)
(*                                                                         *)
(* What a configuration contains is abstracted to the subscriptions it was *)
(* built from, the node counter update() reports and sing-box's verdict.   *)
(***************************************************************************)
EXTENDS Naturals

CONSTANTS
    Name,        \* subscription names, the empty one apart
    EmptyName,   \* the empty name, which only a hand-written state can hold
    Url,         \* provider URLs
    Accepted,    \* the bodies POST /subscriptions accepts
    Norm,        \* Norm[n]: n with unsafe characters replaced (main.go:173)
    Legacy,      \* the states the first start may find on disk
    MaxNodes,    \* bound on the number of nodes of one configuration
    NoAdd,       \* the argument of update() for a refresh
    NoConfig,    \* no candidate yet
    Seed         \* the base configuration init.sh put where the output goes

Sub    == [name : Name \cup {EmptyName}, url : Url]
Config == [subs : SUBSET Sub, valid : BOOLEAN, nodes : 0 .. MaxNodes]

ASSUME NameAssumption     == EmptyName \notin Name
ASSUME NormAssumption     == DOMAIN Norm = Name \cup {EmptyName}
ASSUME AcceptedAssumption == Accepted \subseteq [name : Name, url : Url]
ASSUME LegacyAssumption   == Legacy \subseteq SUBSET Sub
ASSUME MaxNodesAssumption == MaxNodes \in Nat \ {0}
ASSUME NullAssumption     == /\ NoAdd \notin Sub
                             /\ NoConfig \notin Config
                             /\ Seed \notin Config

Names(state) == {s.name : s \in state}

\* The prospective state: an add replaces every subscription of its name.
Upsert(state, add) ==
    IF add = NoAdd
    THEN state
    ELSE {s \in state : s.name # add.name} \cup {add}

\* No empty name, and no two subscriptions whose node tags could be mixed up.
CollisionFree(state) ==
    /\ \A s \in state : s.name # EmptyName
    /\ \A s, t \in state : s # t => Norm[s.name] # Norm[t.name]

\* The configurations buildState() can generate from a state: every provider
\* contributes at least one parsed node, and equal nodes are merged.
Generated(state) ==
    {c \in Config : c.subs = state /\ (c.nodes = 0 <=> state = {})}
=============================================================================
