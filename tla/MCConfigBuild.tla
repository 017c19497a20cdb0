--------------------------- MODULE MCConfigBuild ---------------------------
(* Two providers, whose names and nodes can be joined to one tag in two     *)
(* ways, and a base configuration that may hold that tag too.               *)
EXTENDS ConfigBuildReference, TLC

CONSTANTS sub, a, b, x, direct, group, other    \* pieces of tags
CONSTANTS i1, i2, bad                    \* outbounds

Names == {"", "a", "a-b", "a.b"}
Norms == [n \in Names |-> CASE n = "" -> << >> [] n = "a" -> <<a>> [] OTHER -> <<a, b>>]

\* Name and outbound of a URI.
Uris6   == {<<<<x>>, i1>>, <<<<x>>, i2>>, <<<<b, x>>, i1>>, <<<<b, x>>, i2>>, <<<<x>>, bad>>}
Labels  == [u \in Uris6 |-> u[1]]
Parsing == [u \in Uris6 |-> u[2]]

Texts(n)  == UNION {[1 .. k -> Uris6 \cup {Junk, Comment}] : k \in 0 .. n}
AllBodies == [lines : Texts(2), inner : {<< >>}]
             \cup [lines : {<<Junk>>}, inner : Texts(1)]

Lists == UNION {[1 .. k -> Names] : k \in 0 .. 2}

BaseTags     == {NoTag, <<direct>>, <<group>>, <<other>>, <<sub, a, b, x, 1>>}
Plain(tag)   == [tag |-> tag, members |-> << >>]
Choice       == [tag |-> <<group>>, members |-> <<<<direct>>>>]
GroupTags    == {<<group>>, <<other>>}
BaseContents == {NoBase,
                 <<Plain(<<direct>>), Plain(<<direct>>)>>,
                 <<Plain(NoTag), Choice, Plain(NoTag), Plain(<<other>>)>>,
                 <<Plain(<<sub, a, b, x, 1>>), Choice>>}
=============================================================================
