------------------------- MODULE ConfigBuildProofs -------------------------
(***************************************************************************)
(* Theorems about ConfigBuild: tags, groups and merging, for any           *)
(* subscriptions, providers' answers and base configurations, and that the  *)
(* build makes of them what ConfigBuildReference says.                      *)
(***************************************************************************)
EXTENDS ConfigBuildReference, SequenceTheorems, FiniteSetTheorems, TLAPS

\* Before the first provider nothing has been generated.
Fresh ==
    pc \in {"base", "names"} => bodies = << >> /\ outbounds = << >> /\ seen = {}

\* The base configuration in use is a list whose tags are taken.
BaseKnown ==
    pc \notin {"base", "refused"} =>
        /\ base # NoBase /\ Distinct(base)
        /\ \A k \in DOMAIN base : base[k].tag \in tags

\* No two outbounds generated have one tag, and none has one of the base's.
TagsApart ==
    /\ \A j, k \in DOMAIN outbounds : j # k => outbounds[j].tag # outbounds[k].tag
    /\ pc \notin {"base", "refused"} =>
          \A j \in DOMAIN outbounds, k \in DOMAIN base : outbounds[j].tag # base[k].tag

\* A provider is left when all its nodes have been looked at; what was seen is
\* what was generated.
Progress ==
    /\ pc \in {"provider", "built"} /\ Provider > 0 => index = Len(Uris)
    /\ \A item \in seen : \E j \in DOMAIN outbounds : outbounds[j].item = item

IInv == TypeOK /\ Fresh /\ BaseKnown /\ TagsApart /\ Progress

\* A base configuration that is read is a sequence of outbounds.
LEMMA BaseIsSeq ==
    ASSUME TypeOK, base # NoBase
    PROVE  base \in Seq([tag : BaseTag, members : Seq(BaseTag)])
BY BaseAssumption DEF TypeOK

\* What is being read is a sequence of lines.
LEMMA UrisIsSeq ==
    ASSUME TypeOK, pc \in {"plain", "inner", "node"}
    PROVE  Uris \in Seq(Uri \cup {Junk}) /\ Len(Uris) \in Nat
<1>1. Provider \in 1 .. Len(bodies)
  BY DEF TypeOK, Provider
<1> QED BY <1>1 DEF TypeOK, Uris

LEMMA TextIsSeq ==
    ASSUME TypeOK, pc \in {"plain", "inner"}
    PROVE  Text \in Seq(Line) /\ Uris \in Seq(Uri \cup {Junk})
<1>1. Provider \in 1 .. Len(sent) /\ Provider \in 1 .. Len(bodies)
  BY DEF TypeOK, Provider
<1>2. sent[Provider] \in Bodies \cup {NoBody}
  BY <1>1 DEF TypeOK
<1>3. NoBody \in [lines : Seq(Line), inner : Seq(Line)]
  BY DEF NoBody
<1>4. Text \in Seq(Line)
  BY <1>2, <1>3, BodyAssumption DEF Text
<1> QED BY <1>1, <1>4 DEF TypeOK, Uris

\* The outbounds generated are a sequence of records.
LEMMA OutboundsTyped ==
    ASSUME TypeOK
    PROVE  /\ DOMAIN outbounds = 1 .. Len(outbounds) /\ Len(outbounds) \in Nat
           /\ \A j \in DOMAIN outbounds :
                 outbounds[j].tag \in tags /\ outbounds[j].item \in seen
<1> DEFINE S == [tag : tags, item : seen]
<1>1. outbounds \in Seq(S)
  BY DEF TypeOK
<1>2. \A e \in S : e.tag \in tags /\ e.item \in seen
  OBVIOUS
<1> HIDE DEF S
<1> QED BY <1>1, <1>2, LenProperties, ElementOfSeq

LEMMA InitInv == Init => IInv
<1> SUFFICES ASSUME Init PROVE IInv OBVIOUS
<1>1. TypeOK
  BY LimitAssumption DEF Init, TypeOK, Provider
<1> QED BY <1>1 DEF Init, IInv, Fresh, BaseKnown, TagsApart, Progress, Provider

-----------------------------------------------------------------------------
LEMMA ReadBaseInv == ASSUME IInv, ReadBase PROVE IInv'
<1> USE DEF IInv, ReadBase, Provider, Text, Uris
<1>1. TypeOK'
  <2>1. outbounds = << >>
    BY DEF Fresh
  <2>2. outbounds' \in Seq([tag : tags', item : seen'])
    BY <2>1
  <2> QED BY <2>2 DEF TypeOK, Refuse
<1>2. Fresh' /\ TagsApart'
  BY DEF Fresh, TagsApart, Refuse
<1>3. BaseKnown'
  BY DEF BaseKnown, Refuse, Distinct
<1>4. Progress'
  BY DEF Progress, Refuse
<1> QED BY <1>1, <1>2, <1>3, <1>4

LEMMA CheckNamesInv == ASSUME IInv, CheckNames PROVE IInv'
<1> USE DEF IInv, CheckNames, Provider, Text, Uris
<1>1. TypeOK'
  BY DEF TypeOK, Refuse
<1>2. Fresh' /\ TagsApart' /\ BaseKnown'
  BY DEF Fresh, TagsApart, BaseKnown, Refuse, Distinct
<1>3. Progress'
  BY DEF Progress, Fresh, Refuse
<1> QED BY <1>1, <1>2, <1>3

LEMMA FetchInv == ASSUME IInv, Fetch PROVE IInv'
<1> USE DEF IInv, Fetch, Refuse
<1>1. TypeOK'
  <2>1. /\ bodies' \in Seq(Seq(Uri \cup {Junk}))
        /\ Provider' = Provider + 1
        /\ bodies'[Provider'] = << >>
    BY DEF TypeOK, Provider
  <2>2. /\ sent' \in Seq(Bodies \cup {NoBody})
        /\ Len(sent') = Provider'
    <3>1. \E body \in Bodies \cup {NoBody} : sent' = Append(sent, body)
      OBVIOUS
    <3> QED BY <3>1, <2>1 DEF TypeOK
  <2>3. Len(Text') \in Nat
    BY <2>2, <2>1, BodyAssumption DEF TypeOK, Text, NoBody, Provider
  <2>4. StateLists \subseteq Seq(Name)
    BY StateAssumption
  <2> QED BY <2>1, <2>2, <2>3, <2>4 DEF TypeOK, Provider
<1>2. Fresh' /\ TagsApart' /\ BaseKnown'
  BY DEF Fresh, TagsApart, BaseKnown, Distinct
<1>3. Progress'
  BY DEF Progress
<1> QED BY <1>1, <1>2, <1>3

LEMMA ReadLineInv == ASSUME IInv, ReadLine PROVE IInv'
<1> USE DEF IInv, ReadLine
<1>1. Text \in Seq(Line) /\ Uris \in Seq(Uri \cup {Junk})
  BY TextIsSeq
<1>2. Text' = Text /\ Len(bodies') = Len(bodies) /\ Provider' = Provider
  BY DEF TypeOK, Text, Provider
<1>3. TypeOK'
  <2>1. bodies' \in Seq(Seq(Uri \cup {Junk}))
    <3>1. CASE Text[index + 1] = Comment
      BY <3>1 DEF TypeOK
    <3>2. CASE Text[index + 1] # Comment
      <4>1. Text[index + 1] \in Uri \cup {Junk}
        BY <1>1, <3>2 DEF TypeOK, Line
      <4>2. Append(bodies[Provider], Text[index + 1]) \in Seq(Uri \cup {Junk})
        BY <1>1, <4>1 DEF Uris
      <4> QED BY <3>2, <4>2 DEF TypeOK, Provider
    <3> QED BY <3>1, <3>2
  <2> QED BY <1>1, <1>2, <2>1 DEF TypeOK
<1>4. Fresh' /\ TagsApart' /\ BaseKnown'
  BY DEF Fresh, TagsApart, BaseKnown, Distinct
<1>5. Progress'
  BY DEF Progress
<1> QED BY <1>3, <1>4, <1>5

LEMMA EndTextInv == ASSUME IInv, EndText PROVE IInv'
<1> USE DEF IInv, EndText, Refuse
<1>1. Text \in Seq(Line) /\ Uris \in Seq(Uri \cup {Junk})
  BY TextIsSeq
<1>2. Len(bodies') = Len(bodies) /\ Provider' = Provider
  BY DEF TypeOK, Provider
<1>3. TypeOK'
  <2>1. bodies' \in Seq(Seq(Uri \cup {Junk}))
    <3>1. << >> \in Seq(Uri \cup {Junk}) /\ bodies \in Seq(Seq(Uri \cup {Junk}))
      BY DEF TypeOK
    <3>2. bodies' = bodies \/ bodies' = [bodies EXCEPT ![Provider] = << >>]
      OBVIOUS
    <3>3. Provider \in 1 .. Len(bodies)
      BY DEF TypeOK, Provider
    <3> DEFINE S == Seq(Uri \cup {Junk})
    <3>4. << >> \in S /\ bodies \in Seq(S)
      BY <3>1
    <3> HIDE DEF S
    <3>5. [bodies EXCEPT ![Provider] = << >>] \in Seq(S)
      BY <3>3, <3>4, ExceptSeq
    <3>6. bodies' \in Seq(S)
      BY <3>2, <3>4, <3>5
    <3> QED BY <3>6 DEF S
  <2>2. Len(sent[Provider].inner) \in Nat
    BY BodyAssumption DEF TypeOK, Provider, NoBody
  <2>3. pc' = "inner" => Text' = sent[Provider].inner
    BY <1>2 DEF Text
  <2> QED BY <1>1, <1>2, <2>1, <2>2, <2>3 DEF TypeOK, Uris
<1>4. Fresh' /\ TagsApart' /\ BaseKnown'
  BY DEF Fresh, TagsApart, BaseKnown, Distinct
<1>5. Progress'
  BY DEF Progress
<1> QED BY <1>3, <1>4, <1>5

LEMMA AcceptNodeInv ==
    ASSUME IInv, pc = "node", index < Len(Uris), AcceptNode(Uris[index + 1]),
           index' = index + 1, UNCHANGED <<base, state, sent, bodies, config>>
    PROVE  IInv'
<1> DEFINE uri == Uris[index + 1]
           tag == Tag(state[Provider], uri, index + 1)
           new == [tag |-> tag, item |-> Parsed[uri]]
<1>0. /\ uri \in Uri /\ Parsed[uri] \in Item
      /\ counted' = counted + 1
      /\ IF tag \notin tags
         THEN /\ tags' = tags \cup {tag} /\ seen' = seen \cup {Parsed[uri]}
              /\ outbounds' = IF Parsed[uri] \in seen THEN outbounds
                              ELSE Append(outbounds, new)
              /\ pc' = pc
         ELSE pc' = "refused" /\ UNCHANGED <<tags, seen, outbounds>>
      /\ UNCHANGED <<skipped, warnings>>
  BY DEF AcceptNode, TagFree, SeenBefore, Refuse
<1> HIDE DEF uri, tag
<1> USE DEF IInv
<1>1. /\ Provider' = Provider /\ Uris' = Uris /\ Provider > 0
      /\ index \in Nat /\ Len(Uris) \in Nat
  BY UrisIsSeq DEF TypeOK, Provider, Uris
<1>2. CASE tag \in tags
  <2>1. pc' = "refused" /\ UNCHANGED <<tags, seen, outbounds, skipped, warnings>>
    BY <1>0, <1>2
  <2>2. TypeOK'
    BY <1>0, <1>1, <2>1 DEF TypeOK
  <2> QED BY <1>1, <2>1, <2>2 DEF Fresh, BaseKnown, TagsApart, Progress
<1>3. CASE tag \notin tags
  <2>1. /\ tags' = tags \cup {tag} /\ seen' = seen \cup {Parsed[uri]}
        /\ pc' = pc /\ counted' = counted + 1 /\ UNCHANGED <<skipped, warnings>>
        /\ tag \notin tags /\ Parsed[uri] \in Item
    BY <1>0, <1>3
  <2>2. outbounds \in Seq([tag : tags', item : seen'])
    <3>1. [tag : tags, item : seen] \subseteq [tag : tags', item : seen']
      BY <2>1
    <3>2. outbounds \in Seq([tag : tags, item : seen])
      BY DEF TypeOK
    <3> QED BY <3>1, <3>2, SeqMonotonic
  <2>3. outbounds' = outbounds \/ outbounds' = Append(outbounds, new)
    BY <1>0, <1>3
  <2>4. new \in [tag : tags', item : seen']
    BY <2>1
  <2>5. outbounds' \in Seq([tag : tags', item : seen'])
    <3> DEFINE S == [tag : tags', item : seen']
    <3>1. outbounds \in Seq(S) /\ new \in S
      BY <2>2, <2>4
    <3> HIDE DEF new, S
    <3>2. outbounds' \in Seq(S)
      BY <2>3, <3>1, AppendProperties
    <3> QED BY <3>2 DEF S
  <2>6. TypeOK'
    BY <1>1, <2>1, <2>5 DEF TypeOK
  <2>7. Fresh' /\ BaseKnown'
    BY <2>1 DEF Fresh, BaseKnown, Distinct
  <2>8. \A j \in DOMAIN outbounds : outbounds[j].tag \in tags
    BY OutboundsTyped
  <2>9. TagsApart'
    <3>1. CASE outbounds' = outbounds
      BY <3>1, <2>1 DEF TagsApart
    <3>2. CASE outbounds' = Append(outbounds, new)
      <4>1. \A j \in DOMAIN outbounds' :
               \/ j \in DOMAIN outbounds /\ outbounds'[j] = outbounds[j]
               \/ j = Len(outbounds) + 1 /\ outbounds'[j] = new
        BY <3>2, <2>2
      <4>2. \A k \in DOMAIN base : base[k].tag # tag
        BY <2>1 DEF BaseKnown
      <4>3. \A j, k \in DOMAIN outbounds' :
               j # k => outbounds'[j].tag # outbounds'[k].tag
        BY <4>1, <2>1, <2>8 DEF TagsApart
      <4>4. \A j \in DOMAIN outbounds', k \in DOMAIN base' :
               outbounds'[j].tag # base'[k].tag
        BY <4>1, <4>2 DEF TagsApart
      <4> QED BY <4>3, <4>4 DEF TagsApart
    <3> QED BY <3>1, <3>2, <2>3
  <2>10. Progress'
    <3>1. CASE Parsed[uri] \in seen
      BY <3>1, <1>0, <1>3, <2>1 DEF Progress
    <3>2. CASE Parsed[uri] \notin seen
      <4>1. outbounds' = Append(outbounds, new)
        BY <3>2, <1>0, <1>3
      <4>2. /\ Len(outbounds) + 1 \in DOMAIN outbounds'
            /\ outbounds'[Len(outbounds) + 1].item = Parsed[uri]
            /\ \A j \in DOMAIN outbounds :
                  j \in DOMAIN outbounds' /\ outbounds'[j] = outbounds[j]
        BY <4>1, <2>2
      <4> QED BY <4>2, <2>1 DEF Progress
    <3> QED BY <3>1, <3>2
  <2> QED BY <2>6, <2>7, <2>9, <2>10
<1> QED BY <1>2, <1>3

LEMMA NodeInv == ASSUME IInv, Node PROVE IInv'
<1>1. CASE AcceptNode(Uris[index + 1])
  BY <1>1, AcceptNodeInv DEF Node
<1>2. CASE SkipNode(Uris[index + 1])
  <2>1. /\ Provider' = Provider /\ Uris' = Uris /\ Provider > 0 /\ Provider \in Nat
        /\ index \in Nat /\ Len(Uris) \in Nat /\ index < Len(Uris) /\ index' = index + 1
        /\ pc = "node" /\ skipped' = skipped + 1
        /\ UNCHANGED <<base, state, pc, sent, bodies, tags, seen, outbounds, counted,
                       config>>
    BY <1>2, UrisIsSeq DEF IInv, Node, SkipNode, TypeOK, Provider, Uris
  <2>2. warnings' \in Seq(Nat \X Nat) /\ Len(warnings') <= MaxWarnings
    <3> DEFINE S == Nat \X Nat
               place == <<Provider, index + 1>>
    <3>1. /\ warnings \in Seq(S) /\ Len(warnings) <= MaxWarnings /\ place \in S
          /\ warnings' = IF Len(warnings) < MaxWarnings THEN Append(warnings, place)
                         ELSE warnings
      BY <1>2, <2>1 DEF IInv, TypeOK, SkipNode, RoomForWarning
    <3> HIDE DEF S, place
    <3>2. warnings' \in Seq(S) /\ Len(warnings') <= MaxWarnings
      BY <3>1, LimitAssumption, AppendProperties, LenProperties
    <3> QED BY <3>2 DEF S
  <2>3. TypeOK'
    BY <2>1, <2>2 DEF IInv, TypeOK
  <2> QED BY <2>1, <2>3 DEF IInv, Fresh, BaseKnown, TagsApart, Progress, Distinct
<1> QED BY <1>1, <1>2 DEF Node

LEMMA EndProviderInv == ASSUME IInv, EndProvider PROVE IInv'
<1> USE DEF IInv, EndProvider, Refuse
<1>1. TypeOK'
  BY DEF TypeOK, Provider, Text, Uris
<1>2. Fresh' /\ TagsApart' /\ BaseKnown'
  BY DEF Fresh, TagsApart, BaseKnown, Distinct
<1>3. Progress'
  BY DEF Progress, Uris, Provider
<1> QED BY <1>1, <1>2, <1>3

LEMMA AssembleInv == ASSUME IInv, Assemble PROVE IInv'
<1> USE DEF IInv, Assemble
<1>1. TypeOK'
  BY DEF TypeOK, Provider, Text, Uris
<1>2. Fresh' /\ TagsApart' /\ BaseKnown'
  BY DEF Fresh, TagsApart, BaseKnown, Distinct
<1>3. Progress'
  BY DEF Progress, Uris, Provider
<1> QED BY <1>1, <1>2, <1>3

LEMMA StutterInv == ASSUME IInv, UNCHANGED vars PROVE IInv'
<1> USE DEF IInv, vars
<1>1. TypeOK'
  BY DEF TypeOK, Provider, Text, Uris
<1> QED BY <1>1 DEF Fresh, BaseKnown, TagsApart, Progress, Distinct, Provider, Uris

THEOREM Invariance == Spec => []IInv
<1>1. Init => IInv
  BY InitInv
<1>2. IInv /\ [Next]_vars => IInv'
  BY ReadBaseInv, CheckNamesInv, FetchInv, ReadLineInv, EndTextInv, NodeInv,
     EndProviderInv, AssembleInv, StutterInv DEF Next
<1> QED BY <1>1, <1>2, PTL DEF Spec

\* TypeOK is an invariant for any inputs (main.go:452-548).
THEOREM TypeCorrect == Spec => []TypeOK
<1>1. IInv => TypeOK
  BY DEF IInv
<1> QED BY <1>1, Invariance, PTL

-----------------------------------------------------------------------------
\* A function on an initial segment of the numbers is a sequence.
LEMMA FunctionIsSeq ==
    ASSUME NEW T, NEW n \in Nat, NEW f \in [1 .. n -> T]
    PROVE  f \in Seq(T)
BY SeqDef

\* Assembling puts the generated outbounds behind the base's, whose tags and
\* number it keeps.
LEMMA Assembled ==
    ASSUME IInv, Assemble
    PROVE  /\ base # NoBase /\ Distinct(base)
           /\ Len(base) \in Nat /\ DOMAIN base = 1 .. Len(base)
           /\ DOMAIN config' = 1 .. Len(base) + Len(outbounds)
           /\ \A k \in 1 .. Len(base) : config'[k].tag = base[k].tag
           /\ \A k \in 1 .. Len(base) :
                 base[k].tag \in Groups =>
                     config'[k].members = GeneratedTags \o base[k].members
           /\ \A k \in 1 .. Len(outbounds) : config'[Len(base) + k] = outbounds[k]
<1> DEFINE led == [k \in DOMAIN base |->
                     IF base[k].tag \in Groups
                     THEN [base[k] EXCEPT !.members = GeneratedTags \o @]
                     ELSE base[k]]
<1>1. base # NoBase /\ Distinct(base)
  BY DEF IInv, BaseKnown, Assemble
<1>2. /\ Len(base) \in Nat /\ DOMAIN base = 1 .. Len(base)
      /\ \A k \in 1 .. Len(base) : base[k] \in [tag : BaseTag, members : Seq(BaseTag)]
  <2> DEFINE S == [tag : BaseTag, members : Seq(BaseTag)]
  <2>1. base \in Seq(S)
    BY <1>1, BaseIsSeq DEF IInv
  <2> HIDE DEF S
  <2>2. /\ Len(base) \in Nat /\ DOMAIN base = 1 .. Len(base)
        /\ \A k \in 1 .. Len(base) : base[k] \in S
    BY <2>1, LenProperties, ElementOfSeq
  <2> QED BY <2>2 DEF S
<1>3. config' = led \o outbounds
  BY DEF Assemble
<1>4. /\ Len(outbounds) \in Nat /\ DOMAIN outbounds = 1 .. Len(outbounds)
  BY OutboundsTyped DEF IInv
<1>5. \A k \in 1 .. Len(base) :
         /\ led[k].tag = base[k].tag
         /\ base[k].tag \in Groups => led[k].members = GeneratedTags \o base[k].members
  BY <1>2
<1>6. Len(led) = Len(base) /\ DOMAIN led = 1 .. Len(base)
  BY <1>2
<1> HIDE DEF led
<1>7. /\ DOMAIN config' = 1 .. Len(base) + Len(outbounds)
      /\ \A k \in 1 .. Len(base) : config'[k] = led[k]
      /\ \A k \in 1 .. Len(outbounds) : config'[Len(base) + k] = outbounds[k]
  <2> DEFINE T == {led[k] : k \in DOMAIN led} \cup {outbounds[k] : k \in DOMAIN outbounds}
  <2>1. led \in [1 .. Len(base) -> T]
    <3>1. led = [k \in 1 .. Len(base) |-> led[k]]
      BY <1>2 DEF led
    <3>2. \A k \in 1 .. Len(base) : led[k] \in T
      BY <1>6
    <3> HIDE DEF T
    <3> QED BY <3>1, <3>2
  <2>2. outbounds \in [1 .. Len(outbounds) -> T]
    <3> DEFINE S == [tag : tags, item : seen]
    <3>1. outbounds \in Seq(S)
      BY DEF IInv, TypeOK
    <3> HIDE DEF S
    <3>2. outbounds \in [1 .. Len(outbounds) -> S]
      BY <3>1, LenProperties
    <3>3. \A k \in 1 .. Len(outbounds) : outbounds[k] \in T
      BY <1>4
    <3> HIDE DEF T
    <3> QED BY <3>2, <3>3
  <2> HIDE DEF T
  <2>3. led \in Seq(T) /\ outbounds \in Seq(T)
    BY <1>2, <1>4, <2>1, <2>2, FunctionIsSeq
  <2>4. /\ led \o outbounds \in Seq(T)
        /\ Len(led \o outbounds) = Len(base) + Len(outbounds)
        /\ \A i \in 1 .. Len(base) + Len(outbounds) :
              (led \o outbounds)[i] = IF i <= Len(base) THEN led[i]
                                      ELSE outbounds[i - Len(base)]
    <3>1. /\ led \o outbounds \in Seq(T)
          /\ Len(led \o outbounds) = Len(led) + Len(outbounds)
          /\ \A i \in 1 .. Len(led) + Len(outbounds) :
                (led \o outbounds)[i] = IF i <= Len(led) THEN led[i]
                                        ELSE outbounds[i - Len(led)]
      BY <2>3, ConcatProperties
    <3> QED BY <1>6, <3>1
  <2>5. DOMAIN config' = 1 .. Len(base) + Len(outbounds)
    BY <1>3, <2>4, LenProperties
  <2>6. \A k \in 1 .. Len(base) : config'[k] = led[k]
    BY <1>2, <1>3, <1>4, <2>4
  <2>7. ASSUME NEW k \in 1 .. Len(outbounds)
        PROVE  config'[Len(base) + k] = outbounds[k]
    <3>1. /\ Len(base) + k \in 1 .. Len(base) + Len(outbounds)
          /\ ~(Len(base) + k <= Len(base)) /\ (Len(base) + k) - Len(base) = k
      BY <1>2, <1>4
    <3> QED BY <1>3, <2>4, <3>1
  <2> QED BY <2>5, <2>6, <2>7
<1> QED BY <1>1, <1>2, <1>5, <1>7

\* A configuration is complete when it is assembled, and stays as it is.
LEMMA BuiltOnce ==
    ASSUME IInv, [Next]_vars, pc' = "built"
    PROVE  \/ Assemble
           \/ pc = "built" /\ UNCHANGED <<base, config>>
BY DEF Next, vars, ReadBase, CheckNames, Fetch, ReadLine, EndText, Node, AcceptNode,
       SkipNode, EndProvider, Refuse

\* No two outbounds of a finished configuration have one tag, for any names of
\* subscriptions and nodes (main.go:466-477, 511-524).
THEOREM TagsAreUnique == Spec => []UniqueTags
<1>1. Init => UniqueTags
  BY DEF Init, UniqueTags
<1>2. IInv /\ UniqueTags /\ [Next]_vars => UniqueTags'
  <2> SUFFICES ASSUME IInv, UniqueTags, [Next]_vars, pc' = "built"
               PROVE  Distinct(config')
    BY DEF UniqueTags, Distinct
  <2>1. CASE pc = "built" /\ UNCHANGED <<base, config>>
    BY <2>1 DEF UniqueTags, Distinct
  <2>2. CASE Assemble
    <3>1. /\ \A j, k \in DOMAIN outbounds : j # k => outbounds[j].tag # outbounds[k].tag
          /\ \A j \in DOMAIN outbounds, k \in DOMAIN base : outbounds[j].tag # base[k].tag
      BY <2>2 DEF IInv, TagsApart, Assemble
    <3>2. DOMAIN outbounds = 1 .. Len(outbounds) /\ Len(outbounds) \in Nat
      BY OutboundsTyped DEF IInv
    <3> SUFFICES ASSUME NEW j \in DOMAIN config', NEW k \in DOMAIN config',
                        j # k, config'[j].tag = config'[k].tag
                 PROVE  config'[j].tag = NoTag
      BY DEF Distinct
    <3>3. \A i \in DOMAIN config' :
             \/ i \in 1 .. Len(base) /\ config'[i].tag = base[i].tag
             \/ \E m \in 1 .. Len(outbounds) :
                   i = Len(base) + m /\ config'[i] = outbounds[m]
      <4> SUFFICES ASSUME NEW i \in DOMAIN config', i \notin 1 .. Len(base)
                   PROVE  \E m \in 1 .. Len(outbounds) :
                             i = Len(base) + m /\ config'[i] = outbounds[m]
        BY <2>2, Assembled
      <4>1. i - Len(base) \in 1 .. Len(outbounds) /\ i = Len(base) + (i - Len(base))
        BY <2>2, <3>2, Assembled
      <4> QED BY <2>2, <4>1, Assembled
    <3>4. DOMAIN base = 1 .. Len(base) /\ Distinct(base)
      BY <2>2, Assembled
    <3>5. j \in 1 .. Len(base) /\ k \in 1 .. Len(base)
      BY <3>1, <3>2, <3>3, <3>4
    <3> QED BY <2>2, <3>4, <3>5, Assembled DEF Distinct
  <2> QED BY <2>1, <2>2, BuiltOnce
<1> QED BY <1>1, <1>2, Invariance, PTL DEF Spec

\* What the groups gain are tags of outbounds in the configuration
\* (main.go:534-546).
THEOREM GroupsAreSound == Spec => []GroupsResolve
<1>1. Init => GroupsResolve
  BY DEF Init, GroupsResolve
<1>2. IInv /\ GroupsResolve /\ [Next]_vars => GroupsResolve'
  <2> SUFFICES ASSUME IInv, GroupsResolve, [Next]_vars, pc' = "built",
                      NEW k \in DOMAIN base', base'[k].tag \in Groups,
                      NEW j \in DOMAIN config'[k].members
               PROVE  \/ \E i \in DOMAIN base'[k].members :
                            base'[k].members[i] = config'[k].members[j]
                      \/ \E i \in DOMAIN config' : config'[i].tag = config'[k].members[j]
    BY DEF GroupsResolve
  <2>1. CASE pc = "built" /\ UNCHANGED <<base, config>>
    BY <2>1 DEF GroupsResolve
  <2>2. CASE Assemble
    <3>1. base' = base /\ k \in 1 .. Len(base)
      BY <2>2, Assembled DEF Assemble
    <3>2. config'[k].members = GeneratedTags \o base[k].members
      BY <2>2, <3>1, Assembled
    <3>3. /\ DOMAIN outbounds = 1 .. Len(outbounds) /\ Len(outbounds) \in Nat
      BY OutboundsTyped DEF IInv
    <3>4. /\ Len(GeneratedTags) = Len(outbounds)
          /\ \A i \in 1 .. Len(outbounds) : GeneratedTags[i] = outbounds[i].tag
      BY <3>3 DEF GeneratedTags
    <3>5. /\ DOMAIN base[k].members = 1 .. Len(base[k].members)
          /\ Len(base[k].members) \in Nat
      <4> DEFINE S == [tag : BaseTag, members : Seq(BaseTag)]
      <4>1. base \in Seq(S)
        BY <2>2, Assembled, BaseIsSeq DEF IInv
      <4>2. \A e \in S : e.members \in Seq(BaseTag)
        OBVIOUS
      <4> HIDE DEF S
      <4>3. base[k].members \in Seq(BaseTag)
        BY <4>1, <4>2, <3>1, ElementOfSeq
      <4> QED BY <4>3, LenProperties
    <3>6. /\ j \in 1 .. Len(outbounds) + Len(base[k].members)
          /\ config'[k].members[j] = IF j <= Len(outbounds) THEN GeneratedTags[j]
                                      ELSE base[k].members[j - Len(outbounds)]
      BY <3>2, <3>3, <3>4, <3>5
    <3>7. CASE j <= Len(outbounds)
      <4>1. Len(base) + j \in DOMAIN config' /\ config'[Len(base) + j] = outbounds[j]
        BY <2>2, <3>3, <3>6, <3>7, Assembled
      <4> QED BY <4>1, <3>3, <3>4, <3>6, <3>7
    <3>8. CASE j > Len(outbounds)
      <4>1. j - Len(outbounds) \in DOMAIN base[k].members
        BY <3>3, <3>5, <3>6, <3>8
      <4> QED BY <4>1, <3>1, <3>3, <3>6, <3>8
    <3> QED BY <3>3, <3>6, <3>7, <3>8
  <2> QED BY <2>1, <2>2, BuiltOnce
<1> QED BY <1>1, <1>2, Invariance, PTL DEF Spec

-----------------------------------------------------------------------------
\* Steps that generate nothing and look at no usable node.
LEMMA NothingNew ==
    ASSUME NothingLost, pc # "refused", UNCHANGED <<state, outbounds>>,
           \A p \in DOMAIN bodies : \A k \in DOMAIN bodies[p] :
               IsMet(p, k) => /\ p \in DOMAIN bodies' /\ k \in DOMAIN bodies'[p]
                              /\ IsMet(p, k)' /\ bodies'[p][k] = bodies[p][k],
           \A p \in DOMAIN bodies' : \A k \in DOMAIN bodies'[p] :
               IsMet(p, k)' => /\ p \in DOMAIN bodies /\ k \in DOMAIN bodies[p]
                               /\ IsMet(p, k) /\ bodies'[p][k] = bodies[p][k]
    PROVE  NothingLost'
<1>1. \A p \in DOMAIN bodies' : \A k \in DOMAIN bodies'[p] :
         IsMet(p, k)' =>
             \E j \in DOMAIN outbounds' : outbounds'[j].item = Parsed[bodies'[p][k]]
  BY DEF NothingLost
<1>2. ASSUME NEW j \in DOMAIN outbounds'
      PROVE  \E p \in DOMAIN bodies' : \E k \in DOMAIN bodies'[p] :
                 /\ IsMet(p, k)'
                 /\ outbounds'[j] = [tag  |-> Tag(state'[p], bodies'[p][k], k),
                                     item |-> Parsed[bodies'[p][k]]]
  <2>1. PICK p \in DOMAIN bodies : \E k \in DOMAIN bodies[p] :
                 /\ IsMet(p, k)
                 /\ outbounds[j] = [tag  |-> Tag(state[p], bodies[p][k], k),
                                    item |-> Parsed[bodies[p][k]]]
    BY DEF NothingLost
  <2>2. PICK k \in DOMAIN bodies[p] :
                 /\ IsMet(p, k)
                 /\ outbounds[j] = [tag  |-> Tag(state[p], bodies[p][k], k),
                                    item |-> Parsed[bodies[p][k]]]
    BY <2>1
  <2>3. /\ p \in DOMAIN bodies' /\ k \in DOMAIN bodies'[p]
        /\ IsMet(p, k)' /\ bodies'[p][k] = bodies[p][k]
    BY <2>2
  <2> QED BY <2>2, <2>3
<1>3. \A j, k \in DOMAIN outbounds' : j # k => outbounds'[j].item # outbounds'[k].item
  BY DEF NothingLost
<1> QED BY <1>1, <1>2, <1>3 DEF NothingLost, Tag

\* A step that changes no body, nor what has been looked at.
LEMMA BodiesKept ==
    ASSUME NothingLost, pc # "refused", UNCHANGED <<state, outbounds, bodies, index>>,
           pc \in {"plain", "inner"} <=> pc' \in {"plain", "inner"}
    PROVE  NothingLost'
BY NothingNew DEF IsMet, Provider

LEMMA FetchKeeps == ASSUME IInv, NothingLost, Fetch PROVE NothingLost'
<1>1. /\ bodies \in Seq(Seq(Uri \cup {Junk})) /\ Provider \in Nat /\ Provider = Len(bodies)
      /\ DOMAIN bodies = 1 .. Provider /\ bodies' = Append(bodies, << >>)
      /\ pc = "provider" /\ UNCHANGED <<state, outbounds>>
  BY DEF IInv, TypeOK, Provider, Fetch
<1>2. /\ DOMAIN bodies' = 1 .. Provider + 1 /\ Provider' = Provider + 1
      /\ \A p \in 1 .. Provider : bodies'[p] = bodies[p]
      /\ DOMAIN bodies'[Provider + 1] = {}
  BY <1>1 DEF Provider
<1>3. \A k \in DOMAIN bodies[Provider] : Provider > 0 => k <= index
  <2>1. Provider > 0 => Uris \in Seq(Uri \cup {Junk}) /\ index = Len(Uris)
    BY <1>1 DEF IInv, Progress, Uris
  <2> QED BY <2>1, LenProperties DEF Uris
<1>4. \A p \in 1 .. Provider : \A k \in DOMAIN bodies[p] : IsMet(p, k) <=> IsMet(p, k)'
  BY <1>1, <1>2, <1>3 DEF IsMet
<1> QED BY <1>1, <1>2, <1>4, NothingNew

LEMMA ReadLineKeeps == ASSUME IInv, NothingLost, ReadLine PROVE NothingLost'
<1>1. /\ Len(bodies') = Len(bodies) /\ DOMAIN bodies' = DOMAIN bodies
      /\ \A p \in DOMAIN bodies : p # Provider => bodies'[p] = bodies[p]
      /\ pc \in {"plain", "inner"} /\ pc' = pc /\ UNCHANGED <<state, outbounds>>
  BY DEF IInv, TypeOK, ReadLine
<1> QED BY <1>1, NothingNew DEF IsMet, Provider

LEMMA EndTextKeeps == ASSUME IInv, NothingLost, EndText PROVE NothingLost'
<1>1. /\ Len(bodies') = Len(bodies) /\ DOMAIN bodies' = DOMAIN bodies
      /\ \A p \in DOMAIN bodies : p # Provider => bodies'[p] = bodies[p]
      /\ pc \in {"plain", "inner"} /\ UNCHANGED <<state, outbounds>> /\ index' = 0
      /\ bodies' \in Seq(Seq(Uri \cup {Junk}))
  BY EndTextInv DEF IInv, TypeOK, EndText
<1>2. \A k : ~IsMet(Provider, k) /\ ~IsMet(Provider, k)'
  <2>1. \A p \in DOMAIN bodies' : \A k \in DOMAIN bodies'[p] : ~(k <= 0)
    <3>1. \A p \in DOMAIN bodies' : bodies'[p] \in Seq(Uri \cup {Junk})
      BY <1>1
    <3> QED BY <3>1, LenProperties
  <2> QED BY <1>1, <2>1 DEF IsMet, Provider
<1> QED BY <1>1, <1>2, NothingNew DEF IsMet, Provider

\* What the loop over nodes leaves alone, and what of it has been looked at
\* before and after.
LEMMA NodeMet ==
    ASSUME IInv, Node
    PROVE  /\ pc = "node" /\ Provider \in DOMAIN bodies /\ index + 1 \in DOMAIN bodies[Provider]
           /\ Uris = bodies[Provider] /\ UNCHANGED <<state, bodies>> /\ Provider' = Provider
           /\ pc' # "refused" =>
                 /\ pc' = "node"
                 /\ \A p \in DOMAIN bodies : \A k \in DOMAIN bodies[p] :
                       IsMet(p, k)' <=>
                           \/ IsMet(p, k)
                           \/ /\ p = Provider /\ k = index + 1
                              /\ bodies[p][k] \in Uri /\ Parsed[bodies[p][k]] \in Item
<1>1. /\ pc = "node" /\ Provider \in DOMAIN bodies /\ Uris = bodies[Provider]
      /\ index \in Nat /\ index < Len(Uris) /\ index' = index + 1
      /\ UNCHANGED <<state, bodies>> /\ Provider' = Provider
      /\ pc' = "node" \/ pc' = "refused"
  BY DEF IInv, TypeOK, Node, AcceptNode, SkipNode, Refuse, Provider, Uris
<1>2. DOMAIN bodies[Provider] = 1 .. Len(Uris) /\ Len(Uris) \in Nat
  BY <1>1, UrisIsSeq, LenProperties DEF IInv
<1>3. \A k \in DOMAIN bodies[Provider] : k <= index' <=> (k <= index \/ k = index + 1)
  BY <1>1, <1>2
<1> QED BY <1>1, <1>2, <1>3 DEF IsMet

LEMMA SkipNodeKeeps ==
    ASSUME IInv, NothingLost, Node, SkipNode(Uris[index + 1])
    PROVE  NothingLost'
<1>1. /\ UNCHANGED <<pc, outbounds>>
      /\ Uris[index + 1] \in Uri => Parsed[Uris[index + 1]] = Unparsable
  BY DEF SkipNode
<1>2. Unparsable \notin Item
  BY UriAssumption
<1> QED BY <1>1, <1>2, NodeMet, NothingNew

LEMMA AcceptNodeKeeps ==
    ASSUME IInv, NothingLost, Node, AcceptNode(Uris[index + 1]), pc' # "refused"
    PROVE  NothingLost'
<1> DEFINE uri == bodies[Provider][index + 1]
           new == [tag  |-> Tag(state[Provider], uri, index + 1),
                   item |-> Parsed[uri]]
<1>1. /\ uri \in Uri /\ Parsed[uri] \in Item /\ index + 1 \in DOMAIN bodies[Provider]
      /\ Provider \in DOMAIN bodies /\ UNCHANGED <<state, bodies>>
      /\ outbounds' = IF Parsed[uri] \in seen THEN outbounds ELSE Append(outbounds, new)
  BY NodeMet DEF AcceptNode, SeenBefore, Refuse
<1>2. \A p \in DOMAIN bodies : \A k \in DOMAIN bodies[p] :
         IsMet(p, k)' <=> IsMet(p, k) \/ (p = Provider /\ k = index + 1)
  BY <1>1, NodeMet
<1>3. /\ DOMAIN outbounds = 1 .. Len(outbounds) /\ Len(outbounds) \in Nat
      /\ \A j \in DOMAIN outbounds : outbounds[j].item \in seen
  BY OutboundsTyped DEF IInv
<1>10. /\ DOMAIN Append(outbounds, new) = 1 .. Len(outbounds) + 1
      /\ Append(outbounds, new)[Len(outbounds) + 1] = new
      /\ \A j \in DOMAIN outbounds : Append(outbounds, new)[j] = outbounds[j]
  <2> DEFINE R == [tag : tags, item : seen]
             S == R \cup {new}
  <2>1. outbounds \in Seq(R)
    BY DEF IInv, TypeOK
  <2> HIDE DEF R, new
  <2>2. outbounds \in Seq(S) /\ new \in S
    BY <2>1, SeqMonotonic
  <2> HIDE DEF S
  <2> QED BY <1>3, <2>2, AppendProperties, LenProperties
<1>11. new.item = Parsed[uri]
  OBVIOUS
<1> HIDE DEF new, uri
<1>4. \A j \in DOMAIN outbounds : j \in DOMAIN outbounds' /\ outbounds'[j] = outbounds[j]
  BY <1>1, <1>3, <1>10
<1>5. \/ outbounds' = outbounds /\ Parsed[uri] \in seen
      \/ /\ Parsed[uri] \notin seen
         /\ DOMAIN outbounds' = 1 .. Len(outbounds) + 1
         /\ outbounds'[Len(outbounds) + 1] = new
  BY <1>1, <1>10
<1>6. \E j \in DOMAIN outbounds' : outbounds'[j].item = Parsed[uri]
  <2>1. CASE outbounds' = outbounds /\ Parsed[uri] \in seen
    BY <2>1 DEF IInv, Progress
  <2>2. CASE outbounds'[Len(outbounds) + 1] = new /\ DOMAIN outbounds' = 1 .. Len(outbounds) + 1
    BY <2>2, <1>3, <1>11
  <2> QED BY <1>5, <2>1, <2>2
<1>7. \A p \in DOMAIN bodies' : \A k \in DOMAIN bodies'[p] :
         IsMet(p, k)' =>
             \E j \in DOMAIN outbounds' : outbounds'[j].item = Parsed[bodies'[p][k]]
  <2> SUFFICES ASSUME NEW p \in DOMAIN bodies, NEW k \in DOMAIN bodies[p], IsMet(p, k)'
               PROVE  \E j \in DOMAIN outbounds' : outbounds'[j].item = Parsed[bodies[p][k]]
    BY <1>1
  <2>1. CASE p = Provider /\ k = index + 1
    BY <2>1, <1>6 DEF uri
  <2>2. CASE IsMet(p, k)
    <3>1. PICK j \in DOMAIN outbounds : outbounds[j].item = Parsed[bodies[p][k]]
      BY <2>2, NodeMet DEF NothingLost
    <3> QED BY <3>1, <1>4
  <2> QED BY <1>2, <2>1, <2>2
<1>8. ASSUME NEW j \in DOMAIN outbounds'
      PROVE  \E p \in DOMAIN bodies' : \E k \in DOMAIN bodies'[p] :
                 /\ IsMet(p, k)'
                 /\ outbounds'[j] = [tag  |-> Tag(state'[p], bodies'[p][k], k),
                                     item |-> Parsed[bodies'[p][k]]]
  <2>1. CASE j \in DOMAIN outbounds
    <3>1. PICK p \in DOMAIN bodies : \E k \in DOMAIN bodies[p] :
                 /\ IsMet(p, k)
                 /\ outbounds[j] = [tag  |-> Tag(state[p], bodies[p][k], k),
                                    item |-> Parsed[bodies[p][k]]]
      BY <2>1, NodeMet DEF NothingLost
    <3>2. PICK k \in DOMAIN bodies[p] :
                 /\ IsMet(p, k)
                 /\ outbounds[j] = [tag  |-> Tag(state[p], bodies[p][k], k),
                                    item |-> Parsed[bodies[p][k]]]
      BY <3>1
    <3>3. IsMet(p, k)'
      BY <1>2, <3>2
    <3> QED BY <2>1, <3>2, <3>3, <1>1, <1>4
  <2>2. CASE j \notin DOMAIN outbounds
    <3>1. outbounds'[j] = new
      BY <2>2, <1>3, <1>5
    <3>2. PICK p \in DOMAIN bodies : p = Provider
      BY <1>1
    <3>3. PICK k \in DOMAIN bodies[p] : k = index + 1
      BY <1>1, <3>2
    <3>4. IsMet(p, k)'
      BY <1>2, <3>2, <3>3
    <3> QED BY <3>1, <3>2, <3>3, <3>4, <1>1 DEF new, uri
  <2> QED BY <2>1, <2>2
<1>9. \A j, k \in DOMAIN outbounds' : j # k => outbounds'[j].item # outbounds'[k].item
  <2>1. \A j, k \in DOMAIN outbounds : j # k => outbounds[j].item # outbounds[k].item
    BY NodeMet DEF NothingLost
  <2>2. CASE outbounds' = outbounds
    BY <2>1, <2>2
  <2>3. CASE /\ Parsed[uri] \notin seen /\ DOMAIN outbounds' = 1 .. Len(outbounds) + 1
             /\ outbounds'[Len(outbounds) + 1] = new
    <3>1. \A j \in DOMAIN outbounds' :
             \/ /\ j \in DOMAIN outbounds /\ outbounds'[j] = outbounds[j]
                /\ outbounds'[j].item # Parsed[uri]
             \/ j = Len(outbounds) + 1 /\ outbounds'[j].item = Parsed[uri]
      BY <2>3, <1>3, <1>4, <1>11
    <3> QED BY <2>1, <3>1
  <2> QED BY <2>2, <2>3, <1>5
<1> QED BY <1>7, <1>8, <1>9 DEF NothingLost, Tag

\* Skipping and merging lose nothing usable and invent nothing
\* (main.go:508-533).
THEOREM MergingIsSound == Spec => []NothingLost
<1>1. Init => NothingLost
  BY DEF Init, NothingLost
<1>2. IInv /\ NothingLost /\ [Next]_vars => NothingLost'
  <2> SUFFICES ASSUME IInv, NothingLost, [Next]_vars, pc' # "refused"
               PROVE  NothingLost'
    BY DEF NothingLost
  <2>1. CASE ReadBase
    BY <2>1, BodiesKept DEF ReadBase, Refuse
  <2>2. CASE CheckNames
    BY <2>2, BodiesKept DEF CheckNames, Refuse
  <2>3. CASE Fetch
    BY <2>3, FetchKeeps
  <2>4. CASE ReadLine
    BY <2>4, ReadLineKeeps
  <2>5. CASE EndText
    BY <2>5, EndTextKeeps
  <2>6. CASE Node
    BY <2>6, AcceptNodeKeeps, SkipNodeKeeps DEF Node
  <2>7. CASE EndProvider
    BY <2>7, BodiesKept DEF EndProvider, Refuse
  <2>8. CASE Assemble
    BY <2>8, BodiesKept DEF Assemble
  <2>9. CASE UNCHANGED vars
    BY <2>9, BodiesKept DEF vars
  <2> QED BY <2>1, <2>2, <2>3, <2>4, <2>5, <2>6, <2>7, <2>8, <2>9 DEF Next
<1> QED BY <1>1, <1>2, Invariance, PTL DEF Spec

\* A finished configuration has unique tags, groups that lead to outbounds and
\* every usable node once (main.go:466-548).
THEOREM ConfigurationsAreWhole == Spec => []ConfigurationIsWhole
  BY TagsAreUnique, GroupsAreSound, MergingIsSound, PTL DEF ConfigurationIsWhole

-----------------------------------------------------------------------------
(***************************************************************************)
(* The reference: what the loops have done with the places they have come  *)
(* past, which are an initial part of all places.                          *)
(***************************************************************************)

\* The places the loop over the nodes has come past.
Done == {pos \in Places : pos[1] = Provider => pc \notin {"plain", "inner"} /\ pos[2] <= index}

Met    == Done \cap Nodes
Missed == Done \ Nodes

MetFirsts ==
    {pos \in Met : \A q \in Met : Parsed[At(q)] = Parsed[At(pos)] => ~Before(q, pos)}

MissedFirst ==
    {pos \in Missed : Cardinality({q \in Missed : Before(q, pos)}) < MaxWarnings}

\* The first n lines without their comments.
KeepsUpTo(kept, lines, n) ==
    /\ Len(kept) = Number(lines, n)
    /\ \A k \in 1 .. n :
          lines[k] # Comment =>
              Number(lines, k) \in DOMAIN kept /\ kept[Number(lines, k)] = lines[k]
    /\ \A j \in DOMAIN kept : \E k \in 1 .. n : lines[k] = kept[j]

\* Every body is what its answer means, or on the way there.
Decoded ==
    /\ \A p \in DOMAIN bodies :
          p # Provider \/ pc \notin {"plain", "inner"} => Means(bodies[p], sent[p])
    /\ pc \in {"plain", "inner"} => KeepsUpTo(Uris, Text, index)
    /\ pc = "inner" => ~HasUri(sent[Provider].lines)

\* No check has failed so far.
Passed ==
    /\ pc \notin {"base", "names"} => NamesDiffer
    /\ \A p, q \in Met : p # q => TagAt(p) # TagAt(q)
    /\ pc # "base" => \A pos \in Met, k \in DOMAIN base : TagAt(pos) # base[k].tag
    /\ \A p \in DOMAIN bodies :
          p # Provider \/ pc \in {"provider", "built"} => \E pos \in Met : pos[1] = p

\* Tags, fingerprints and counter hold what has been met.
Collected ==
    /\ pc # "base" =>
          tags = {base[k].tag : k \in DOMAIN base} \cup {TagAt(pos) : pos \in Met}
    /\ seen = {Parsed[At(pos)] : pos \in Met}
    /\ pc \in {"plain", "inner"} => counted = 0
    /\ pc = "node" => (counted > 0 <=> \E pos \in Met : pos[1] = Provider)

\* The lists hold it in order, and the skipped places are counted.
Listed ==
    /\ Enumerates(outbounds, [pos \in MetFirsts |-> OutboundAt(pos)])
    /\ IsFiniteSet(Missed) /\ skipped = Cardinality(Missed)
    /\ Len(warnings) = IF skipped < MaxWarnings THEN skipped ELSE MaxWarnings
    /\ Enumerates(warnings, [pos \in MissedFirst |-> pos])

\* A finished configuration is assembled from what was generated.
Finished == pc = "built" => Provider = Len(state) /\ IsConfiguration(config, outbounds)

\* A refusal is deserved, and until then no check has failed and the variables
\* hold what the places come past amount to.
RInv ==
    /\ Decoded
    /\ pc = "refused" => ~Acceptable
    /\ pc # "refused" => Passed /\ Collected /\ Listed
    /\ Finished

-----------------------------------------------------------------------------
\* Counting the lines without comments, one after the other.
LEMMA NumberSteps ==
    ASSUME NEW lines, NEW n \in Nat
    PROVE  /\ Number(lines, 0) = 0 /\ Number(lines, n) \in Nat
           /\ Number(lines, n + 1) =
                  IF lines[n + 1] = Comment THEN Number(lines, n) ELSE Number(lines, n) + 1
<1> DEFINE N == {i \in 1 .. n : lines[i] # Comment}
           M == {i \in 1 .. n + 1 : lines[i] # Comment}
<1>1. {i \in 1 .. 0 : lines[i] # Comment} = {}
  OBVIOUS
<1>2. Number(lines, 0) = 0
  BY <1>1, FS_EmptySet DEF Number
<1>3. IsFiniteSet(N)
  <2>1. IsFiniteSet(1 .. n) /\ N \subseteq 1 .. n
    BY FS_Interval
  <2> QED BY <2>1, FS_Subset
<1>4. M = IF lines[n + 1] = Comment THEN N ELSE N \cup {n + 1}
  OBVIOUS
<1>5. n + 1 \notin N
  OBVIOUS
<1>6. Number(lines, n) = Cardinality(N) /\ Number(lines, n + 1) = Cardinality(M)
  BY DEF Number
<1> HIDE DEF N, M
<1>7. Cardinality(N) \in Nat
  BY <1>3, FS_CardinalityType
<1>8. n + 1 \notin N => Cardinality(N \cup {n + 1}) = Cardinality(N) + 1
  BY <1>3, FS_AddElement
<1>9. Number(lines, n + 1) =
         IF lines[n + 1] = Comment THEN Number(lines, n) ELSE Number(lines, n) + 1
  BY <1>4, <1>5, <1>6, <1>8
<1> QED BY <1>2, <1>6, <1>7, <1>9

\* decodeBody() keeps the lines it should, one after the other.
LEMMA KeepsStep ==
    ASSUME NEW S, NEW kept \in Seq(S), NEW lines, NEW n \in Nat,
           KeepsUpTo(kept, lines, n), lines[n + 1] \in S \cup {Comment}
    PROVE  KeepsUpTo(IF lines[n + 1] = Comment THEN kept ELSE Append(kept, lines[n + 1]),
                     lines, n + 1)
<1> DEFINE line == lines[n + 1]
<1>1. /\ Len(kept) = Number(lines, n) /\ Len(kept) \in Nat /\ DOMAIN kept = 1 .. Len(kept)
      /\ \A k \in 1 .. n :
            lines[k] # Comment =>
                Number(lines, k) \in DOMAIN kept /\ kept[Number(lines, k)] = lines[k]
      /\ \A j \in DOMAIN kept : \E k \in 1 .. n : lines[k] = kept[j]
  BY LenProperties DEF KeepsUpTo
<1>2. 1 .. n + 1 = 1 .. n \cup {n + 1}
  OBVIOUS
<1>3. CASE line = Comment
  <2>1. Number(lines, n + 1) = Number(lines, n)
    BY <1>3, NumberSteps
  <2> QED BY <1>1, <1>2, <1>3, <2>1 DEF KeepsUpTo
<1>4. CASE line # Comment
  <2> DEFINE more == Append(kept, line)
  <2>0. Number(lines, n + 1) = Number(lines, n) + 1
    BY <1>4, NumberSteps
  <2>1. Number(lines, n + 1) = Len(kept) + 1
    BY <1>1, <2>0
  <2>2. /\ Len(more) = Len(kept) + 1 /\ DOMAIN more = 1 .. Len(kept) + 1
        /\ more[Len(kept) + 1] = line
        /\ \A j \in 1 .. Len(kept) : more[j] = kept[j]
    BY <1>1, <1>4, AppendProperties
  <2> HIDE DEF more
  <2>3. \A k \in 1 .. n + 1 :
           lines[k] # Comment =>
               Number(lines, k) \in DOMAIN more /\ more[Number(lines, k)] = lines[k]
    BY <1>1, <1>2, <2>1, <2>2
  <2>4. \A j \in DOMAIN more : \E k \in 1 .. n + 1 : lines[k] = more[j]
    BY <1>1, <1>2, <2>2
  <2>5. KeepsUpTo(more, lines, n + 1)
    BY <2>1, <2>2, <2>3, <2>4 DEF KeepsUpTo
  <2> QED BY <1>4, <2>5 DEF more
<1> QED BY <1>3, <1>4

LEMMA KeepsAll ==
    ASSUME NEW S, NEW lines \in Seq(S), NEW kept, KeepsUpTo(kept, lines, Len(lines))
    PROVE  Keeps(kept, lines) /\ (HasUri(kept) <=> HasUri(lines))
<1>1. DOMAIN lines = 1 .. Len(lines)
  BY LenProperties
<1>2. Keeps(kept, lines)
  BY <1>1 DEF KeepsUpTo, Keeps
<1>3. Comment \notin Uri
  BY UriAssumption
<1> QED BY <1>1, <1>2, <1>3 DEF KeepsUpTo, HasUri

\* A list grows by what is made of a later place.
LEMMA EnumerationGrows ==
    ASSUME NEW S, NEW list \in Seq(S), NEW made, NEW pos, NEW new \in S, NEW all,
           Enumerates(list, made), pos \notin DOMAIN made, ~Before(pos, pos),
           \A p \in DOMAIN made : made[p] # new /\ Before(p, pos) /\ ~Before(pos, p),
           DOMAIN all = DOMAIN made \cup {pos}, all[pos] = new,
           \A p \in DOMAIN made : all[p] = made[p]
    PROVE  Enumerates(Append(list, new), all)
<1> DEFINE more == Append(list, new)
<1>1. /\ Len(list) \in Nat /\ DOMAIN list = 1 .. Len(list)
      /\ DOMAIN more = 1 .. Len(list) + 1 /\ more[Len(list) + 1] = new
      /\ \A j \in 1 .. Len(list) : more[j] = list[j]
  BY AppendProperties, LenProperties
<1>2. /\ DOMAIN all = DOMAIN made \cup {pos} /\ all[pos] = new
      /\ \A p \in DOMAIN made : all[p] = made[p] /\ p # pos
  OBVIOUS
<1>3. /\ \A j \in DOMAIN list : \E p \in DOMAIN made : list[j] = made[p]
      /\ \A p \in DOMAIN made : \E j \in DOMAIN list : list[j] = made[p]
      /\ \A j, k \in DOMAIN list : \A p, q \in DOMAIN made :
            list[j] = made[p] /\ list[k] = made[q] => (j < k <=> Before(p, q))
  BY DEF Enumerates
<1> HIDE DEF more
<1>4. \A j \in DOMAIN list : list[j] # new
  BY <1>3
<1>5. \A j \in DOMAIN more : \E p \in DOMAIN all : more[j] = all[p]
  BY <1>1, <1>2, <1>3
<1>6. \A p \in DOMAIN all : \E j \in DOMAIN more : more[j] = all[p]
  BY <1>1, <1>2, <1>3
<1>7. ASSUME NEW j \in DOMAIN more, NEW k \in DOMAIN more,
             NEW p \in DOMAIN all, NEW q \in DOMAIN all,
             more[j] = all[p], more[k] = all[q]
      PROVE  j < k <=> Before(p, q)
  <2>1. \/ j \in DOMAIN list /\ p \in DOMAIN made /\ list[j] = made[p]
        \/ j = Len(list) + 1 /\ p = pos
    BY <1>1, <1>2, <1>4, <1>7
  <2>2. \/ k \in DOMAIN list /\ q \in DOMAIN made /\ list[k] = made[q]
        \/ k = Len(list) + 1 /\ q = pos
    BY <1>1, <1>2, <1>4, <1>7
  <2> QED BY <1>1, <1>3, <2>1, <2>2
<1>8. Enumerates(more, all)
  BY <1>5, <1>6, <1>7 DEF Enumerates
<1> QED BY <1>8 DEF more

-----------------------------------------------------------------------------
\* A place is a provider and a line of its body.
LEMMA PlaceSet ==
    ASSUME NEW B, NEW pos
    PROVE  pos \in UNION {{p} \X DOMAIN B[p] : p \in DOMAIN B} <=>
               /\ pos = <<pos[1], pos[2]>>
               /\ pos[1] \in DOMAIN B /\ pos[2] \in DOMAIN B[pos[1]]
<1>1. ASSUME pos \in UNION {{p} \X DOMAIN B[p] : p \in DOMAIN B}
      PROVE  /\ pos = <<pos[1], pos[2]>>
             /\ pos[1] \in DOMAIN B /\ pos[2] \in DOMAIN B[pos[1]]
  <2>1. PICK p \in DOMAIN B : pos \in {p} \X DOMAIN B[p]
    BY <1>1
  <2> QED BY <2>1
<1>2. ASSUME pos = <<pos[1], pos[2]>>, pos[1] \in DOMAIN B, pos[2] \in DOMAIN B[pos[1]]
      PROVE  pos \in UNION {{p} \X DOMAIN B[p] : p \in DOMAIN B}
  <2>1. pos \in {pos[1]} \X DOMAIN B[pos[1]]
    BY <1>2
  <2> QED BY <1>2, <2>1
<1> QED BY <1>1, <1>2

\* Bodies are sequences of lines.
LEMMA BodiesAreSeqs ==
    ASSUME TypeOK
    PROVE  /\ Provider \in Nat /\ DOMAIN bodies = 1 .. Provider
           /\ \A p \in 1 .. Provider :
                 /\ bodies[p] \in Seq(Uri \cup {Junk}) /\ Len(bodies[p]) \in Nat
                 /\ DOMAIN bodies[p] = 1 .. Len(bodies[p])
<1> DEFINE S == Seq(Uri \cup {Junk})
<1>1. bodies \in Seq(S)
  BY DEF TypeOK
<1>2. \A s \in S : Len(s) \in Nat /\ DOMAIN s = 1 .. Len(s)
  BY LenProperties
<1> HIDE DEF S
<1>3. /\ Provider \in Nat /\ DOMAIN bodies = 1 .. Provider
      /\ \A p \in 1 .. Provider : bodies[p] \in S
  BY <1>1, LenProperties, ElementOfSeq DEF Provider
<1>4. \A p \in 1 .. Provider : Len(bodies[p]) \in Nat /\ DOMAIN bodies[p] = 1 .. Len(bodies[p])
  BY <1>2, <1>3
<1> QED BY <1>3, <1>4 DEF S

\* The places come past are these.
LEMMA DoneSet ==
    ASSUME IInv, NEW pos
    PROVE  pos \in Done <=>
               /\ pos = <<pos[1], pos[2]>>
               /\ pos[1] \in 1 .. Provider /\ pos[2] \in 1 .. Len(bodies[pos[1]])
               /\ pos[1] = Provider => pc \notin {"plain", "inner"} /\ pos[2] <= index
<1>1. pos \in Places <=>
         /\ pos = <<pos[1], pos[2]>>
         /\ pos[1] \in DOMAIN bodies /\ pos[2] \in DOMAIN bodies[pos[1]]
  BY PlaceSet DEF Places
<1>2. /\ Provider \in Nat /\ DOMAIN bodies = 1 .. Provider
      /\ \A p \in 1 .. Provider : DOMAIN bodies[p] = 1 .. Len(bodies[p])
  BY BodiesAreSeqs DEF IInv
<1> QED BY <1>1, <1>2 DEF Done

\* Everything else than looking at a node leaves the places come past alone.
DoneKept ==
    /\ Done' = Done
    /\ \A pos \in Done : At(pos)' = At(pos)

LEMMA DoneIsKept ==
    ASSUME IInv, UNCHANGED <<bodies, index>>,
           pc \in {"plain", "inner"} <=> pc' \in {"plain", "inner"}
    PROVE  DoneKept
BY DEF DoneKept, Done, Places, Provider, At

LEMMA FetchDone == ASSUME IInv, Fetch PROVE DoneKept
<1>1. /\ Provider \in Nat /\ DOMAIN bodies = 1 .. Provider
      /\ bodies \in Seq(Seq(Uri \cup {Junk})) /\ Provider = Len(bodies)
      /\ bodies' = Append(bodies, << >>) /\ pc = "provider" /\ index' = 0
  BY BodiesAreSeqs DEF IInv, TypeOK, Fetch, Provider
<1>2. /\ DOMAIN bodies' = 1 .. Provider + 1 /\ Provider' = Provider + 1
      /\ \A p \in 1 .. Provider : bodies'[p] = bodies[p]
      /\ DOMAIN bodies'[Provider + 1] = {}
  BY <1>1 DEF Provider
<1>3. \A p \in 1 .. Provider : DOMAIN bodies[p] = 1 .. Len(bodies[p])
  BY BodiesAreSeqs DEF IInv
<1>4. Provider > 0 => index = Len(bodies[Provider])
  BY <1>1 DEF IInv, Progress, Uris
<1>5. ASSUME NEW pos
      PROVE  pos \in Done' <=> pos \in Done
  <2>1. pos \in Done' <=>
           /\ pos = <<pos[1], pos[2]>>
           /\ pos[1] \in DOMAIN bodies' /\ pos[2] \in DOMAIN bodies'[pos[1]]
           /\ pos[1] = Provider' => pc' \notin {"plain", "inner"} /\ pos[2] <= index'
    BY PlaceSet DEF Done, Places
  <2>2. pos \in Done' <=>
           /\ pos = <<pos[1], pos[2]>>
           /\ pos[1] \in 1 .. Provider /\ pos[2] \in 1 .. Len(bodies[pos[1]])
    BY <1>1, <1>2, <1>3, <2>1
  <2>3. pos \in Done <=>
           /\ pos = <<pos[1], pos[2]>>
           /\ pos[1] \in 1 .. Provider /\ pos[2] \in 1 .. Len(bodies[pos[1]])
    BY <1>1, <1>3, <1>4, DoneSet
  <2> QED BY <2>2, <2>3
<1>6. \A pos \in Done : At(pos)' = At(pos)
  BY <1>2, DoneSet DEF At
<1> QED BY <1>5, <1>6 DEF DoneKept

\* While a body is being read, none of its lines has been looked at.
LEMMA ReadingDone ==
    ASSUME IInv, pc \in {"plain", "inner"}, IInv', Len(bodies') = Len(bodies),
           \A p \in DOMAIN bodies : p # Provider => bodies'[p] = bodies[p],
           pc' \in {"plain", "inner"} \/ index' = 0
    PROVE  DoneKept
<1>1. /\ Provider \in Nat /\ DOMAIN bodies = 1 .. Provider
      /\ \A p \in 1 .. Provider : DOMAIN bodies[p] = 1 .. Len(bodies[p])
  BY BodiesAreSeqs DEF IInv
<1>2. Provider' = Provider /\ DOMAIN bodies' = 1 .. Provider
  <2>1. bodies' \in Seq(Seq(Uri \cup {Junk}))
    BY DEF IInv, TypeOK
  <2> QED BY <2>1, LenProperties DEF Provider
<1>3. \A k \in DOMAIN bodies'[Provider] : Provider > 0 => ~(k <= 0)
  <2>1. Provider > 0 => bodies'[Provider] \in Seq(Uri \cup {Junk})
    BY <1>1, <1>2 DEF IInv, TypeOK
  <2> QED BY <2>1, LenProperties
<1>4. ASSUME NEW pos
      PROVE  pos \in Done' <=> pos \in Done
  <2>1. pos \in Done' <=>
           /\ pos = <<pos[1], pos[2]>>
           /\ pos[1] \in DOMAIN bodies' /\ pos[2] \in DOMAIN bodies'[pos[1]]
           /\ pos[1] = Provider' => pc' \notin {"plain", "inner"} /\ pos[2] <= index'
    BY PlaceSet DEF Done, Places
  <2>2. pos \in Done <=>
           /\ pos = <<pos[1], pos[2]>>
           /\ pos[1] \in DOMAIN bodies /\ pos[2] \in DOMAIN bodies[pos[1]]
           /\ pos[1] # Provider
    BY <1>1, DoneSet
  <2> QED BY <1>1, <1>2, <1>3, <2>1, <2>2
<1>5. \A pos \in Done : At(pos)' = At(pos)
  BY <1>1, DoneSet DEF At
<1> QED BY <1>4, <1>5 DEF DoneKept

\* What has been met and missed depends on no more than that.
LEMMA PlacesKept ==
    ASSUME DoneKept, state' = state
    PROVE  /\ Met' = Met /\ Missed' = Missed
           /\ MetFirsts' = MetFirsts /\ MissedFirst' = MissedFirst
           /\ \A pos \in Met : /\ At(pos)' = At(pos) /\ TagAt(pos)' = TagAt(pos)
                               /\ OutboundAt(pos)' = OutboundAt(pos)
<1>1. Done' = Done /\ \A pos \in Done : At(pos)' = At(pos)
  BY DEF DoneKept
<1>2. Met' = Met /\ Missed' = Missed
  <2>1. /\ Met = {pos \in Done : At(pos) \in Uri /\ Parsed[At(pos)] \in Item}
        /\ Missed = {pos \in Done : ~(At(pos) \in Uri /\ Parsed[At(pos)] \in Item)}
    BY DEF Met, Missed, Done, Nodes
  <2>2. /\ Met' = {pos \in Done' : At(pos)' \in Uri /\ Parsed[At(pos)'] \in Item}
        /\ Missed' = {pos \in Done' : ~(At(pos)' \in Uri /\ Parsed[At(pos)'] \in Item)}
    BY DEF Met, Missed, Done, Nodes
  <2> QED BY <1>1, <2>1, <2>2
<1>3. \A pos \in Met : At(pos)' = At(pos)
  BY <1>1 DEF Met
<1>4. MetFirsts' = MetFirsts
  BY <1>2, <1>3 DEF MetFirsts
<1>5. MissedFirst' = MissedFirst
  BY <1>2 DEF MissedFirst
<1>6. \A pos \in Met : TagAt(pos)' = TagAt(pos)
  BY <1>3 DEF TagAt, Tag
<1>7. \A pos \in Met : OutboundAt(pos)' = OutboundAt(pos)
  BY <1>3, <1>6 DEF OutboundAt
<1> QED BY <1>2, <1>3, <1>4, <1>5, <1>6, <1>7

LEMMA ListedKept ==
    ASSUME DoneKept, Listed, UNCHANGED <<state, outbounds, skipped, warnings>>
    PROVE  Listed'
<1>1. /\ Missed' = Missed /\ MissedFirst' = MissedFirst /\ MetFirsts' = MetFirsts
      /\ \A pos \in MetFirsts : OutboundAt(pos)' = OutboundAt(pos)
  BY PlacesKept DEF MetFirsts
<1>2. [pos \in MetFirsts |-> OutboundAt(pos)]' = [pos \in MetFirsts |-> OutboundAt(pos)]
  BY <1>1
<1>3. Enumerates(outbounds, [pos \in MetFirsts |-> OutboundAt(pos)])'
  BY <1>2 DEF Listed, Enumerates, Before
<1>4. Enumerates(warnings, [pos \in MissedFirst |-> pos])'
  BY <1>1 DEF Listed, Enumerates, Before
<1> QED BY <1>1, <1>3, <1>4 DEF Listed

\* The tags, nodes and checks so far, when no place is come past.
LEMMA CollectedKept ==
    ASSUME DoneKept, Passed, Collected, UNCHANGED <<base, state>>
    PROVE  /\ \A p, q \in Met' : p # q => TagAt(p)' # TagAt(q)'
           /\ pc # "base" => \A pos \in Met', k \in DOMAIN base' : TagAt(pos)' # base'[k].tag
           /\ pc # "base" =>
                 tags = {base'[k].tag : k \in DOMAIN base'} \cup {TagAt(pos)' : pos \in Met'}
           /\ seen = {Parsed[At(pos)'] : pos \in Met'}
           /\ \A p : (\E pos \in Met' : pos[1] = p) <=> (\E pos \in Met : pos[1] = p)
<1>1. /\ Met' = Met
      /\ \A pos \in Met : At(pos)' = At(pos) /\ TagAt(pos)' = TagAt(pos)
  BY PlacesKept
<1>2. {TagAt(pos)' : pos \in Met'} = {TagAt(pos) : pos \in Met}
  BY <1>1
<1>3. {Parsed[At(pos)'] : pos \in Met'} = {Parsed[At(pos)] : pos \in Met}
  BY <1>1
<1> QED BY <1>1, <1>2, <1>3 DEF Passed, Collected

\* Before the first provider there are no places.
LEMMA NoPlaces ==
    ASSUME IInv, pc \in {"base", "names"}
    PROVE  Places = {} /\ Met = {} /\ DOMAIN bodies = {} /\ Provider = 0
<1>1. bodies = << >>
  BY DEF IInv, Fresh
<1> QED BY <1>1 DEF Places, Met, Done, Provider

\* One lemma per action: the reference is kept to.
LEMMA InitReference == IInv /\ Init => RInv
<1> SUFFICES ASSUME IInv, Init PROVE RInv
  OBVIOUS
<1>1. Places = {} /\ bodies = << >> /\ Provider = 0
  BY NoPlaces DEF Init
<1>2. Met = {} /\ Missed = {} /\ MetFirsts = {} /\ MissedFirst = {}
  BY <1>1 DEF Met, Missed, MetFirsts, MissedFirst, Done
<1>3. Decoded /\ Finished
  BY <1>1 DEF Init, Decoded, Finished
<1>4. Passed /\ Collected
  BY <1>1, <1>2 DEF Init, Passed, Collected
<1>5. Listed
  BY <1>2, FS_EmptySet, LimitAssumption DEF Init, Listed, Enumerates
<1> QED BY <1>3, <1>4, <1>5 DEF RInv, Init

LEMMA ReadBaseReference == ASSUME IInv, RInv, ReadBase PROVE RInv'
<1>1. DoneKept
  BY DoneIsKept DEF ReadBase, Refuse
<1>2. /\ pc = "base" /\ pc' \in {"names", "refused"}
      /\ UNCHANGED <<base, state, sent, bodies, index, seen, outbounds, counted, skipped,
                     warnings, config>>
      /\ pc' = "refused" => base = NoBase \/ ~Distinct(base)
      /\ pc' = "names" => tags' = {base[k].tag : k \in DOMAIN base}
  BY DEF ReadBase, Refuse
<1>3. Met = {} /\ DOMAIN bodies = {} /\ Met' = {}
  BY <1>1, <1>2, NoPlaces, PlacesKept
<1>4. Decoded' /\ Finished'
  BY <1>2, <1>3 DEF Decoded, Finished
<1>5. pc' = "refused" => ~Acceptable'
  BY <1>2 DEF Acceptable, Distinct
<1>6. Listed'
  BY <1>1, <1>2, ListedKept DEF RInv
<1>7. pc' = "names" => Passed' /\ Collected'
  <2>1. seen' = {}
    BY <1>2, <1>3 DEF RInv, Collected
  <2> QED BY <1>2, <1>3, <2>1 DEF Passed, Collected
<1> QED BY <1>2, <1>4, <1>5, <1>6, <1>7 DEF RInv

LEMMA CheckNamesReference == ASSUME IInv, RInv, CheckNames PROVE RInv'
<1>1. DoneKept
  BY DoneIsKept DEF CheckNames, Refuse
<1>2. /\ pc = "names" /\ pc' \in {"provider", "refused"}
      /\ UNCHANGED <<base, state, sent, bodies, index, tags, seen, outbounds, counted, skipped,
                     warnings, config>>
      /\ pc' = "refused" => ~NamesDiffer
      /\ pc' = "provider" => NamesDiffer
  BY DEF CheckNames, Refuse
<1>3. DOMAIN bodies = {}
  BY <1>2, NoPlaces
<1>4. Decoded' /\ Finished'
  BY <1>2, <1>3 DEF Decoded, Finished
<1>5. NamesDiffer' <=> NamesDiffer
  BY <1>2 DEF NamesDiffer
<1>6. Listed'
  BY <1>1, <1>2, ListedKept DEF RInv
<1>7. pc' = "provider" => Passed' /\ Collected'
  BY <1>1, <1>2, <1>3, <1>5, CollectedKept DEF Passed, Collected, RInv
<1> QED BY <1>2, <1>4, <1>5, <1>6, <1>7 DEF RInv, Acceptable

\* A provider without nodes makes the inputs unacceptable.
LEMMA Unusable ==
    ASSUME NEW p \in DOMAIN bodies',
           \A k \in DOMAIN bodies'[p] : bodies'[p][k] \in Uri => Parsed[bodies'[p][k]] \notin Item
    PROVE  ~Acceptable'
<1>1. \A pos \in Nodes' : /\ pos[1] = p => pos[2] \in DOMAIN bodies'[p]
                          /\ bodies'[pos[1]][pos[2]] \in Uri
                          /\ Parsed[bodies'[pos[1]][pos[2]]] \in Item
  BY PlaceSet DEF Nodes, Places, At
<1> QED BY <1>1 DEF Acceptable

LEMMA FetchReference == ASSUME IInv, RInv, Fetch, IInv' PROVE RInv'
<1>1. DoneKept
  BY FetchDone
<1>2. /\ pc = "provider" /\ Provider < Len(state)
      /\ UNCHANGED <<base, state, tags, seen, outbounds, skipped, warnings, config>>
      /\ index' = 0 /\ counted' = 0 /\ bodies' = Append(bodies, << >>)
      /\ \/ pc' = "plain" /\ \E body \in Bodies : sent' = Append(sent, body)
         \/ pc' = "refused" /\ sent' = Append(sent, NoBody)
  BY DEF Fetch, Refuse
<1>3. /\ Provider \in Nat /\ DOMAIN bodies = 1 .. Provider
      /\ DOMAIN bodies' = 1 .. Provider + 1 /\ Provider' = Provider + 1
      /\ \A p \in 1 .. Provider : bodies'[p] = bodies[p] /\ sent'[p] = sent[p]
      /\ bodies'[Provider + 1] = << >>
      /\ pc' = "refused" => sent'[Provider + 1] = NoBody
  <2>1. /\ Provider \in Nat /\ DOMAIN bodies = 1 .. Provider
        /\ bodies \in Seq(Seq(Uri \cup {Junk})) /\ Provider = Len(bodies)
        /\ sent \in Seq(Bodies \cup {NoBody}) /\ Len(sent) = Provider
    BY BodiesAreSeqs DEF IInv, TypeOK, Provider
  <2>2. \E body \in Bodies \cup {NoBody} :
           sent' = Append(sent, body) /\ (pc' = "refused" => body = NoBody)
    BY <1>2
  <2> QED BY <1>2, <2>1, <2>2 DEF Provider
<1>4. pc' = "refused" => Means(bodies'[Provider + 1], sent'[Provider + 1])
  <2>1. DOMAIN << >> = {} /\ Len(<< >>) = 0
    OBVIOUS
  <2>2. Keeps(<< >>, << >>) /\ ~HasUri(<< >>)
    BY <2>1, NumberSteps DEF Keeps, HasUri
  <2> QED BY <1>3, <2>2 DEF Means, NoBody
<1>5. pc' = "plain" => KeepsUpTo(Uris, Text, index)'
  <2>1. Uris' = << >>
    BY <1>3 DEF Uris
  <2>2. KeepsUpTo(<< >>, Text', 0)
    BY NumberSteps DEF KeepsUpTo
  <2> QED BY <1>2, <2>1, <2>2
<1>6. Decoded'
  <2>1. \A p \in 1 .. Provider : Means(bodies[p], sent[p])
    BY <1>2, <1>3 DEF RInv, Decoded
  <2> QED BY <1>2, <1>3, <1>4, <1>5, <2>1 DEF Decoded
<1>7. pc' = "refused" => ~Acceptable'
  <2>1. Provider + 1 \in DOMAIN bodies' /\ DOMAIN bodies'[Provider + 1] = {}
    BY <1>3
  <2> QED BY <2>1, Unusable
<1>8. Listed'
  BY <1>1, <1>2, ListedKept DEF RInv
<1>9. pc' = "plain" => Passed' /\ Collected'
  <2>1. Passed /\ Collected /\ NamesDiffer'
    BY <1>2 DEF RInv, Passed, NamesDiffer
  <2>2. ASSUME NEW p \in DOMAIN bodies', p # Provider'
        PROVE  \E pos \in Met' : pos[1] = p
    <3>1. p \in DOMAIN bodies
      BY <1>3, <2>2
    <3>2. \E pos \in Met : pos[1] = p
      BY <1>2, <2>1, <3>1 DEF Passed
    <3> QED BY <1>1, <1>2, <2>1, <3>2, CollectedKept
  <2> QED BY <1>1, <1>2, <2>1, <2>2, CollectedKept DEF Passed, Collected
<1>10. Finished'
  BY <1>2 DEF Finished
<1> QED BY <1>2, <1>6, <1>7, <1>8, <1>9, <1>10 DEF RInv

\* The other bodies, once read, stay what their answers mean.
LEMMA DecodedKept ==
    ASSUME Decoded, UNCHANGED <<bodies, sent>>,
           pc \notin {"plain", "inner"}, pc' \notin {"plain", "inner"}
    PROVE  Decoded'
BY DEF Decoded, Provider

LEMMA ReadLineReference == ASSUME IInv, RInv, ReadLine, IInv' PROVE RInv'
<1>1. /\ pc \in {"plain", "inner"} /\ pc' = pc /\ index < Len(Text) /\ index' = index + 1
      /\ bodies' = IF Text[index + 1] = Comment THEN bodies
                   ELSE [bodies EXCEPT ![Provider] = Append(@, Text[index + 1])]
      /\ UNCHANGED <<base, state, sent, tags, seen, outbounds, counted, skipped,
                     warnings, config>>
  BY DEF ReadLine
<1>2. /\ Provider \in 1 .. Len(bodies) /\ DOMAIN bodies = 1 .. Provider /\ Provider \in Nat
      /\ Text \in Seq(Line) /\ Uris \in Seq(Uri \cup {Junk}) /\ index \in Nat
  BY <1>1, TextIsSeq, BodiesAreSeqs DEF IInv, TypeOK, Provider
<1>3. /\ Len(bodies') = Len(bodies) /\ DOMAIN bodies' = DOMAIN bodies
      /\ Provider' = Provider /\ Text' = Text
      /\ \A p \in DOMAIN bodies : p # Provider => bodies'[p] = bodies[p]
      /\ Uris' = IF Text[index + 1] = Comment THEN Uris ELSE Append(Uris, Text[index + 1])
  BY <1>1, <1>2 DEF IInv, TypeOK, Provider, Text, Uris
<1>4. DoneKept
  BY <1>1, <1>3, ReadingDone
<1>5. KeepsUpTo(Uris', Text, index + 1)
  <2>1. Text[index + 1] \in (Uri \cup {Junk}) \cup {Comment}
    BY <1>1, <1>2 DEF Line
  <2>2. KeepsUpTo(Uris, Text, index)
    BY <1>1 DEF RInv, Decoded
  <2> QED BY <1>2, <1>3, <2>1, <2>2, KeepsStep
<1>6. Decoded'
  <2>1. KeepsUpTo(Uris, Text, index)'
    BY <1>1, <1>3, <1>5
  <2> QED BY <1>1, <1>3, <2>1 DEF RInv, Decoded
<1>7. Listed'
  BY <1>1, <1>4, ListedKept DEF RInv
<1>8. Passed' /\ Collected'
  <2>1. Passed /\ Collected /\ NamesDiffer'
    BY <1>1 DEF RInv, Passed, NamesDiffer
  <2>2. \A p \in DOMAIN bodies' : p # Provider' => \E pos \in Met' : pos[1] = p
    BY <1>1, <1>3, <1>4, <2>1, CollectedKept DEF Passed
  <2> QED BY <1>1, <1>4, <2>1, <2>2, CollectedKept DEF Passed, Collected
<1> QED BY <1>1, <1>6, <1>7, <1>8 DEF RInv, Finished

LEMMA EndTextReference == ASSUME IInv, RInv, EndText, IInv' PROVE RInv'
<1>1. /\ pc \in {"plain", "inner"} /\ index = Len(Text) /\ index' = 0
      /\ \/ /\ pc = "plain" /\ ~HasUri(Uris) /\ pc' = "inner"
            /\ bodies' = [bodies EXCEPT ![Provider] = << >>]
         \/ /\ pc = "plain" => HasUri(Uris)
            /\ bodies' = bodies /\ pc' = IF Uris = << >> THEN "refused" ELSE "node"
      /\ UNCHANGED <<base, state, sent, tags, seen, outbounds, counted, skipped,
                     warnings, config>>
  BY DEF EndText, Refuse
<1>2. /\ DOMAIN bodies = 1 .. Provider /\ Provider \in Nat /\ Provider > 0
      /\ Text \in Seq(Line) /\ Uris = bodies[Provider]
      /\ Text = IF pc = "plain" THEN sent[Provider].lines ELSE sent[Provider].inner
  BY <1>1, TextIsSeq, BodiesAreSeqs DEF IInv, TypeOK, Text, Uris
<1>3. /\ Len(bodies') = Len(bodies) /\ DOMAIN bodies' = DOMAIN bodies
      /\ Provider' = Provider
      /\ \A p \in DOMAIN bodies : p # Provider => bodies'[p] = bodies[p]
      /\ pc' = "inner" => Uris' = << >>
      /\ pc' # "inner" => Uris' = Uris
  <2>1. DOMAIN bodies' = DOMAIN bodies /\ Len(bodies') = Len(bodies) /\ Provider' = Provider
    BY <1>1, <1>2 DEF Provider
  <2>2. /\ \A p \in DOMAIN bodies : p # Provider => bodies'[p] = bodies[p]
        /\ pc' = "inner" => bodies'[Provider] = << >>
        /\ pc' # "inner" => bodies' = bodies
    BY <1>1, <1>2
  <2> QED BY <2>1, <2>2 DEF Uris
<1>4. DoneKept
  BY <1>1, <1>3, ReadingDone
<1>5. Keeps(Uris, Text) /\ (HasUri(Uris) <=> HasUri(Text))
  <2>1. KeepsUpTo(Uris, Text, Len(Text))
    BY <1>1 DEF RInv, Decoded
  <2> QED BY <1>2, <2>1, KeepsAll
<1>6. Decoded'
  <2>1. \A p \in DOMAIN bodies' : p # Provider' => Means(bodies'[p], sent'[p])
    BY <1>1, <1>3 DEF RInv, Decoded
  <2>2. CASE pc' = "inner"
    <3>1. KeepsUpTo(<< >>, Text', 0)
      BY NumberSteps DEF KeepsUpTo
    <3>2. ~HasUri(sent[Provider].lines)
      BY <1>1, <1>2, <1>5, <2>2
    <3> QED BY <1>1, <1>3, <2>1, <2>2, <3>1, <3>2 DEF Decoded
  <2>3. CASE pc' # "inner"
    <3>1. pc = "inner" => ~HasUri(sent[Provider].lines)
      BY DEF RInv, Decoded
    <3>2. Means(bodies[Provider], sent[Provider])
      BY <1>1, <1>2, <1>5, <2>3, <3>1 DEF Means
    <3> QED BY <1>1, <1>3, <2>1, <2>3, <3>2 DEF Decoded
  <2> QED BY <2>2, <2>3
<1>7. pc' = "refused" => ~Acceptable'
  <2>1. pc' = "refused" => Provider \in DOMAIN bodies' /\ DOMAIN bodies'[Provider] = {}
    BY <1>1, <1>2
  <2> QED BY <2>1, Unusable
<1>8. Listed'
  BY <1>1, <1>4, ListedKept DEF RInv
<1>9. Passed /\ Collected /\ NamesDiffer' /\ NamesDiffer
  BY <1>1 DEF RInv, Passed, NamesDiffer
<1>10. ~\E pos \in Met : pos[1] = Provider
  BY <1>1, DoneSet DEF Met
<1>11. pc' # "refused" => Passed' /\ Collected'
  <2>1. ASSUME NEW p \in DOMAIN bodies', p # Provider'
        PROVE  \E pos \in Met' : pos[1] = p
    <3>1. \E pos \in Met : pos[1] = p
      BY <1>3, <1>9, <2>1 DEF Passed
    <3> QED BY <1>1, <1>4, <1>9, <3>1, CollectedKept
  <2>2. counted = 0 /\ ~\E pos \in Met' : pos[1] = Provider'
    BY <1>1, <1>3, <1>4, <1>9, <1>10, CollectedKept DEF Collected
  <2>3. pc' # "refused" => Passed'
    BY <1>1, <1>4, <1>9, <2>1, CollectedKept DEF Passed
  <2>4. pc' # "refused" => Collected'
    <3>1. /\ tags = {base'[k].tag : k \in DOMAIN base'} \cup {TagAt(pos)' : pos \in Met'}
          /\ seen = {Parsed[At(pos)'] : pos \in Met'}
      BY <1>1, <1>4, <1>9, CollectedKept
    <3>2. tags' = {base'[k].tag : k \in DOMAIN base'} \cup {TagAt(pos)' : pos \in Met'}
      BY <1>1, <3>1
    <3>3. seen' = {Parsed[At(pos)'] : pos \in Met'}
      BY <1>1, <3>1
    <3>4. counted' = 0 /\ ~(counted' > 0)
      BY <1>1, <2>2
    <3> QED BY <2>2, <3>2, <3>3, <3>4 DEF Collected
  <2> QED BY <2>3, <2>4
<1>12. Finished'
  BY <1>1 DEF Finished
<1> QED BY <1>1, <1>6, <1>7, <1>8, <1>11, <1>12 DEF RInv

LEMMA EndProviderReference == ASSUME IInv, RInv, EndProvider, IInv' PROVE RInv'
<1>1. /\ pc = "node" /\ index = Len(Uris) /\ Provider > 0
      /\ pc' = IF counted > 0 THEN "provider" ELSE "refused"
      /\ UNCHANGED <<base, state, sent, bodies, index, tags, seen, outbounds, counted,
                     skipped, warnings, config>>
  BY DEF EndProvider, Usable, Refuse, IInv, TypeOK
<1>2. /\ DOMAIN bodies = 1 .. Provider /\ Provider \in Nat /\ Uris = bodies[Provider]
      /\ DOMAIN bodies[Provider] = 1 .. Len(Uris) /\ Provider' = Provider
  BY <1>1, BodiesAreSeqs DEF IInv, Uris, Provider
<1>3. DoneKept
  BY <1>1, DoneIsKept
<1>4. Passed /\ Collected /\ Decoded /\ NamesDiffer' /\ NamesDiffer
  BY <1>1 DEF RInv, Passed, NamesDiffer
<1>5. Decoded'
  BY <1>1, <1>4, DecodedKept
<1>6. pc' = "refused" => ~Acceptable'
  <2> SUFFICES ASSUME pc' = "refused", NEW k \in DOMAIN bodies'[Provider],
                      bodies'[Provider][k] \in Uri, Parsed[bodies'[Provider][k]] \in Item
               PROVE  FALSE
    BY <1>1, <1>2, Unusable
  <2>1. counted > 0 <=> \E pos \in Met : pos[1] = Provider
    BY <1>1, <1>4 DEF Collected
  <2>2. <<Provider, k>> \in Done
    BY <1>1, <1>2, DoneSet
  <2>3. <<Provider, k>> \in Nodes
    BY <1>1, <2>2 DEF Nodes, Done, At
  <2>4. <<Provider, k>> \in Met
    BY <2>2, <2>3 DEF Met
  <2> QED BY <1>1, <2>1, <2>4
<1>7. Listed'
  BY <1>1, <1>3, ListedKept DEF RInv
<1>8. pc' # "refused" => Passed' /\ Collected'
  <2>1. ASSUME NEW p \in DOMAIN bodies', pc' # "refused"
        PROVE  \E pos \in Met' : pos[1] = p
    <3>1. \E pos \in Met : pos[1] = p
      BY <1>1, <1>2, <1>4, <2>1 DEF Passed, Collected
    <3> QED BY <1>1, <1>3, <1>4, <3>1, CollectedKept
  <2>2. pc' # "refused" => Passed'
    BY <1>1, <1>3, <1>4, <2>1, CollectedKept DEF Passed
  <2>3. pc' # "refused" => Collected'
    BY <1>1, <1>3, <1>4, CollectedKept DEF Collected
  <2> QED BY <2>2, <2>3
<1>9. Finished'
  BY <1>1 DEF Finished
<1> QED BY <1>1, <1>5, <1>6, <1>7, <1>8, <1>9 DEF RInv

\* Between two providers all places are behind.
LEMMA AllDone ==
    ASSUME IInv, pc \in {"provider", "built"}
    PROVE  Met = Nodes /\ Missed = NoNodes /\ MetFirsts = Firsts /\ MissedFirst = Reported
<1>1. ASSUME NEW pos \in Places
      PROVE  pos \in Done
  <2>1. pos[1] \in DOMAIN bodies /\ pos[2] \in DOMAIN bodies[pos[1]]
    BY PlaceSet DEF Places
  <2>2. /\ Provider \in Nat /\ DOMAIN bodies = 1 .. Provider
        /\ \A p \in 1 .. Provider :
              DOMAIN bodies[p] = 1 .. Len(bodies[p]) /\ Len(bodies[p]) \in Nat
    BY BodiesAreSeqs DEF IInv
  <2>3. Provider > 0 => index = Len(bodies[Provider])
    BY DEF IInv, Progress, Uris
  <2>4. pos[1] = Provider => pos[2] <= index
    BY <2>1, <2>2, <2>3
  <2> QED BY <2>4 DEF Done
<1>2. Done = Places
  BY <1>1 DEF Done
<1>3. Met = Nodes /\ Missed = NoNodes
  BY <1>2 DEF Met, Missed, Nodes, NoNodes
<1> QED BY <1>3 DEF MetFirsts, Firsts, MissedFirst, Reported

LEMMA AssembleReference == ASSUME IInv, RInv, Assemble, IInv' PROVE RInv'
<1>1. /\ pc = "provider" /\ Provider = Len(state) /\ pc' = "built"
      /\ UNCHANGED <<base, state, sent, bodies, index, tags, seen, outbounds, counted,
                     skipped, warnings>>
      /\ Provider' = Provider
  BY DEF Assemble, Provider
<1>2. DoneKept
  BY <1>1, DoneIsKept
<1>3. Passed /\ Collected /\ Decoded /\ Listed /\ NamesDiffer' /\ NamesDiffer
  BY <1>1 DEF RInv, Passed, NamesDiffer
<1>4. Decoded'
  BY <1>1, <1>3, DecodedKept
<1>5. Listed'
  BY <1>1, <1>2, <1>3, ListedKept
<1>6. Passed'
  <2>1. ASSUME NEW p \in DOMAIN bodies'
        PROVE  \E pos \in Met' : pos[1] = p
    <3>1. \E pos \in Met : pos[1] = p
      BY <1>1, <1>3, <2>1 DEF Passed
    <3> QED BY <1>1, <1>2, <1>3, <3>1, CollectedKept
  <2> QED BY <1>1, <1>2, <1>3, <2>1, CollectedKept DEF Passed
<1>7. Collected'
  BY <1>1, <1>2, <1>3, CollectedKept DEF Collected
<1>8. Finished'
  <2>1. Enumerates(outbounds, [pos \in Firsts |-> OutboundAt(pos)])
    BY <1>1, <1>3, AllDone DEF Listed
  <2>2. /\ Firsts' = Firsts
        /\ \A pos : OutboundAt(pos)' = OutboundAt(pos)
    BY <1>1 DEF Firsts, Nodes, Places, OutboundAt, TagAt, Tag, At
  <2>3. [pos \in Firsts |-> OutboundAt(pos)]' = [pos \in Firsts |-> OutboundAt(pos)]
    BY <2>2
  <2>4. Enumerates(outbounds, [pos \in Firsts |-> OutboundAt(pos)])'
    BY <1>1, <2>1, <2>3
  <2>5. config' = [k \in DOMAIN base' |->
                      IF base'[k].tag \in Groups
                      THEN [base'[k] EXCEPT
                               !.members = [j \in DOMAIN outbounds' |-> outbounds'[j].tag] \o @]
                      ELSE base'[k]] \o outbounds'
    BY <1>1 DEF Assemble, GeneratedTags
  <2> QED BY <1>1, <2>4, <2>5 DEF Finished, IsConfiguration
<1> QED BY <1>1, <1>4, <1>5, <1>6, <1>7, <1>8 DEF RInv

LEMMA StutterReference == ASSUME IInv, RInv, UNCHANGED vars PROVE RInv'
<1>1. DoneKept
  BY DoneIsKept DEF vars
<1>2. Places' = Places /\ Nodes' = Nodes /\ \A pos : TagAt(pos)' = TagAt(pos)
  BY DEF vars, Places, Nodes, At, TagAt, Tag
<1>3. Acceptable' <=> Acceptable
  BY <1>2 DEF vars, Acceptable, Distinct, NamesDiffer
<1>4. Decoded'
  BY DEF vars, RInv, Decoded, Provider, Uris, Text
<1>5. pc # "refused" => Listed'
  BY <1>1, ListedKept DEF RInv, vars
<1>6. pc # "refused" => Passed' /\ Collected'
  <2>1. pc # "refused" => Passed'
    BY <1>1, CollectedKept DEF RInv, Passed, vars, NamesDiffer, Provider
  <2>2. pc # "refused" => Collected'
    BY <1>1, CollectedKept DEF RInv, Collected, vars, Provider
  <2> QED BY <2>1, <2>2
<1>7. Finished'
  <2>1. [pos \in Firsts |-> OutboundAt(pos)]' = [pos \in Firsts |-> OutboundAt(pos)]
    BY <1>2 DEF vars, Firsts, OutboundAt, At
  <2> QED BY <2>1 DEF RInv, Finished, vars, Provider, IsConfiguration
<1> QED BY <1>3, <1>4, <1>5, <1>6, <1>7 DEF RInv, vars

\* The place the loop looks at next.
NextPlace == <<Provider, index + 1>>

\* Looking at a node comes past one place, which is behind all others.
LEMMA NodeDone ==
    ASSUME IInv, Node
    PROVE  /\ pc = "node" /\ Provider' = Provider /\ Places' = Places
           /\ NextPlace \in Places /\ NextPlace \notin Done /\ Done' = Done \cup {NextPlace}
           /\ NextPlace[1] = Provider /\ NextPlace[2] = index + 1 /\ At(NextPlace) = Uris[index + 1]
           /\ ~Before(NextPlace, NextPlace)
           /\ \A pos \in Done : Before(pos, NextPlace) /\ ~Before(NextPlace, pos)
           /\ \A pos : /\ At(pos)' = At(pos) /\ TagAt(pos)' = TagAt(pos)
                       /\ OutboundAt(pos)' = OutboundAt(pos)
<1>1. /\ pc = "node" /\ index < Len(Uris) /\ index' = index + 1
      /\ UNCHANGED <<base, state, sent, bodies, config>>
      /\ Provider' = Provider /\ Places' = Places
      /\ pc' \in {"node", "refused"}
  BY DEF Node, AcceptNode, SkipNode, Refuse, Provider, Places
<1>2. /\ Provider \in Nat /\ DOMAIN bodies = 1 .. Provider /\ Provider > 0
      /\ \A p \in 1 .. Provider :
            Len(bodies[p]) \in Nat /\ DOMAIN bodies[p] = 1 .. Len(bodies[p])
      /\ index \in Nat /\ Uris = bodies[Provider]
  BY <1>1, BodiesAreSeqs DEF IInv, TypeOK, Uris
<1>3. NextPlace[1] = Provider /\ NextPlace[2] = index + 1 /\ NextPlace = <<NextPlace[1], NextPlace[2]>>
  BY DEF NextPlace
<1>4. NextPlace \in Places
  BY <1>1, <1>2, <1>3, PlaceSet DEF Places
<1>5. NextPlace \notin Done
  BY <1>2, <1>3, DoneSet
<1>6. ASSUME NEW pos
      PROVE  pos \in Done' <=> pos \in Done \cup {NextPlace}
  <2>1. pos \in Done' <=>
           pos \in Places /\ (pos[1] = Provider => pos[2] <= index + 1)
    BY <1>1 DEF Done
  <2>2. pos \in Done <=> pos \in Places /\ (pos[1] = Provider => pos[2] <= index)
    BY <1>1 DEF Done
  <2>3. pos \in Places =>
           /\ pos = <<pos[1], pos[2]>>
           /\ pos[1] \in 1 .. Provider /\ pos[2] \in 1 .. Len(bodies[pos[1]])
    BY <1>2, PlaceSet DEF Places
  <2>4. pos \in Places => pos[2] \in Nat
    BY <1>2, <2>3
  <2>5. pos \in Places /\ pos[1] = Provider /\ pos[2] = index + 1 => pos = NextPlace
    BY <2>3 DEF NextPlace
  <2>6. pos[2] \in Nat => (pos[2] <= index + 1 <=> (pos[2] <= index \/ pos[2] = index + 1))
    BY <1>2
  <2>7. CASE pos = NextPlace
    BY <1>2, <1>3, <1>4, <2>1, <2>7
  <2>8. CASE pos # NextPlace
    BY <2>1, <2>2, <2>4, <2>5, <2>6, <2>8
  <2> QED BY <2>7, <2>8
<1>7. \A pos \in Done : Before(pos, NextPlace) /\ ~Before(NextPlace, pos)
  <2> SUFFICES ASSUME NEW pos \in Done
               PROVE  Before(pos, NextPlace) /\ ~Before(NextPlace, pos)
    OBVIOUS
  <2>1. /\ pos[1] \in 1 .. Provider /\ pos[2] \in 1 .. Len(bodies[pos[1]])
        /\ pos[1] = Provider => pos[2] <= index
    BY DoneSet
  <2>2. pos[1] \in Nat /\ pos[2] \in Nat /\ pos[1] <= Provider
    BY <1>2, <2>1
  <2> QED BY <1>2, <1>3, <2>1, <2>2 DEF Before
<1>8. ~Before(NextPlace, NextPlace)
  BY <1>2, <1>3 DEF Before
<1>9. \A pos : At(pos)' = At(pos) /\ TagAt(pos)' = TagAt(pos)
                 /\ OutboundAt(pos)' = OutboundAt(pos)
  BY <1>1 DEF At, TagAt, Tag, OutboundAt
<1>10. At(NextPlace) = Uris[index + 1]
  BY <1>2, <1>3 DEF At
<1> QED BY <1>1, <1>3, <1>4, <1>5, <1>6, <1>7, <1>8, <1>9, <1>10

\* What has been met and missed then.
LEMMA NodePlaces ==
    ASSUME IInv, Node
    PROVE  LET isNode == Uris[index + 1] \in Uri /\ Parsed[Uris[index + 1]] \in Item
           IN /\ Nodes' = Nodes /\ (NextPlace \in Nodes <=> isNode)
              /\ Met' = IF isNode THEN Met \cup {NextPlace} ELSE Met
              /\ Missed' = IF isNode THEN Missed ELSE Missed \cup {NextPlace}
<1> DEFINE isNode == Uris[index + 1] \in Uri /\ Parsed[Uris[index + 1]] \in Item
<1>1. /\ Places' = Places /\ NextPlace \in Places /\ Done' = Done \cup {NextPlace}
      /\ At(NextPlace) = Uris[index + 1] /\ \A pos : At(pos)' = At(pos)
  BY NodeDone
<1>2. Nodes' = Nodes /\ (NextPlace \in Nodes <=> isNode)
  BY <1>1 DEF Nodes
<1>3. Met' = Done' \cap Nodes /\ Missed' = Done' \ Nodes
  BY <1>2 DEF Met, Missed
<1>4. Met = Done \cap Nodes /\ Missed = Done \ Nodes
  BY DEF Met, Missed
<1> HIDE DEF isNode
<1>5. Met' = IF isNode THEN Met \cup {NextPlace} ELSE Met
  BY <1>1, <1>2, <1>3, <1>4
<1>6. Missed' = IF isNode THEN Missed ELSE Missed \cup {NextPlace}
  BY <1>1, <1>2, <1>3, <1>4
<1> QED BY <1>2, <1>5, <1>6 DEF isNode

\* The inputs do not change with that.
LEMMA NodeAcceptable == ASSUME IInv, Node PROVE Acceptable' <=> Acceptable
<1>1. UNCHANGED <<base, state, bodies>> /\ Nodes' = Nodes /\ \A pos : TagAt(pos)' = TagAt(pos)
  BY NodePlaces, NodeDone DEF Node
<1> QED BY <1>1 DEF Acceptable, Distinct, NamesDiffer

\* A node whose tag is taken is refused, and rightly so.
LEMMA TakenReference ==
    ASSUME IInv, RInv, Node, AcceptNode(Uris[index + 1]), ~TagFree(TagAt(NextPlace))
    PROVE  pc' = "refused" /\ ~Acceptable
<1>1. /\ pc = "node" /\ NextPlace \notin Done /\ At(NextPlace) = Uris[index + 1]
      /\ NextPlace[1] = Provider /\ NextPlace[2] = index + 1
  BY NodeDone
<1>2. TagAt(NextPlace) = Tag(state[Provider], Uris[index + 1], index + 1)
  BY <1>1 DEF TagAt
<1>3. pc' = "refused" /\ NextPlace \in Nodes
  BY <1>2, NodePlaces DEF AcceptNode, Refuse
<1>4. TagAt(NextPlace) \in {base[k].tag : k \in DOMAIN base} \cup {TagAt(pos) : pos \in Met}
  BY <1>1 DEF TagFree, RInv, Collected
<1>5. CASE TagAt(NextPlace) \in {base[k].tag : k \in DOMAIN base}
  BY <1>3, <1>5 DEF Acceptable
<1>6. CASE TagAt(NextPlace) \in {TagAt(pos) : pos \in Met}
  <2>1. PICK pos \in Met : TagAt(NextPlace) = TagAt(pos)
    BY <1>6
  <2>2. pos \in Nodes /\ pos # NextPlace
    BY <1>1 DEF Met
  <2> QED BY <1>3, <2>1, <2>2 DEF Acceptable
<1> QED BY <1>3, <1>4, <1>5, <1>6

\* A node whose tag is free is met, and generates if no equal one was met.
LEMMA FreeNode ==
    ASSUME IInv, Node, AcceptNode(Uris[index + 1]), TagFree(TagAt(NextPlace))
    PROVE  /\ pc' = "node" /\ NextPlace \in Nodes /\ Met' = Met \cup {NextPlace}
           /\ Missed' = Missed /\ counted' = counted + 1
           /\ tags' = tags \cup {TagAt(NextPlace)}
           /\ seen' = seen \cup {Parsed[At(NextPlace)]}
           /\ outbounds' = IF Parsed[At(NextPlace)] \in seen THEN outbounds
                           ELSE Append(outbounds, OutboundAt(NextPlace))
           /\ UNCHANGED <<base, state, sent, bodies, skipped, warnings, config>>
<1>1. /\ pc = "node" /\ At(NextPlace) = Uris[index + 1]
      /\ NextPlace[1] = Provider /\ NextPlace[2] = index + 1
  BY NodeDone
<1>2. TagAt(NextPlace) = Tag(state[Provider], Uris[index + 1], index + 1)
  BY <1>1 DEF TagAt
<1>3. Uris[index + 1] \in Uri /\ Parsed[Uris[index + 1]] \in Item
  BY DEF AcceptNode
<1>4. NextPlace \in Nodes /\ Met' = Met \cup {NextPlace} /\ Missed' = Missed
  BY <1>3, NodePlaces
<1>5. OutboundAt(NextPlace) = [tag  |-> Tag(state[Provider], Uris[index + 1], index + 1),
                           item |-> Parsed[Uris[index + 1]]]
  BY <1>1, <1>2 DEF OutboundAt
<1> QED BY <1>1, <1>2, <1>4, <1>5 DEF AcceptNode, SeenBefore, Node

\* It is the first of its class exactly then.
LEMMA FreeFirsts ==
    ASSUME IInv, RInv, Node, AcceptNode(Uris[index + 1]), TagFree(TagAt(NextPlace))
    PROVE  MetFirsts' = IF Parsed[At(NextPlace)] \in seen THEN MetFirsts
                        ELSE MetFirsts \cup {NextPlace}
<1>1. /\ pc = "node" /\ NextPlace \notin Done /\ ~Before(NextPlace, NextPlace)
      /\ \A pos \in Met : pos # NextPlace /\ Before(pos, NextPlace) /\ ~Before(NextPlace, pos)
      /\ \A pos : At(pos)' = At(pos)
  BY NodeDone DEF Met
<1>2. Met' = Met \cup {NextPlace}
  BY FreeNode
<1>3. seen = {Parsed[At(pos)] : pos \in Met}
  BY <1>1 DEF RInv, Collected
<1>4. MetFirsts' = {pos \in Met' : \A q \in Met' :
                       Parsed[At(q)] = Parsed[At(pos)] => ~Before(q, pos)}
  BY <1>1 DEF MetFirsts, Before
<1>5. \A pos \in Met : pos \in MetFirsts' <=> pos \in MetFirsts
  BY <1>1, <1>2, <1>4 DEF MetFirsts
<1>6. NextPlace \in MetFirsts' <=> Parsed[At(NextPlace)] \notin seen
  BY <1>1, <1>2, <1>3, <1>4
<1>7. MetFirsts \subseteq Met /\ MetFirsts' \subseteq Met \cup {NextPlace}
  BY <1>2, <1>4 DEF MetFirsts
<1> QED BY <1>1, <1>5, <1>6, <1>7

LEMMA FreeReference ==
    ASSUME IInv, RInv, Node, AcceptNode(Uris[index + 1]), TagFree(TagAt(NextPlace))
    PROVE  Passed' /\ Collected' /\ Listed'
<1> DEFINE tag == TagAt(NextPlace)
<1>1. /\ pc = "node" /\ Provider' = Provider /\ NextPlace \notin Met
      /\ NextPlace[1] = Provider /\ ~Before(NextPlace, NextPlace)
      /\ \A pos \in Met : Before(pos, NextPlace) /\ ~Before(NextPlace, pos)
      /\ \A pos : /\ At(pos)' = At(pos) /\ TagAt(pos)' = TagAt(pos)
                  /\ OutboundAt(pos)' = OutboundAt(pos)
  BY NodeDone DEF Met
<1>2. /\ pc' = "node" /\ NextPlace \in Nodes /\ Met' = Met \cup {NextPlace}
      /\ Missed' = Missed /\ counted' = counted + 1
      /\ tags' = tags \cup {tag}
      /\ seen' = seen \cup {Parsed[At(NextPlace)]}
      /\ outbounds' = IF Parsed[At(NextPlace)] \in seen THEN outbounds
                      ELSE Append(outbounds, OutboundAt(NextPlace))
      /\ UNCHANGED <<base, state, sent, bodies, skipped, warnings, config>>
  BY FreeNode
<1>3. Passed /\ Collected /\ Listed
  BY <1>1 DEF RInv
<1>4. /\ tags = {base[k].tag : k \in DOMAIN base} \cup {TagAt(pos) : pos \in Met}
      /\ seen = {Parsed[At(pos)] : pos \in Met}
  BY <1>1, <1>3 DEF Collected
<1>5. /\ \A pos \in Met : TagAt(pos) # tag
      /\ \A k \in DOMAIN base : base[k].tag # tag
  BY <1>4 DEF TagFree
<1>6. Passed'
  <2>1. NamesDiffer'
    BY <1>1, <1>2, <1>3 DEF Passed, NamesDiffer
  <2>2. \A p, q \in Met' : p # q => TagAt(p)' # TagAt(q)'
    BY <1>1, <1>2, <1>3, <1>5 DEF Passed
  <2>3. \A pos \in Met', k \in DOMAIN base' : TagAt(pos)' # base'[k].tag
    BY <1>1, <1>2, <1>3, <1>5 DEF Passed
  <2>4. \A p \in DOMAIN bodies' : p # Provider' => \E pos \in Met' : pos[1] = p
    BY <1>1, <1>2, <1>3 DEF Passed
  <2> QED BY <1>2, <2>1, <2>2, <2>3, <2>4 DEF Passed
<1>7. Collected'
  <2>1. tags' = {base'[k].tag : k \in DOMAIN base'} \cup {TagAt(pos)' : pos \in Met'}
    BY <1>1, <1>2, <1>4
  <2>2. seen' = {Parsed[At(pos)'] : pos \in Met'}
    BY <1>1, <1>2, <1>4
  <2>3. counted' > 0 /\ \E pos \in Met' : pos[1] = Provider'
    BY <1>1, <1>2 DEF IInv, TypeOK
  <2> QED BY <1>2, <2>1, <2>2, <2>3 DEF Collected
<1>8. Enumerates(outbounds, [pos \in MetFirsts |-> OutboundAt(pos)])'
  <2>1. /\ Enumerates(outbounds, [pos \in MetFirsts |-> OutboundAt(pos)])
        /\ MetFirsts' = IF Parsed[At(NextPlace)] \in seen THEN MetFirsts
                        ELSE MetFirsts \cup {NextPlace}
    BY <1>3, FreeFirsts DEF Listed
  <2>2. [pos \in MetFirsts |-> OutboundAt(pos)]' = [pos \in MetFirsts' |-> OutboundAt(pos)]
    BY <1>1
  <2>3. CASE Parsed[At(NextPlace)] \in seen
    BY <1>2, <2>1, <2>2, <2>3
  <2>4. CASE Parsed[At(NextPlace)] \notin seen
    <3> DEFINE R   == [tag : tags, item : seen]
               S   == R \cup {OutboundAt(NextPlace)}
               old == [pos \in MetFirsts |-> OutboundAt(pos)]
               all == [pos \in MetFirsts' |-> OutboundAt(pos)]
    <3>1. outbounds \in Seq(S)
      <4>1. outbounds \in Seq(R)
        BY DEF IInv, TypeOK
      <4> HIDE DEF R
      <4> QED BY <4>1, SeqMonotonic
    <3>2. MetFirsts \subseteq Met /\ DOMAIN old = MetFirsts
      BY DEF MetFirsts
    <3>3. \A p \in DOMAIN old : old[p] # OutboundAt(NextPlace)
      <4> SUFFICES ASSUME NEW p \in MetFirsts, OutboundAt(p) = OutboundAt(NextPlace)
                   PROVE  FALSE
        BY <3>2
      <4>1. OutboundAt(p).tag = TagAt(p) /\ OutboundAt(NextPlace).tag = TagAt(NextPlace)
        BY DEF OutboundAt
      <4> QED BY <1>5, <3>2, <4>1
    <3>4. /\ DOMAIN all = DOMAIN old \cup {NextPlace}
          /\ all[NextPlace] = OutboundAt(NextPlace)
          /\ \A p \in DOMAIN old : all[p] = old[p]
      BY <2>1, <2>4
    <3>5. Enumerates(outbounds, old)
      BY <2>1
    <3>6. OutboundAt(NextPlace) \in S
      OBVIOUS
    <3> HIDE DEF S, old, all
    <3>8. /\ NextPlace \notin DOMAIN old /\ ~Before(NextPlace, NextPlace)
          /\ \A p \in DOMAIN old : /\ old[p] # OutboundAt(NextPlace)
                                  /\ Before(p, NextPlace) /\ ~Before(NextPlace, p)
      BY <1>1, <3>2, <3>3
    <3>7. Enumerates(Append(outbounds, OutboundAt(NextPlace)), all)
      BY <3>1, <3>4, <3>5, <3>6, <3>8, EnumerationGrows
    <3> QED BY <1>2, <2>2, <2>4, <3>7 DEF all
  <2> QED BY <2>3, <2>4
<1>9. Listed'
  <2>1. MissedFirst' = MissedFirst
    BY <1>2 DEF MissedFirst
  <2> QED BY <1>2, <1>3, <1>8, <2>1 DEF Listed
<1> QED BY <1>6, <1>7, <1>9

\* A line that is no node is counted, and reported if few are.
LEMMA MissedGrows ==
    ASSUME IInv, RInv, Node, SkipNode(Uris[index + 1])
    PROVE  /\ Met' = Met /\ Missed' = Missed \cup {NextPlace} /\ NextPlace \notin Missed
           /\ MissedFirst' = IF skipped < MaxWarnings THEN MissedFirst \cup {NextPlace}
                             ELSE MissedFirst
<1>1. /\ pc = "node" /\ ~Before(NextPlace, NextPlace)
      /\ \A pos \in Missed : pos # NextPlace /\ Before(pos, NextPlace)
                             /\ ~Before(NextPlace, pos)
  BY NodeDone DEF Missed
<1>2. Met' = Met /\ Missed' = Missed \cup {NextPlace}
  <2>1. ~(Uris[index + 1] \in Uri /\ Parsed[Uris[index + 1]] \in Item)
    BY UriAssumption DEF SkipNode
  <2> QED BY <2>1, NodePlaces
<1>3. \A pos \in Missed : {q \in Missed' : Before(q, pos)} = {q \in Missed : Before(q, pos)}
  BY <1>1, <1>2
<1>4. {q \in Missed' : Before(q, NextPlace)} = Missed
  BY <1>1, <1>2
<1>5. MissedFirst' = {pos \in Missed' :
                         Cardinality({q \in Missed' : Before(q, pos)}) < MaxWarnings}
  BY DEF MissedFirst
<1>6. \A pos \in Missed : pos \in MissedFirst' <=> pos \in MissedFirst
  BY <1>2, <1>3, <1>5 DEF MissedFirst
<1>7. NextPlace \in MissedFirst' <=> skipped < MaxWarnings
  <2>1. skipped = Cardinality(Missed)
    BY <1>1 DEF RInv, Listed
  <2> QED BY <1>2, <1>4, <1>5, <2>1
<1>8. MissedFirst \subseteq Missed /\ MissedFirst' \subseteq Missed \cup {NextPlace}
  BY <1>2, <1>5 DEF MissedFirst
<1>9. MissedFirst' = IF skipped < MaxWarnings THEN MissedFirst \cup {NextPlace}
                     ELSE MissedFirst
  BY <1>1, <1>6, <1>7, <1>8
<1> QED BY <1>1, <1>2, <1>9

LEMMA SkipReference ==
    ASSUME IInv, RInv, Node, SkipNode(Uris[index + 1])
    PROVE  RInv'
<1>1. /\ pc = "node" /\ pc' = "node" /\ Provider' = Provider
      /\ skipped' = skipped + 1
      /\ warnings' = IF Len(warnings) < MaxWarnings THEN Append(warnings, NextPlace)
                     ELSE warnings
      /\ UNCHANGED <<base, state, sent, bodies, tags, seen, outbounds, counted, config>>
  BY NodeDone DEF Node, SkipNode, RoomForWarning, NextPlace
<1>2. /\ Met' = Met /\ Missed' = Missed \cup {NextPlace} /\ NextPlace \notin Missed
      /\ MissedFirst' = IF skipped < MaxWarnings THEN MissedFirst \cup {NextPlace}
                        ELSE MissedFirst
  BY MissedGrows
<1>3. /\ ~Before(NextPlace, NextPlace)
      /\ \A pos \in Missed : Before(pos, NextPlace) /\ ~Before(NextPlace, pos)
      /\ \A pos : /\ At(pos)' = At(pos) /\ TagAt(pos)' = TagAt(pos)
                  /\ OutboundAt(pos)' = OutboundAt(pos)
  BY NodeDone DEF Missed
<1>4. Passed /\ Collected /\ Listed /\ Decoded
  BY <1>1 DEF RInv
<1>5. Decoded'
  BY <1>1, <1>4, DecodedKept
<1>6. Passed'
  BY <1>1, <1>2, <1>3, <1>4 DEF Passed, NamesDiffer
<1>7. Collected'
  <2>1. tags' = {base'[k].tag : k \in DOMAIN base'} \cup {TagAt(pos)' : pos \in Met'}
    BY <1>1, <1>2, <1>3, <1>4 DEF Collected
  <2>2. seen' = {Parsed[At(pos)'] : pos \in Met'}
    BY <1>1, <1>2, <1>3, <1>4 DEF Collected
  <2> QED BY <1>1, <1>2, <1>4, <2>1, <2>2 DEF Collected
<1>8. /\ Enumerates(outbounds, [pos \in MetFirsts |-> OutboundAt(pos)])
      /\ IsFiniteSet(Missed) /\ skipped = Cardinality(Missed)
      /\ Len(warnings) = IF skipped < MaxWarnings THEN skipped ELSE MaxWarnings
      /\ Enumerates(warnings, [pos \in MissedFirst |-> pos])
  BY <1>4 DEF Listed
<1>9. Enumerates(outbounds, [pos \in MetFirsts |-> OutboundAt(pos)])'
  <2>1. MetFirsts' = MetFirsts
    BY <1>2, <1>3 DEF MetFirsts, Before
  <2>2. [pos \in MetFirsts |-> OutboundAt(pos)]' = [pos \in MetFirsts |-> OutboundAt(pos)]
    BY <1>3, <2>1
  <2> QED BY <1>1, <1>8, <2>2
<1>10. IsFiniteSet(Missed') /\ Cardinality(Missed') = skipped + 1
  BY <1>2, <1>8, FS_AddElement
<1>11. /\ warnings \in Seq(Nat \X Nat) /\ NextPlace \in Nat \X Nat
       /\ skipped \in Nat /\ MaxWarnings \in Nat /\ Len(warnings) \in Nat
  BY <1>1, BodiesAreSeqs, LimitAssumption DEF IInv, TypeOK, NextPlace
<1>12. Len(warnings) < MaxWarnings <=> skipped < MaxWarnings
  BY <1>8, <1>11
<1>13. Len(warnings') = IF skipped' < MaxWarnings THEN skipped' ELSE MaxWarnings
  <2>1. Len(Append(warnings, NextPlace)) = Len(warnings) + 1
    <3> DEFINE S == Nat \X Nat
    <3>1. warnings \in Seq(S) /\ NextPlace \in S
      BY <1>11
    <3> HIDE DEF S
    <3> QED BY <3>1, AppendProperties
  <2> QED BY <1>1, <1>8, <1>11, <1>12, <2>1
<1>14. Enumerates(warnings, [pos \in MissedFirst |-> pos])'
  <2> DEFINE S   == Nat \X Nat
             old == [pos \in MissedFirst |-> pos]
             all == [pos \in MissedFirst' |-> pos]
  <2>1. CASE skipped < MaxWarnings
    <3>1. /\ DOMAIN all = DOMAIN old \cup {NextPlace} /\ all[NextPlace] = NextPlace
          /\ \A p \in DOMAIN old : all[p] = old[p]
      BY <1>2, <2>1
    <3>2. /\ NextPlace \notin DOMAIN old
          /\ \A p \in DOMAIN old : /\ old[p] # NextPlace
                                  /\ Before(p, NextPlace) /\ ~Before(NextPlace, p)
      BY <1>2, <1>3 DEF MissedFirst
    <3>3. warnings \in Seq(S) /\ NextPlace \in S /\ Enumerates(warnings, old)
      BY <1>8, <1>11
    <3> HIDE DEF S, old, all
    <3>4. Enumerates(Append(warnings, NextPlace), all)
      BY <1>3, <3>1, <3>2, <3>3, EnumerationGrows
    <3> QED BY <1>1, <1>12, <2>1, <3>4 DEF all
  <2>2. CASE ~(skipped < MaxWarnings)
    BY <1>1, <1>2, <1>8, <1>12, <2>2
  <2> QED BY <2>1, <2>2
<1>15. Listed'
  BY <1>1, <1>9, <1>10, <1>13, <1>14 DEF Listed
<1> QED BY <1>1, <1>5, <1>6, <1>7, <1>15 DEF RInv, Finished

LEMMA NodeReference == ASSUME IInv, RInv, Node PROVE RInv'
<1>1. /\ pc = "node" /\ Decoded /\ pc' \in {"node", "refused"}
      /\ UNCHANGED <<bodies, sent>>
  BY DEF RInv, Node, AcceptNode, SkipNode, Refuse
<1>2. Decoded'
  BY <1>1, DecodedKept
<1>3. CASE AcceptNode(Uris[index + 1]) /\ TagFree(TagAt(NextPlace))
  BY <1>2, <1>3, FreeReference, FreeNode DEF RInv, Finished
<1>4. CASE AcceptNode(Uris[index + 1]) /\ ~TagFree(TagAt(NextPlace))
  BY <1>2, <1>4, TakenReference, NodeAcceptable DEF RInv, Finished
<1>5. CASE SkipNode(Uris[index + 1])
  BY <1>5, SkipReference
<1> QED BY <1>3, <1>4, <1>5 DEF Node

\* The loops keep to the reference at every step (main.go:452-548).
THEOREM ReferenceInvariance == Spec => []RInv
<1>1. IInv /\ Init => RInv
  BY InitReference
<1>2. IInv /\ RInv /\ [Next]_vars /\ IInv' => RInv'
  BY ReadBaseReference, CheckNamesReference, FetchReference, ReadLineReference,
     EndTextReference, NodeReference, EndProviderReference, AssembleReference,
     StutterReference DEF Next
<1> QED BY <1>1, <1>2, Invariance, PTL DEF Spec

\* A build ends with a configuration exactly if its inputs are acceptable, and
\* then with the one they stand for, whatever is subscribed to and whatever the
\* providers answer (main.go:452-548).
THEOREM BuildsReference == Spec => []BuildsTheReference
<1>1. IInv /\ RInv => BuildsTheReference
  <2> SUFFICES ASSUME IInv, RInv PROVE BuildsTheReference
    OBVIOUS
  <2>1. pc \in {"refused", "built"} => \A p \in DOMAIN bodies : Means(bodies[p], sent[p])
    BY DEF RInv, Decoded
  <2>2. pc = "refused" => ~Acceptable
    BY DEF RInv
  <2>3. ASSUME pc = "built"
        PROVE  /\ Acceptable /\ Provider = Len(state)
               /\ IsConfiguration(config, outbounds)
               /\ skipped = Cardinality(NoNodes)
               /\ Enumerates(warnings, [pos \in Reported |-> pos])
    <3>1. Met = Nodes /\ Missed = NoNodes /\ MissedFirst = Reported
      BY <2>3, AllDone
    <3>2. Passed /\ Listed /\ Finished
      BY <2>3 DEF RInv
    <3>3. base # NoBase /\ Distinct(base)
      BY <2>3 DEF IInv, BaseKnown
    <3>4. Acceptable
      BY <2>3, <3>1, <3>2, <3>3 DEF Passed, Acceptable
    <3> QED BY <2>3, <3>1, <3>2, <3>4 DEF Listed, Finished
  <2> QED BY <2>1, <2>2, <2>3 DEF BuildsTheReference
<1> QED BY <1>1, Invariance, ReferenceInvariance, PTL
=============================================================================
