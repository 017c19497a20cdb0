------------------------ MODULE CatalogShadowProofs ------------------------
(***************************************************************************)
(* Theorems about CatalogShadow for any number of overlapping runs, any    *)
(* snapshots and options, any clock and any length of a second.  The       *)
(* inductive invariant is what each run knows at its stages, and that of    *)
(* the output path nothing is known but what the runs have published.      *)
(***************************************************************************)
EXTENDS CatalogShadow, TLAPS

Ended == {"cleanup", "done", "dead"}

Sound(s) == s.wellFormed /\ s.usable /\ s.sound

KnowsSnapshot(r) ==
    /\ pc[r] \in {"build", "create", "write", "validate"} \cup Judged =>
          snapshot[r].wellFormed
    /\ pc[r] \in {"create", "write", "validate"} \cup Judged => snapshot[r].usable
    /\ pc[r] \in Judged => snapshot[r].sound
    /\ pc[r] \in Judged \ {"recheck"} => vouched[r]

KnowsOutput(r) ==
    /\ published[r] => /\ pc[r] \in Ended
                       /\ snapshot[r] # None /\ Sound(snapshot[r])
                       /\ passed[r] /\ vouched[r]
    /\ result[r] = "ok" <=> published[r]
    /\ pc[r] = "done" => temp[r] = None

KnowsOptions(r) ==
    pc[r] \in Going \ {"cleanup"} \/ asked[r] => TokenGiven(opts[r]) /\ DialAllowed(opts[r])

\* TypeOK in two parts: what has which type, and what a stage carries.
Types ==
    /\ clock \in Start .. End
    /\ path \in [kind : Kinds, content : Snapshots \cup {None, Partial, Previous}]
    /\ live \in Snapshots \cup {Partial, Previous}
    /\ pc \in [Run -> Stages] /\ opts \in [Run -> Options]
    /\ asked \in [Run -> BOOLEAN] /\ cancelled \in [Run -> BOOLEAN]
    /\ passed \in [Run -> BOOLEAN] /\ vouched \in [Run -> BOOLEAN]
    /\ published \in [Run -> BOOLEAN]
    /\ snapshot \in [Run -> Snapshots \cup {None}]
    /\ temp \in [Run -> Snapshots \cup {None, Partial}]
    /\ result \in [Run -> {"none", "ok", "failed"}]

Carries(r) ==
    /\ pc[r] \in {"check", "build", "create", "write", "validate"} \cup Judged =>
          snapshot[r] # None
    /\ pc[r] \in {"validate"} \cup Judged => temp[r] = snapshot[r]
    /\ pc[r] \in Judged => passed[r]

Knows(r) == Carries(r) /\ KnowsSnapshot(r) /\ KnowsOutput(r) /\ KnowsOptions(r)

Inv == Types /\ (\A r \in Run : Knows(r)) /\ OutputIsWhole /\ LiveUntouched

-----------------------------------------------------------------------------
\* Multiplication by a natural number keeps the order.
LEMMA TimesMonotonic ==
    ASSUME NEW a \in Int, NEW b \in Int, NEW k \in Nat, a <= b
    PROVE  a * k <= b * k
  <1>1. (b - a) * k >= 0
    BY Z3
  <1>2. (b - a) * k = b * k - a * k
    BY Z3
  <1> QED
    BY <1>1, <1>2

\* What a second is.
LEMMA SecondsBound ==
    ASSUME NEW t \in Nat
    PROVE  /\ Seconds(t) \in Nat
           /\ Seconds(t) * Ticks <= t
           /\ t < (Seconds(t) + 1) * Ticks
  BY TimeAssumption, Z3 DEF Seconds

\* What passes the comparisons in truncated seconds is fresh to the tick.
LEMMA FreshIsFresh ==
    ASSUME NEW s \in Snapshots, clock \in Nat, MaxAge >= Ticks, Fresh(s)
    PROVE  FreshInReality(s)
  <1> DEFINE n == Seconds(clock)
             m == Seconds(MaxAge)
  <1>1. /\ n \in Nat /\ n * Ticks <= clock /\ clock < (n + 1) * Ticks
        /\ m \in Nat /\ m * Ticks <= MaxAge
    BY SecondsBound, TimeAssumption
  <1>2. /\ s.created \in Int /\ s.validUntil \in Int /\ s.checks \subseteq Int
    BY SnapshotAssumption
  <1>3. /\ s.created \in 1 .. n /\ s.created >= n - m
        /\ s.validUntil > n
        /\ \A c \in s.checks : c \in 1 .. n /\ c >= n - m
    BY DEF Fresh
  <1> HIDE DEF n, m
  <1>4. Ticks \in Nat \ {0} /\ MaxAge \in Nat
    BY TimeAssumption
  <1>5. ASSUME NEW t \in Int, t \in 1 .. n, t >= n - m
        PROVE  t * Ticks <= clock /\ clock - t * Ticks < MaxAge + Ticks
    <2>1. t * Ticks <= n * Ticks
      BY <1>1, <1>4, <1>5, TimesMonotonic
    <2>2. (n + 1) * Ticks <= (t + (m + 1)) * Ticks
      BY <1>1, <1>4, <1>5, TimesMonotonic
    <2>3. (t + (m + 1)) * Ticks = t * Ticks + (m * Ticks + Ticks)
      BY <1>1, <1>4, Z3
    <2>4. /\ t * Ticks \in Int /\ n * Ticks \in Int /\ m * Ticks \in Int
          /\ (n + 1) * Ticks \in Int /\ (t + (m + 1)) * Ticks \in Int
      BY <1>1, <1>4
    <2> HIDE <1>5
    <2> QED
      BY <1>1, <1>4, <2>1, <2>2, <2>3, <2>4
  <1>6. clock < s.validUntil * Ticks
    <2>1. (n + 1) * Ticks <= s.validUntil * Ticks
      BY <1>1, <1>2, <1>3, <1>4, TimesMonotonic
    <2>2. (n + 1) * Ticks \in Int /\ s.validUntil * Ticks \in Int
      BY <1>1, <1>2, <1>4
    <2> QED
      BY <1>1, <2>1, <2>2
  <1>7. s.created * Ticks <= clock
    BY <1>2, <1>3, <1>5
  <1>8. \A t \in s.checks \cup {s.created} :
           t * Ticks <= clock /\ clock - t * Ticks < MaxAge + Ticks
    BY <1>2, <1>3, <1>5
  <1> QED
    BY <1>6, <1>7, <1>8 DEF FreshInReality

-----------------------------------------------------------------------------
LEMMA InitInv == Init => Inv
  <1> SUFFICES ASSUME Init PROVE Inv
    OBVIOUS
  <1>1. Types
    BY TimeAssumption DEF Init, Types, Kinds, Stages
  <1>2. ASSUME NEW r \in Run PROVE Knows(r)
    BY <1>2 DEF Init, Knows, Carries, KnowsSnapshot, KnowsOutput, KnowsOptions, Judged, Going,
                Ended, Stages
  <1>3. OutputIsWhole /\ LiveUntouched
    BY DEF Init, OutputIsWhole, LiveUntouched
  <1> QED
    BY <1>1, <1>2, <1>3 DEF Inv

LEMMA InvType == Inv => TypeOK
  BY DEF Inv, Types, Knows, Carries, TypeOK

LEMMA TypesStep == Inv /\ [Next]_vars => Types'
  <1> SUFFICES ASSUME Inv, [Next]_vars PROVE Types'
    OBVIOUS
  <1>0. Types
    BY DEF Inv
  <1> USE <1>0 DEF Goto, Fail
  <1>1. ASSUME NEW r \in Run, Invoke(r) \/ Guard(r) \/ Request(r) \/ CheckSnapshot(r) PROVE Types'
    BY <1>1 DEF Invoke, Guard, Request, CheckSnapshot, Types, Stages
  <1>2. ASSUME NEW r \in Run, Answer(r) PROVE Types'
    <2>1. snapshot' \in [Run -> Snapshots \cup {None}]
      BY <1>2 DEF Answer, Types
    <2> QED
      BY <1>2, <2>1 DEF Answer, Types, Stages
  <1>3. ASSUME NEW r \in Run, Build(r) \/ Create(r) PROVE Types'
    BY <1>3 DEF Build, Create, Types, Stages
  <1>4. ASSUME NEW r \in Run, Write(r) PROVE Types'
    <2>1. snapshot[r] \in Snapshots \cup {None, Partial}
      BY DEF Types
    <2> QED
      BY <1>4, <2>1 DEF Write, Types, Stages
  <1>5. ASSUME NEW r \in Run, Validate(r) \/ GiveUp(r) PROVE Types'
    BY <1>5 DEF Validate, Verdict, GiveUp, Types, Stages
  <1>6. ASSUME NEW r \in Run, Recheck(r) PROVE Types'
    <2>1. vouched' \in [Run -> BOOLEAN]
      BY <1>6, Zenon DEF Recheck, Types, FreshInReality
    <2>2. /\ UNCHANGED <<clock, path, live, opts, asked, snapshot, temp, cancelled, passed,
                         published>>
          /\ \/ pc' = [pc EXCEPT ![r] = "guard again"] /\ UNCHANGED result
             \/ pc' = [pc EXCEPT ![r] = "cleanup"] /\ result' = [result EXCEPT ![r] = "failed"]
      BY <1>6 DEF Recheck
    <2> QED
      BY <2>1, <2>2 DEF Types, Stages
  <1>7. ASSUME NEW r \in Run, GuardAgain(r) \/ Chmod(r) PROVE Types'
    BY <1>7 DEF GuardAgain, Chmod, Types, Stages
  <1>8. ASSUME NEW r \in Run, Publish(r) PROVE Types'
    <2>1. temp[r] \in Snapshots \cup {None, Partial}
      BY DEF Types
    <2>2. path' \in [kind : Kinds, content : Snapshots \cup {None, Partial, Previous}]
      BY <1>8, <2>1 DEF Publish, Rename, Types, Kinds
    <2> QED
      BY <1>8, <2>2 DEF Publish, Rename, Types, Stages
  <1>9. ASSUME NEW r \in Run, Cleanup(r) \/ Cancel(r) \/ Kill(r) PROVE Types'
    BY <1>9 DEF Cleanup, Remove, Cancel, Kill, local, Types, Stages
  <1>10. CASE Relink
    BY <1>10 DEF Relink, local, Types
  <1>11. CASE Tick
    BY <1>11, TimeAssumption DEF Tick, local, Types
  <1>12. CASE UNCHANGED vars
    BY <1>12 DEF vars, local, Types
  <1> QED
    BY <1>1, <1>2, <1>3, <1>4, <1>5, <1>6, <1>7, <1>8, <1>9, <1>10, <1>11, <1>12 DEF Next, Step

\* A step of one run is none of the others.
Act(r) == Invoke(r) \/ Step(r) \/ Answer(r) \/ Validate(r) \/ GiveUp(r) \/ Cancel(r) \/ Kill(r)

LEMMA Frame ==
    ASSUME Types, NEW r \in Run, Act(r), NEW q \in Run, q # r
    PROVE  /\ pc'[q] = pc[q] /\ asked'[q] = asked[q] /\ snapshot'[q] = snapshot[q]
           /\ temp'[q] = temp[q] /\ result'[q] = result[q] /\ passed'[q] = passed[q]
           /\ vouched'[q] = vouched[q] /\ published'[q] = published[q] /\ opts' = opts
  <1>1. CASE Invoke(r) \/ Guard(r) \/ Request(r) \/ Answer(r) \/ CheckSnapshot(r)
    BY <1>1 DEF Types, Invoke, Guard, Request, Answer, CheckSnapshot, Goto, Fail
  <1>2. CASE Build(r) \/ Create(r) \/ Write(r) \/ Validate(r) \/ GiveUp(r)
    BY <1>2 DEF Types, Build, Create, Write, Validate, Verdict, GiveUp, Goto, Fail
  <1>3. CASE Recheck(r)
    BY <1>3 DEF Types, Recheck, Goto, Fail
  <1>4. CASE GuardAgain(r) \/ Chmod(r) \/ Publish(r) \/ Cleanup(r) \/ Cancel(r) \/ Kill(r)
    BY <1>4 DEF Types, GuardAgain, Chmod, Publish, Rename, Cleanup, Cancel, Kill, local, Goto,
                Fail
  <1> QED
    BY <1>1, <1>2, <1>3, <1>4 DEF Act, Step

\* What a run knows depends on its own variables only.
LEMMA KnowsFrame ==
    ASSUME NEW q \in Run, Knows(q), opts' = opts,
           pc'[q] = pc[q], asked'[q] = asked[q], snapshot'[q] = snapshot[q],
           temp'[q] = temp[q], result'[q] = result[q], passed'[q] = passed[q],
           vouched'[q] = vouched[q], published'[q] = published[q]
    PROVE  Knows(q)'
  BY DEF Knows, Carries, KnowsSnapshot, KnowsOutput, KnowsOptions, TokenGiven, DialAllowed, Sound

\* What a step teaches the run that takes it.
LEMMA KnowsStep ==
    ASSUME Inv, NEW r \in Run, Act(r)
    PROVE  Knows(r)'
  <1>0. Types /\ Knows(r)
    BY DEF Inv
  <1>a. snapshot[r] \in Snapshots \cup {None} /\ clock \in Nat
    BY <1>0, TimeAssumption DEF Types
  <1> USE <1>0, ValueAssumption
      DEF Types, Knows, Carries, KnowsSnapshot, KnowsOutput, KnowsOptions, Judged, Going,
          Ended, Stages, Goto, Fail
  <1>1. CASE Invoke(r) \/ Guard(r)
    <2>1. /\ pc[r] \in {"idle", "guard"}
          /\ UNCHANGED <<opts, asked, snapshot, temp, passed, vouched, published>>
          /\ \/ /\ pc[r] = "idle" => TokenGiven(opts[r]) /\ DialAllowed(opts[r])
                /\ pc'[r] \in {"guard", "request"} /\ result' = result
             \/ pc'[r] = "cleanup" /\ result'[r] = "failed"
      BY <1>1 DEF Invoke, Guard, TokenGiven, DialAllowed
    <2> QED
      BY <2>1 DEF TokenGiven, DialAllowed
  <1>2. CASE Request(r)
    BY <1>2 DEF Request
  <1>3. CASE Answer(r)
    <2>1. /\ pc[r] = "waiting"
          /\ UNCHANGED <<opts, asked, temp, passed, vouched, published>>
          /\ \/ pc'[r] = "check" /\ snapshot'[r] # None /\ result' = result
             \/ pc'[r] = "cleanup" /\ snapshot' = snapshot /\ result'[r] = "failed"
      <3>1. CASE Fail(r) /\ UNCHANGED snapshot
        BY <1>3, <3>1 DEF Answer
      <3>2. ASSUME NEW s \in Snapshots, snapshot' = [snapshot EXCEPT ![r] = s],
                   Goto(r, "check"), UNCHANGED result
            PROVE  pc'[r] = "check" /\ snapshot'[r] # None /\ result' = result
        BY <3>2
      <3> QED
        BY <1>3, <3>1, <3>2 DEF Answer
    <2> QED
      BY <2>1 DEF TokenGiven, DialAllowed
  <1>4. CASE CheckSnapshot(r)
    BY <1>4 DEF CheckSnapshot, ValidSnapshot
  <1>5. CASE Build(r)
    BY <1>5 DEF Build
  <1>6. CASE Create(r)
    BY <1>6 DEF Create
  <1>7. CASE Write(r)
    BY <1>7 DEF Write
  <1>8. CASE Validate(r)
    BY <1>8 DEF Validate, Verdict
  <1>9. CASE GiveUp(r)
    BY <1>9 DEF GiveUp, Limited
  <1>10. CASE Recheck(r)
    <2>1. pc[r] = "recheck" /\ passed[r] /\ snapshot[r] \in Snapshots /\ clock \in Nat
      <3>1. pc[r] = "recheck" /\ passed[r] /\ snapshot[r] # None
        BY <1>10 DEF Recheck
      <3>2. snapshot[r] \in Snapshots \cup {None} /\ clock \in Nat
        BY <1>a
      <3> QED
        BY <3>1, <3>2
    <2>2. pc'[r] = "guard again" => ValidSnapshot(snapshot[r])
      BY <1>10 DEF Recheck
    <2>3. ValidSnapshot(snapshot[r]) => FreshInReality(snapshot[r])
      BY <2>1, FreshIsFresh DEF ValidSnapshot
    <2>4. vouched'[r] = (passed[r] /\ FreshInReality(snapshot[r]))
      BY <1>10 DEF Recheck
    <2>5. pc'[r] = "guard again" => vouched'[r]
      BY <2>1, <2>2, <2>3, <2>4
    <2>6. /\ UNCHANGED <<opts, asked, snapshot, temp, passed, published>>
          /\ \/ pc' = [pc EXCEPT ![r] = "guard again"] /\ UNCHANGED result
             \/ pc' = [pc EXCEPT ![r] = "cleanup"] /\ result' = [result EXCEPT ![r] = "failed"]
      BY <1>10 DEF Recheck
    <2> QED
      <3>1. /\ UNCHANGED <<opts, asked, snapshot, temp, passed, published>>
            /\ \/ pc'[r] = "guard again" /\ result' = result /\ vouched'[r]
               \/ pc'[r] = "cleanup" /\ result'[r] = "failed" /\ ~published[r]
        BY <2>1, <2>5, <2>6
      <3> QED
        BY <2>1, <3>1
  <1>11. CASE GuardAgain(r) \/ Chmod(r)
    BY <1>11 DEF GuardAgain, Chmod
  <1>12. CASE Publish(r)
    <2>1. pc[r] = "publish" /\ snapshot[r] # None /\ Sound(snapshot[r]) /\ passed[r] /\ vouched[r]
      BY <1>12 DEF Publish, Sound
    <2> QED
      BY <1>12, <2>1 DEF Publish, Rename
  <1>13. CASE Cleanup(r)
    BY <1>13 DEF Cleanup, Remove
  <1>14. CASE Cancel(r) \/ Kill(r)
    BY <1>14 DEF Cancel, Kill, local
  <1> QED
    BY <1>1, <1>2, <1>3, <1>4, <1>5, <1>6, <1>7, <1>8, <1>9, <1>10, <1>11, <1>12, <1>13, <1>14
       DEF Act, Step

\* A run that has published keeps its snapshot, and nothing unpublishes.
LEMMA PublishedStays ==
    ASSUME Inv, [Next]_vars, NEW q \in Run, published[q]
    PROVE  published'[q] /\ snapshot'[q] = snapshot[q]
  <1>0. Types /\ pc[q] \in Ended
    BY DEF Inv, Knows, KnowsOutput
  <1>1. ASSUME NEW r \in Run, Act(r) PROVE published'[q] /\ snapshot'[q] = snapshot[q]
    <2>1. CASE r # q
      BY <1>0, <1>1, <2>1, Frame
    <2>2. CASE r = q
      <3>1. Cleanup(q) \/ Cancel(q) \/ Kill(q)
        BY <1>0, <1>1, <2>2 DEF Act, Step, Invoke, Guard, Request, Answer, CheckSnapshot, Build,
             Create, Write, Validate, GiveUp, Limited, Recheck, GuardAgain, Chmod, Publish, Ended
      <3> QED
        BY <3>1 DEF Cleanup, Cancel, Kill, local
    <2> QED
      BY <2>1, <2>2
  <1>2. CASE Relink \/ Tick \/ UNCHANGED vars
    BY <1>2 DEF Relink, Tick, vars, local
  <1> QED
    BY <1>1, <1>2 DEF Next, Act

LEMMA OutputStep == Inv /\ [Next]_vars => OutputIsWhole' /\ LiveUntouched'
  <1> SUFFICES ASSUME Inv, [Next]_vars PROVE OutputIsWhole' /\ LiveUntouched'
    OBVIOUS
  <1>0. Types /\ OutputIsWhole /\ LiveUntouched
    BY DEF Inv
  <1>1. ASSUME NEW r \in Run, Publish(r), path' # path PROVE OutputIsWhole' /\ LiveUntouched'
    <2>1. pc[r] = "publish" /\ temp[r] = snapshot[r]
      BY <1>1 DEF Publish, Inv, Knows, Carries, Judged
    <2>2. /\ path' = [kind |-> "file", content |-> temp[r]]
          /\ published' = [published EXCEPT ![r] = TRUE]
          /\ live' = live /\ snapshot' = snapshot
      BY <1>1 DEF Publish, Rename
    <2>3. path'.content = snapshot'[r] /\ published'[r]
      BY <1>0, <2>1, <2>2 DEF Types
    <2> QED
      BY <1>0, <2>2, <2>3 DEF OutputIsWhole, LiveUntouched
  <1>2. ASSUME path' = path PROVE OutputIsWhole'
    BY <1>0, <1>2, PublishedStays DEF OutputIsWhole
  <1>3. ASSUME NEW r \in Run, Act(r) PROVE live' = live /\ (path' = path \/ Publish(r))
    BY <1>3 DEF Act, Step, Invoke, Guard, Request, Answer, CheckSnapshot, Build, Create, Write,
         Validate, GiveUp, Recheck, GuardAgain, Chmod, Publish, Rename, Cleanup, Cancel, Kill
  <1>4. CASE Relink
    BY <1>0, <1>4 DEF Relink, OutputIsWhole, LiveUntouched
  <1>5. CASE Tick \/ UNCHANGED vars
    BY <1>0, <1>2, <1>5 DEF Tick, vars, LiveUntouched
  <1> QED
    BY <1>0, <1>1, <1>2, <1>3, <1>4, <1>5 DEF Next, Act, LiveUntouched

LEMMA InvStep == Inv /\ [Next]_vars => Inv'
  <1> SUFFICES ASSUME Inv, [Next]_vars PROVE Inv'
    OBVIOUS
  <1>1. Types' /\ OutputIsWhole' /\ LiveUntouched'
    BY TypesStep, OutputStep
  <1>2. ASSUME NEW q \in Run PROVE Knows(q)'
    <2>0. Types /\ Knows(q)
      BY DEF Inv
    <2>1. ASSUME NEW r \in Run, Act(r) PROVE Knows(q)'
      <3>1. CASE r = q
        BY <2>1, <3>1, KnowsStep
      <3>2. CASE r # q
        BY <2>0, <2>1, <3>2, Frame, KnowsFrame
      <3> QED
        BY <3>1, <3>2
    <2>2. CASE Relink \/ Tick \/ UNCHANGED vars
      BY <2>0, <2>2, KnowsFrame DEF Relink, Tick, vars, local
    <2> QED
      BY <2>1, <2>2 DEF Next, Act
  <1> QED
    BY <1>1, <1>2 DEF Inv

\* Its inductive strengthening holds throughout: what each run knows of its own
\* candidate, snapshot and temporary file at each stage (shadow.go:168-275).
THEOREM Invariance == Spec => []Inv
  BY InitInv, InvStep, PTL DEF Spec

-----------------------------------------------------------------------------
\* Every variable has its type and every stage what it needs (shadow.go:168-275).
THEOREM TypeCorrect == Spec => []TypeOK
  BY Invariance, InvType, PTL

\* Only a candidate that sing-box accepted, made of a snapshot that was fresh
\* after that, is ever published, whatever clock, catalog and other runs do
\* (shadow.go:97-112, 255-271).
THEOREM PublicationsAreEarned == Spec => []PublicationIsEarned
  <1>1. Inv => PublicationIsEarned
    BY DEF Inv, Knows, KnowsOutput, Sound, PublicationIsEarned
  <1> QED
    BY Invariance, <1>1, PTL

\* A run reports success exactly when it has published (shadow.go:243-274).
THEOREM ResultsAreTrue == Spec => []ResultIsTrue
  <1>1. Inv => ResultIsTrue
    BY DEF Inv, Knows, KnowsOutput, ResultIsTrue
  <1> QED
    BY Invariance, <1>1, PTL

\* The output is a whole candidate at any moment (shadow.go:243-271).
THEOREM OutputStaysWhole == Spec => []OutputIsWhole
  <1>1. Inv => OutputIsWhole
    BY DEF Inv
  <1> QED
    BY Invariance, <1>1, PTL

\* The live configuration is never written (shadow.go:263-271).
THEOREM LiveStaysUntouched == Spec => []LiveUntouched
  <1>1. Inv => LiveUntouched
    BY DEF Inv
  <1> QED
    BY Invariance, <1>1, PTL

\* No temporary file outlives its run (shadow.go:247-248).
THEOREM NothingStaysBehind == Spec => []NothingLeftBehind
  <1>1. Inv => NothingLeftBehind
    BY DEF Inv, Knows, KnowsOutput, NothingLeftBehind
  <1> QED
    BY Invariance, <1>1, PTL

\* The token goes in the clear only where the operator allowed it
\* (shadow.go:33-85).
THEOREM TokensAreGuarded == Spec => []TokenIsGuarded
  <1>1. Inv => TokenIsGuarded
    <2> SUFFICES ASSUME Inv, NEW r \in Run, asked[r]
                 PROVE  /\ {opts[r].value, opts[r].file} = {"", "good"}
                        /\ opts[r].plain => opts[r].host = "local" \/ opts[r].trusted
      BY DEF TokenIsGuarded
    <2>1. TokenGiven(opts[r]) /\ DialAllowed(opts[r])
      BY DEF Inv, Knows, KnowsOptions
    <2> QED
      BY <2>1 DEF TokenGiven, DialAllowed
  <1> QED
    BY Invariance, <1>1, PTL

\* Neither a reader of the output nor the live configuration is harmed
\* (shadow.go:114-156, 243-271).
THEOREM OutputStaysSafe == Spec => []OutputIsSafe
  BY OutputStaysWhole, LiveStaysUntouched, PTL DEF OutputIsSafe

\* A run leaves on the disk what it reports, and nothing else
\* (shadow.go:243-274).
THEOREM OutcomesAreTrue == Spec => []OutcomeIsTrue
  BY ResultsAreTrue, NothingStaysBehind, PTL DEF OutcomeIsTrue
=============================================================================
