------------------------ MODULE SnapshotRouterProofs ------------------------
(***************************************************************************)
(* Theorems about SnapshotRouter for any number of snapshot runs and of    *)
(* versions.  The inductive invariant says what the run that has the lock  *)
(* knows of the manager and of the host at each stage: as long as nothing  *)
(* has gone wrong, what it has copied is what the host still holds.        *)
(***************************************************************************)
EXTENDS SnapshotRouter, TLAPS

Nothing == [f \in Files |-> Missing]

KnowsManager(s) ==
    /\ pc[s] = "pause" => found[s] = "running" /\ manager = "running"
    /\ pc[s] \in {"copy", "tree"} =>
          manager = IF found[s] = "running" THEN "paused" ELSE found[s]
    /\ pc[s] = "finally" /\ found[s] # "running" => manager = found[s]
    /\ pc[s] = "finally" /\ found[s] = "running" => manager \in {"running", "paused"}
    /\ pc[s] = "finally" /\ raising[s] = "none" => manager # "running"
    /\ pc[s] = "unpause" => found[s] = "running" /\ manager \in {"running", "paused"}
    /\ pc[s] \in {"images", "verify"} => manager = found[s]
    /\ pc[s] = "exit" /\ outcome[s] = "complete" => manager = found[s]
    /\ pc[s] = "exit" /\ outcome[s] \in {"failed", "interrupted"} /\ s \notin stuck
          /\ found[s] = "running" => manager = "running"

KnowsHost(s) ==
    /\ pc[s] \in {"inspect", "pause", "copy"} => captured[s] = Nothing
    /\ pc[s] = "tree" => \A f \in Files : captured[s][f] \in {Missing, host[f]}
    /\ pc[s] = "finally" /\ raising[s] = "none" => captured[s] = host
    /\ pc[s] = "unpause" /\ raising[s] = "none" => captured[s] \in moments
    /\ pc[s] \in {"images", "verify"} => captured[s] \in moments
    /\ pc[s] = "exit" /\ outcome[s] = "complete" => captured[s] \in moments

\* Before the lock nothing is known, and only its holder completes.
KnowsItself(s) ==
    /\ pc[s] \in {"idle", "lock", "inspect"} => found[s] = "unknown" /\ captured[s] = Nothing
    /\ pc[s] = "exit" /\ outcome[s] = "complete" => lock = s

Knows(s) == KnowsItself(s) /\ (lock = s => KnowsManager(s) /\ KnowsHost(s))

Inv == TypeOK /\ host \in moments /\ \A s \in Snapshot : Knows(s)

-----------------------------------------------------------------------------
Act(s) == Step(s) \/ Interrupt(s) \/ Kill(s)

LEMMA InitInv == Init => Inv
  <1> SUFFICES ASSUME Init PROVE Inv
    OBVIOUS
  <1>1. TypeOK /\ host \in moments
    BY VersionAssumption, HolderAssumption DEF Init, TypeOK, Version, Stages, Locked, Guarded,
       Results
  <1>2. ASSUME NEW s \in Snapshot PROVE Knows(s)
    BY <1>2, HolderAssumption DEF Init, Knows, KnowsItself, Nothing
  <1> QED
    BY <1>1, <1>2 DEF Inv

LEMMA TypeStep == Inv /\ [Next]_vars => TypeOK'
  <1> SUFFICES ASSUME Inv, [Next]_vars PROVE TypeOK'
    OBVIOUS
  <1>0. TypeOK
    BY DEF Inv
  <1>a. ASSUME NEW s \in Snapshot, NEW stage \in Stages, Goto(s, stage), UNCHANGED outcome
        PROVE  pc' \in [Snapshot -> Stages] /\ outcome' \in [Snapshot -> Results]
    BY <1>0, <1>a DEF TypeOK, Goto
  <1>b. ASSUME NEW s \in Snapshot, NEW r \in Results, End(s, r)
        PROVE  pc' \in [Snapshot -> Stages] /\ outcome' \in [Snapshot -> Results]
    BY <1>0, <1>b DEF TypeOK, Goto, End, Stages
  <1>c. \A s \in Snapshot : raising[s] \in Results
    BY <1>0 DEF TypeOK, Results
  <1>d. {"unpause", "images", "verify"} \subseteq Stages /\ {"failed", "complete"} \subseteq Results
    BY DEF Stages, Locked, Results
  <1>e. ASSUME NEW s \in Snapshot, Finally(s) \/ SaveImages(s) \/ Verify(s) \/ Unpause(s)
        PROVE  pc' \in [Snapshot -> Stages] /\ outcome' \in [Snapshot -> Results]
    <2>1. \/ \E stage \in {"unpause", "images", "verify"} : Goto(s, stage) /\ UNCHANGED outcome
          \/ \E r \in {"failed", "complete", raising[s]} : End(s, r)
      BY <1>e DEF Finally, SaveImages, Verify, Unpause
    <2> QED
      BY <1>a, <1>b, <1>c, <1>d, <2>1
  <1> USE <1>0, HolderAssumption DEF Stages, Locked, Guarded, Results, Goto, End, Raise
  <1>1. ASSUME NEW s \in Snapshot, Invoke(s) \/ Acquire(s) PROVE TypeOK'
    BY <1>1 DEF Invoke, Acquire, LockFree, TypeOK
  <1>2. ASSUME NEW s \in Snapshot, Inspect(s) PROVE TypeOK'
    BY <1>2 DEF Inspect, TypeOK
  <1>3. ASSUME NEW s \in Snapshot, Pause(s) PROVE TypeOK'
    BY <1>3 DEF Pause, TypeOK
  <1>4. ASSUME NEW s \in Snapshot, NEW file \in Files, Capture(s, file)
        PROVE  captured' \in [Snapshot -> [Files -> Version \cup {Missing}]]
    BY <1>4 DEF Capture, TypeOK
  <1>5. ASSUME NEW s \in Snapshot, CopyRunning(s) PROVE TypeOK'
    <2>1. captured' \in [Snapshot -> [Files -> Version \cup {Missing}]]
      BY <1>4, <1>5 DEF CopyRunning, Files
    <2> QED
      BY <1>5, <2>1 DEF CopyRunning, TypeOK
  <1>6. ASSUME NEW s \in Snapshot, CopyTree(s) PROVE TypeOK'
    <2>1. captured' \in [Snapshot -> [Files -> Version \cup {Missing}]]
      BY <1>4, <1>6 DEF CopyTree, TypeOK
    <2> QED
      BY <1>6, <2>1 DEF CopyTree, TypeOK
  <1>7. ASSUME NEW s \in Snapshot, Finally(s) \/ SaveImages(s) \/ Verify(s) PROVE TypeOK'
    <2>1. UNCHANGED <<host, manager, lock, found, raising, captured, moments, stuck>>
      BY <1>7 DEF Finally, SaveImages, Verify
    <2>2. pc' \in [Snapshot -> Stages] /\ outcome' \in [Snapshot -> Results]
      BY <1>7, <1>e
    <2>3. \A q \in Snapshot : pc'[q] \in Locked => lock = q
      BY <1>7 DEF Finally, SaveImages, Verify, TypeOK
    <2> QED
      BY <2>1, <2>2, <2>3 DEF TypeOK
  <1>8. ASSUME NEW s \in Snapshot, Unpause(s) PROVE TypeOK'
    <2>1. /\ UNCHANGED <<host, lock, found, raising, captured, moments>>
          /\ manager' \in {"running", "paused", "stopped"} /\ stuck' \subseteq Snapshot
      BY <1>8 DEF Unpause, TypeOK
    <2>2. pc' \in [Snapshot -> Stages] /\ outcome' \in [Snapshot -> Results]
      BY <1>8, <1>e
    <2>3. \A q \in Snapshot : pc'[q] \in Locked => lock = q
      BY <1>8 DEF Unpause, TypeOK
    <2> QED
      BY <2>1, <2>2, <2>3 DEF TypeOK
  <1>9. ASSUME NEW s \in Snapshot, Fail(s) \/ Interrupt(s) PROVE TypeOK'
    BY <1>9 DEF Fail, Interrupt, TypeOK
  <1>10. ASSUME NEW s \in Snapshot, Gone(s) PROVE TypeOK'
    BY <1>10 DEF Gone, TypeOK
  <1>11. ASSUME NEW file \in Files, NEW version \in Version, Write(file, version)
         PROVE  host' \in [Files -> Version] /\ moments' \subseteq [Files -> Version]
    BY <1>11 DEF Write, TypeOK
  <1>12. ASSUME NEW file \in Files, host[file] < MaxVersion
         PROVE  host[file] + 1 \in Version
    BY <1>12, VersionAssumption DEF TypeOK, Version
  <1>13. CASE ManagerWrites
    <2>1. host' \in [Files -> Version] /\ moments' \subseteq [Files -> Version]
      BY <1>11, <1>12, <1>13 DEF ManagerWrites, Files
    <2> QED
      BY <1>13, <2>1 DEF ManagerWrites, TypeOK
  <1>14. CASE Deployment
    <2>1. host["active"] \in Version /\ "active" \in Files /\ "router" \in Files
      BY DEF TypeOK, Files
    <2>2. host' \in [Files -> Version] /\ moments' \subseteq [Files -> Version]
      BY <1>11, <1>12, <1>14, <2>1 DEF Deployment, TypeOK
    <2>3. lock' \in {Deploy, Free} /\ lock \in {Deploy, Free}
      BY <1>14 DEF Deployment, LockFree
    <2>4. UNCHANGED <<manager, pc, found, raising, captured, outcome, stuck>>
      BY <1>14 DEF Deployment
    <2> QED
      BY <2>2, <2>3, <2>4 DEF TypeOK
  <1>15. CASE Operator
    BY <1>15 DEF Operator, TypeOK
  <1>16. CASE UNCHANGED vars
    BY <1>16 DEF vars, TypeOK
  <1> QED
    BY <1>1, <1>2, <1>3, <1>5, <1>6, <1>7, <1>8, <1>9, <1>10, <1>13, <1>14, <1>15, <1>16
       DEF Next, Step, Exit, Kill

\* A step of another run leaves a run's variables alone, and all it relies on
\* while it has the lock.
LEMMA Frame ==
    ASSUME TypeOK, NEW s \in Snapshot, Act(s), NEW q \in Snapshot, q # s
    PROVE  /\ pc'[q] = pc[q] /\ found'[q] = found[q] /\ raising'[q] = raising[q]
           /\ captured'[q] = captured[q] /\ outcome'[q] = outcome[q]
           /\ q \in stuck <=> q \in stuck'
           /\ lock' = q <=> lock = q
           /\ lock = q => UNCHANGED <<host, manager, moments>>
  <1> USE HolderAssumption DEF TypeOK, Goto, End, Raise, Locked, Guarded
  <1>1. CASE Invoke(s) \/ Acquire(s) \/ Inspect(s) \/ Pause(s)
    BY <1>1 DEF Invoke, Acquire, LockFree, Inspect, Pause
  <1>2. CASE CopyRunning(s) \/ CopyTree(s)
    BY <1>2 DEF CopyRunning, CopyTree, Capture
  <1>3. CASE Finally(s) \/ Unpause(s) \/ SaveImages(s) \/ Verify(s)
    BY <1>3 DEF Finally, Unpause, SaveImages, Verify
  <1>4. CASE Fail(s) \/ Interrupt(s)
    BY <1>4 DEF Fail, Interrupt
  <1>5. CASE Gone(s)
    BY <1>5 DEF Gone
  <1> QED
    BY <1>1, <1>2, <1>3, <1>4, <1>5 DEF Act, Step, Exit, Kill

LEMMA KnowsFrame ==
    ASSUME NEW q \in Snapshot, Knows(q),
           pc'[q] = pc[q], found'[q] = found[q], raising'[q] = raising[q],
           captured'[q] = captured[q], outcome'[q] = outcome[q],
           q \in stuck <=> q \in stuck',
           lock' = q <=> lock = q,
           lock = q => UNCHANGED <<host, manager, moments>>
    PROVE  Knows(q)'
  BY DEF Knows, KnowsItself, KnowsManager, KnowsHost, Nothing

\* What a step teaches the run that takes it.
LEMMA KnowsStep ==
    ASSUME Inv, NEW s \in Snapshot, Act(s)
    PROVE  Knows(s)'
  <1>0. TypeOK /\ Knows(s) /\ host \in moments
    BY DEF Inv
  <1> USE <1>0, HolderAssumption
      DEF TypeOK, Knows, KnowsItself, KnowsManager, KnowsHost, Goto, End, Raise, Locked, Guarded
  <1>1. CASE Invoke(s)
    BY <1>1 DEF Invoke
  <1>2. CASE Acquire(s)
    BY <1>2 DEF Acquire, LockFree
  <1>3. CASE Inspect(s)
    BY <1>3 DEF Inspect
  <1>4. CASE Pause(s)
    BY <1>4 DEF Pause
  <1>5. CASE CopyRunning(s)
    BY <1>5 DEF CopyRunning, Capture, Nothing, Files
  <1>6. CASE CopyTree(s)
    <2>1. ASSUME NEW file \in Files, Capture(s, file), pc' = pc PROVE Knows(s)'
      BY <1>6, <2>1 DEF CopyTree, Capture
    <2>2. CASE (\A file \in Files : captured[s][file] # Missing) /\ UNCHANGED captured
      <3>1. captured[s] = host
        <4>1. \A f \in Files : captured[s][f] = host[f]
          BY <1>6, <2>2 DEF CopyTree
        <4> QED
          BY <4>1
      <3> QED
        BY <1>6, <2>2, <3>1 DEF CopyTree
    <2> QED
      BY <1>6, <2>1, <2>2 DEF CopyTree
  <1>7. CASE Finally(s)
    BY <1>7 DEF Finally
  <1>8. CASE Unpause(s)
    BY <1>8 DEF Unpause
  <1>9. CASE SaveImages(s) \/ Verify(s)
    BY <1>9 DEF SaveImages, Verify
  <1>10. CASE Fail(s)
    BY <1>10 DEF Fail
  <1>11. CASE Interrupt(s)
    BY <1>11 DEF Interrupt
  <1>12. CASE Gone(s)
    BY <1>12 DEF Gone, Nothing
  <1> QED
    BY <1>1, <1>2, <1>3, <1>4, <1>5, <1>6, <1>7, <1>8, <1>9, <1>10, <1>11, <1>12
       DEF Act, Step, Exit, Kill

\* What the host does of itself.  The holder of the lock copies nothing while
\* the manager runs.
LEMMA HostStep ==
    ASSUME Inv, ManagerWrites \/ Deployment \/ Operator \/ UNCHANGED vars, NEW s \in Snapshot
    PROVE  Knows(s)'
  <1>0. TypeOK /\ Knows(s) /\ UNCHANGED <<pc, found, raising, captured, outcome, stuck>>
    BY DEF Inv, ManagerWrites, Deployment, Operator, vars
  <1>1. CASE ManagerWrites
    <2>1. /\ manager = "running" /\ UNCHANGED <<manager, lock>>
          /\ lock = s => moments \subseteq moments'
      BY <1>1 DEF ManagerWrites, Write
    <2> QED
      BY <1>0, <2>1 DEF Knows, KnowsItself, KnowsManager, KnowsHost, Nothing
  <1>2. CASE Deployment \/ Operator
    <2>1. lock # s /\ lock' # s
      BY <1>2, HolderAssumption DEF Deployment, Operator, LockFree
    <2> QED
      BY <1>0, <2>1 DEF Knows, KnowsItself, Nothing
  <1>3. CASE UNCHANGED vars
    BY <1>0, <1>3, KnowsFrame DEF vars
  <1> QED
    BY <1>1, <1>2, <1>3

LEMMA MomentsStep == Inv /\ [Next]_vars => host' \in moments'
  <1> SUFFICES ASSUME Inv, [Next]_vars PROVE host' \in moments'
    OBVIOUS
  <1>0. host \in moments
    BY DEF Inv
  <1>1. ASSUME NEW file, NEW version, Write(file, version) PROVE host' \in moments'
    BY <1>1 DEF Write
  <1>2. ASSUME NEW s \in Snapshot, Act(s) PROVE host' \in moments'
    BY <1>0, <1>2 DEF Act, Step, Invoke, Acquire, Inspect, Pause, CopyRunning, CopyTree, Finally,
       Unpause, SaveImages, Verify, Fail, Exit, Interrupt, Kill, Gone
  <1>3. CASE ManagerWrites \/ Deployment
    BY <1>0, <1>1, <1>3 DEF ManagerWrites, Deployment
  <1>4. CASE Operator \/ UNCHANGED vars
    BY <1>0, <1>4 DEF Operator, vars
  <1> QED
    BY <1>2, <1>3, <1>4 DEF Next, Act

LEMMA InvStep == Inv /\ [Next]_vars => Inv'
  <1> SUFFICES ASSUME Inv, [Next]_vars PROVE Inv'
    OBVIOUS
  <1>1. TypeOK' /\ host' \in moments'
    BY TypeStep, MomentsStep
  <1>2. ASSUME NEW q \in Snapshot PROVE Knows(q)'
    <2>1. ASSUME NEW s \in Snapshot, Act(s) PROVE Knows(q)'
      <3>0. TypeOK /\ Knows(q)
        BY DEF Inv
      <3>1. CASE s = q
        BY <2>1, <3>1, KnowsStep
      <3>2. CASE s # q
        BY <2>1, <3>0, <3>2, Frame, KnowsFrame
      <3> QED
        BY <3>1, <3>2
    <2> QED
      BY <2>1, HostStep DEF Next, Act
  <1> QED
    BY <1>1, <1>2 DEF Inv

\* Its inductive strengthening holds throughout: what a capture knows of the
\* manager and of what it copied at each stage (snapshot-router.py:146-231).
THEOREM Invariance == Spec => []Inv
  BY InitInv, InvStep, PTL DEF Spec

-----------------------------------------------------------------------------
\* Every variable has its type, and no two runs are under the lock at once
\* (snapshot-router.py:148-153).
THEOREM TypeCorrect == Spec => []TypeOK
  <1>1. Inv => TypeOK
    BY DEF Inv
  <1> QED
    BY Invariance, <1>1, PTL

\* A complete snapshot is a state the host was in at one moment
\* (snapshot-router.py:196-221).
THEOREM SnapshotsAreConsistent == Spec => []SnapshotIsOneMoment
  <1>1. Inv => SnapshotIsOneMoment
    BY DEF Inv, Knows, KnowsItself, KnowsHost, SnapshotIsOneMoment
  <1> QED
    BY Invariance, <1>1, PTL

\* A complete snapshot leaves the manager as it was found
\* (snapshot-router.py:196-230).
THEOREM CompleteIsNeutral == Spec => []CompleteLeavesManager
  <1>1. Inv => CompleteLeavesManager
    BY DEF Inv, Knows, KnowsItself, KnowsManager, CompleteLeavesManager
  <1> QED
    BY Invariance, <1>1, PTL

\* A snapshot that fails or is interrupted leaves a running manager running
\* unless the unpause failed or was skipped (snapshot-router.py:198-229).
THEOREM FailureIsNeutral == Spec => []FailureLeavesManager
  <1>1. Inv => FailureLeavesManager
    BY DEF Inv, Knows, KnowsManager, FailureLeavesManager
  <1> QED
    BY Invariance, <1>1, PTL

\* A snapshot puts the manager back, whether it completes, fails or is
\* interrupted (snapshot-router.py:196-230).
THEOREM ManagerReturns == Spec => []ManagerIsPutBack
  BY CompleteIsNeutral, FailureIsNeutral, PTL DEF ManagerIsPutBack
=============================================================================
