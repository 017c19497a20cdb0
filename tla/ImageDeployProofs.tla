------------------------- MODULE ImageDeployProofs -------------------------
(***************************************************************************)
(* Theorems about ImageDeploy for any number of deployments and releases.  *)
(* The holder of the lock is the only one past it (TypeOK); the invariant  *)
(* adds what it knows of the checkout, of CI's order and of the records.   *)
(***************************************************************************)
EXTENDS ImageDeploy, TLAPS

\* A deployment by CI has brought main to its release, and CI has activated
\* nothing newer than main.
OnTip(d) ==
    /\ pc[d] = "merge" => head = OnMain
    /\ kind[d] = "ci" /\ pc[d] \in {"login", "validate", "pull", "start"} =>
         head = OnMain /\ want[d] = main
InOrder == ciLast <= main /\ \A d \in Deployer : OnTip(d)

\* A result waits for its parent only, and its parent records it without a
\* child.
Waits(d) ==
    /\ child[d] \in {"ok", "failed"} => pc[d] = "await"
    /\ pc[d] \in Recording => child[d] = "none"

\* A result that is a success, and every stage that records one, is about a
\* release that succeeded.
Earned ==
    \A d \in Deployer :
        /\ Waits(d)
        /\ child[d] = "ok" \/ pc[d] \in Recording => want[d] \in succeeded

\* Nothing of d waits to be recorded.
Done(d) == child[d] # "ok" /\ pc[d] \notin Recording

\* Until its records are complete, the last activation is that of the holder;
\* before and after, the records name it.
Pending(d) ==
    /\ ~ Done(d) => last = want[d]
    /\ pc[d] = "compose" => current = last
Settled ==
    (\A d \in Deployer : Done(d)) => current = last /\ composed = last
Recorded == ~ cut => Settled /\ \A d \in Deployer : Pending(d)

Inv ==
    /\ TypeOK
    /\ InOrder
    /\ ActivatesItsCheckout
    /\ Earned
    /\ RecordsWereActivated
    /\ Recorded

-----------------------------------------------------------------------------
\* The stages that nothing but their program counter notices.
Quiet(d) == Check(d) \/ Login(d) \/ Validate(d) \/ Pull(d)
Act(d) == DeployStep(d) \/ ChildStep(d) \/ Interrupt(d) \/ Kill(d)

\* A step of one deployment leaves the others where they are.
LEMMA Frame ==
    ASSUME TypeOK, NEW d \in Deployer, Act(d), NEW e \in Deployer, e # d
    PROVE  /\ pc'[e] = pc[e] /\ child'[e] = child[e]
           /\ want'[e] = want[e] /\ kind'[e] = kind[e]
  BY DEF TypeOK, Act, DeployStep, Invoke, Acquire, Check, Login, Validate, Pull,
         Stage, Merge, StartChild, Await, SavePrevious, WriteCurrent, WriteCompose,
         Exit, ChildStep, Generate, Activate, StartRestore, Restore, Interrupt,
         Kill, Goto, SetChild, Finish, End, deployment

LEMMA TypeStep == Inv /\ [Next]_vars => TypeOK'
  <1> SUFFICES ASSUME Inv, [Next]_vars PROVE TypeOK'
    OBVIOUS
  <1>0. TypeOK
    BY DEF Inv
  <1> USE <1>0, DeployerAssumption, ReleaseAssumption
      DEF Locked, Recording, Running, Release, File, Goto, repository, deployment,
          records, operation, history
  <1>1. ASSUME NEW d \in Deployer, Invoke(d) PROVE TypeOK'
    BY <1>1 DEF Invoke, TypeOK
  <1>2. ASSUME NEW d \in Deployer, Acquire(d) PROVE TypeOK'
    <2>1. (alone \in BOOLEAN /\ cut \in BOOLEAN)'
      BY <1>2, Zenon DEF Acquire, TypeOK
    <2>2. CASE lock' = d
      BY <1>2, <2>1, <2>2 DEF Acquire, LockFree, TypeOK
    <2>3. CASE pc' = [pc EXCEPT ![d] = "idle"] /\ UNCHANGED lock
      BY <1>2, <2>1, <2>3 DEF Acquire, TypeOK
    <2> QED
      BY <1>2, <2>2, <2>3 DEF Acquire
  <1>3. ASSUME NEW d \in Deployer, Quiet(d) PROVE TypeOK'
    <2>1. PICK to \in Locked : pc[d] \in Locked /\ pc' = [pc EXCEPT ![d] = to]
      BY <1>3 DEF Quiet, Check, Login, Validate, Pull, Stage
    <2>2. UNCHANGED <<repository, lock, deployment, child, records, operation,
                      history>>
      BY <1>3 DEF Quiet, Check, Login, Validate, Pull, Stage
    <2> QED
      BY <2>1, <2>2 DEF TypeOK
  <1>4. ASSUME NEW d \in Deployer, Merge(d) PROVE TypeOK'
    BY <1>4 DEF Merge, TypeOK
  <1>5. ASSUME NEW d \in Deployer, StartChild(d) PROVE TypeOK'
    BY <1>5 DEF StartChild, SetChild, TypeOK
  <1>6. ASSUME NEW d \in Deployer, Await(d) PROVE TypeOK'
    BY <1>6 DEF Await, SetChild, TypeOK
  <1>7. ASSUME NEW d \in Deployer, SavePrevious(d) PROVE TypeOK'
    BY <1>7 DEF SavePrevious, TypeOK
  <1>8. ASSUME NEW d \in Deployer, WriteCurrent(d) \/ WriteCompose(d) PROVE TypeOK'
    <2>1. want[d] \in File
      BY DEF TypeOK
    <2>2. CASE WriteCurrent(d)
      BY <2>1, <2>2 DEF WriteCurrent, TypeOK
    <2>3. CASE WriteCompose(d)
      BY <2>1, <2>3 DEF WriteCompose, TypeOK
    <2> QED
      BY <1>8, <2>2, <2>3
  <1>9. ASSUME NEW d \in Deployer, Exit(d) PROVE TypeOK'
    BY <1>9 DEF Exit, End, TypeOK
  <1>10. ASSUME NEW d \in Deployer, ChildStep(d) PROVE TypeOK'
    <2>1. CASE Activate(d)
      <3>1. cut' \in BOOLEAN
        BY <2>1, Zenon DEF Activate, TypeOK
      <3>2. child' \in [Deployer -> {"none", "ok", "failed"} \cup Running]
        BY <2>1 DEF Activate, Finish, SetChild, TypeOK
      <3>4. want[d] \in Release
        BY DEF TypeOK
      <3>5. succeeded' \subseteq Release /\ last' \in Release
        BY <2>1, <3>4 DEF Activate, TypeOK
      <3>3. UNCHANGED <<repository, lock, pc, deployment, records, operation,
                        ciLast>>
        BY <2>1 DEF Activate
      <3> QED
        BY <3>1, <3>2, <3>5, <3>3 DEF TypeOK
    <2>2. CASE Generate(d) \/ StartRestore(d) \/ Restore(d)
      BY <2>2 DEF Generate, StartRestore, Restore, Finish, SetChild, TypeOK
    <2> QED
      BY <1>10, <2>1, <2>2 DEF ChildStep
  <1>11. ASSUME NEW d \in Deployer, Interrupt(d) PROVE TypeOK'
    BY <1>11 DEF Interrupt, End, Cut, SetChild, TypeOK
  <1>12. ASSUME NEW d \in Deployer, Kill(d) PROVE TypeOK'
    BY <1>12 DEF Kill, End, Cut, SetChild, TypeOK
  <1>13. ASSUME Push \/ Checkout PROVE TypeOK'
    <2>1. CASE Push
      BY <2>1 DEF Push, TypeOK
    <2>2. CASE Checkout
      BY <2>2 DEF Checkout, TypeOK
    <2> QED
      BY <1>13, <2>1, <2>2
  <1>14. ASSUME OperateRead \/ OperateRun PROVE TypeOK'
    <2>1. (alone \in BOOLEAN)'
      BY <1>14, Zenon DEF OperateRead, OperateRun
    <2>2. op' \in Release \cup {None}
      BY <1>14 DEF OperateRead, OperateRun, Revision, TypeOK
    <2>3. UNCHANGED <<repository, lock, pc, deployment, child, records, history>>
      BY <1>14 DEF OperateRead, OperateRun
    <2> QED
      BY <2>1, <2>2, <2>3 DEF TypeOK
  <1>15. CASE UNCHANGED vars
    BY <1>15 DEF vars, TypeOK
  <1> QED
    BY <1>1, <1>2, <1>3, <1>4, <1>5, <1>6, <1>7, <1>8, <1>9, <1>10, <1>11, <1>12,
       <1>13, <1>14, <1>15 DEF Next, DeployStep, Quiet

-----------------------------------------------------------------------------
\* The holder of the lock is alone in the stages under it.
LEMMA Alone ==
    ASSUME TypeOK, NEW d \in Deployer, pc[d] \in Locked, NEW e \in Deployer, e # d
    PROVE  pc[e] \notin Locked
  BY DEF TypeOK

LEMMA FreeMeansNobody ==
    ASSUME TypeOK, lock = Free, NEW d \in Deployer
    PROVE  pc[d] \notin Locked
  BY DeployerAssumption DEF TypeOK

(***************************************************************************)
(* The checkout and the order of CI.                                       *)
(***************************************************************************)
RepositoryInv == InOrder /\ ActivatesItsCheckout

\* With the checkout and ciLast as they are, the stage a deployment comes to
\* decides.
LEMMA SameCheckout ==
    ASSUME Inv, NEW d \in Deployer, Act(d),
           UNCHANGED <<main, head, ciLast>>,
           OnTip(d)',
           pc'[d] \in {"pull", "start", "await"} \cup Recording
                => want'[d] = Revision
    PROVE  RepositoryInv'
  <1>1. TypeOK /\ InOrder /\ ActivatesItsCheckout
    BY DEF Inv
  <1>2. InOrder'
    BY <1>1, Frame DEF InOrder, OnTip
  <1>3. ActivatesItsCheckout'
    BY <1>1, Frame DEF ActivatesItsCheckout, Revision
  <1> QED
    BY <1>2, <1>3 DEF RepositoryInv

LEMMA RepositoryStep == Inv /\ [Next]_vars => RepositoryInv'
  <1> SUFFICES ASSUME Inv, [Next]_vars PROVE RepositoryInv'
    OBVIOUS
  <1>0. TypeOK /\ InOrder /\ ActivatesItsCheckout
    BY DEF Inv
  <1> USE <1>0 DEF Recording, Goto, repository, deployment
  <1>1. ASSUME NEW d \in Deployer, Invoke(d) \/ Acquire(d) \/ Exit(d)
                                   \/ Interrupt(d) \/ Kill(d)
        PROVE  RepositoryInv'
    <2>1. pc'[d] \in {"idle", "lock", "check", "validate"}
      BY <1>1 DEF Invoke, Acquire, Exit, Interrupt, Kill, End, TypeOK
    <2>2. UNCHANGED <<main, head, ciLast>>
      BY <1>1 DEF Invoke, Acquire, Exit, Interrupt, Kill, history
    <2>3. OnTip(d)'
      BY <1>1, <2>1 DEF OnTip, Invoke, Acquire, Exit, Interrupt, Kill, End, TypeOK
    <2>4. Act(d)
      BY <1>1 DEF Act, DeployStep
    <2> QED
      BY <2>1, <2>2, <2>3, <2>4, SameCheckout
  <1>2. ASSUME NEW d \in Deployer, Quiet(d) PROVE RepositoryInv'
    BY <1>2, SameCheckout
       DEF InOrder, OnTip, Act, DeployStep, Quiet, Check, Login, Validate, Pull,
           Stage, history, Revision, ActivatesItsCheckout, TypeOK
  <1>3. ASSUME NEW d \in Deployer, Merge(d) PROVE RepositoryInv'
    <2>1. pc[d] = "merge" /\ pc'[d] \in {"login", "exit"} /\ head = OnMain
      BY <1>3 DEF Merge, InOrder, OnTip, TypeOK
    <2>2. \A e \in Deployer : e # d => pc'[e] = pc[e] /\ pc[e] \notin Locked
      BY <1>3, <2>1, Alone, Frame DEF Locked, Act, DeployStep
    <2>3. main \in Nat /\ want[d] \in Nat /\ ciLast \in Nat
      BY DEF TypeOK, Release
    <2>4. ciLast' <= main' /\ (pc'[d] = "login" => main' = want'[d] /\ head' = OnMain)
      BY <1>3, <2>1, <2>3 DEF Merge, history, InOrder, TypeOK
    <2> QED
      BY <2>1, <2>2, <2>4
         DEF RepositoryInv, InOrder, OnTip, ActivatesItsCheckout, Locked
  <1>4. ASSUME NEW d \in Deployer, StartChild(d) PROVE RepositoryInv'
    <2>1. pc[d] = "start" /\ pc'[d] = "await" /\ want'[d] = want[d]
      BY <1>4 DEF StartChild, TypeOK
    <2>2. \A e \in Deployer : e # d => pc'[e] = pc[e] /\ pc[e] \notin Locked
      BY <1>4, <2>1, Alone, Frame DEF Locked, Act, DeployStep
    <2>3. ciLast' <= main'
      BY <1>4, <2>1 DEF StartChild, InOrder, OnTip, TypeOK, Release
    <2>4. want'[d] = Revision'
      BY <1>4, <2>1 DEF StartChild, ActivatesItsCheckout, Revision
    <2> QED
      BY <2>1, <2>2, <2>3, <2>4
         DEF RepositoryInv, InOrder, OnTip, ActivatesItsCheckout, Locked
  <1>5. ASSUME NEW d \in Deployer,
               Await(d) \/ SavePrevious(d) \/ WriteCurrent(d) \/ WriteCompose(d)
        PROVE  RepositoryInv'
    BY <1>5, SameCheckout
       DEF OnTip, Act, DeployStep, Await, SavePrevious, WriteCurrent, WriteCompose,
           history, Revision, ActivatesItsCheckout, TypeOK
  <1>6. ASSUME NEW d \in Deployer, ChildStep(d) PROVE RepositoryInv'
    BY <1>6, SameCheckout
       DEF InOrder, OnTip, Act, ChildStep, Generate, Activate, StartRestore, Restore,
           history, Revision, ActivatesItsCheckout
  <1>7. ASSUME Checkout PROVE RepositoryInv'
    <2>1. \A d \in Deployer : pc'[d] \notin Locked
      BY <1>7, FreeMeansNobody DEF Checkout
    <2> QED
      BY <1>7, <2>1 DEF Checkout, RepositoryInv, InOrder, OnTip, ActivatesItsCheckout,
                        Locked, history
  <1>8. ASSUME Push \/ OperateRead \/ OperateRun \/ UNCHANGED vars
        PROVE  RepositoryInv'
    <2>1. UNCHANGED <<main, head, pc, kind, want, ciLast>>
      BY <1>8 DEF Push, OperateRead, OperateRun, vars, history
    <2> QED
      BY <2>1 DEF RepositoryInv, InOrder, OnTip, ActivatesItsCheckout, Revision
  <1> QED
    BY <1>1, <1>2, <1>3, <1>4, <1>5, <1>6, <1>7, <1>8 DEF Next, DeployStep, Quiet

(***************************************************************************)
(* The records.                                                            *)
(***************************************************************************)
RecordInv == Earned /\ RecordsWereActivated /\ Recorded

\* A deployment that has something to record holds the lock.
LEMMA OnlyHolderRecords ==
    ASSUME TypeOK, Earned, NEW d \in Deployer, pc[d] \in Locked,
           NEW e \in Deployer, e # d
    PROVE  Done(e)
  BY Alone DEF Done, Earned, Waits, Locked

\* A step of d that records nothing, when d has nothing to record, or when the
\* record is cut off.
LEMMA NothingToRecord ==
    ASSUME Inv, NEW d \in Deployer, Act(d),
           UNCHANGED <<records, succeeded, last>>,
           cut => cut', Done(d) \/ cut', Done(d)', Waits(d)'
    PROVE  RecordInv'
  <1>1. TypeOK /\ Earned /\ RecordsWereActivated /\ Recorded
    BY DEF Inv
  <1>2. Earned'
    BY <1>1, Frame DEF Earned, Done, Waits
  <1>3. RecordsWereActivated'
    BY <1>1 DEF RecordsWereActivated, records
  <1>4. ASSUME ~ cut' PROVE Settled' /\ \A e \in Deployer : Pending(e)'
    <2>1. Done(d) /\ Settled /\ \A e \in Deployer : Pending(e)
      BY <1>1, <1>4 DEF Recorded
    <2>2. \A e \in Deployer : Done(e)' <=> Done(e)
      BY <1>1, <2>1, Frame DEF Done
    <2>3. \A e \in Deployer : Pending(e)'
      BY <1>1, <2>1, <2>2, Frame DEF Pending, Done, Recording, records
    <2> QED
      BY <2>1, <2>2, <2>3 DEF Settled, records
  <1> QED
    BY <1>2, <1>3, <1>4 DEF RecordInv, Recorded

\* While d is at work in the stages under the lock, the others have nothing to
\* record, before and after.
LEMMA OthersDone ==
    ASSUME Inv, NEW d \in Deployer, Act(d), pc[d] \in Locked,
           NEW e \in Deployer, e # d, succeeded \subseteq succeeded'
    PROVE  /\ Done(e)' /\ Waits(e)'
           /\ Pending(e)'
  <1>1. Done(e) /\ Waits(e)
    BY OnlyHolderRecords DEF Inv, Earned
  <1> QED
    BY <1>1, Frame DEF Done, Waits, Pending, Recording, Inv

\* A step of the holder is right if it is right for the holder.
LEMMA HolderRecords ==
    ASSUME Inv, NEW d \in Deployer, Act(d), pc[d] \in Locked,
           succeeded \subseteq succeeded',
           RecordsWereActivated', Waits(d)',
           ~ Done(d)' => want'[d] \in succeeded',
           ~ cut' => Pending(d)' /\ Settled'
    PROVE  RecordInv'
  <1>1. \A e \in Deployer : e # d => Done(e)' /\ Waits(e)' /\ Pending(e)'
    BY OthersDone
  <1>2. Earned'
    BY <1>1 DEF Earned, Done
  <1>3. Recorded'
    BY <1>1 DEF Recorded
  <1> QED
    BY <1>2, <1>3 DEF RecordInv

LEMMA RecordStep == Inv /\ [Next]_vars => RecordInv'
  <1> SUFFICES ASSUME Inv, [Next]_vars PROVE RecordInv'
    OBVIOUS
  <1>0. TypeOK /\ Earned /\ RecordsWereActivated /\ Recorded
    BY DEF Inv
  <1> USE <1>0 DEF Goto, SetChild, deployment, records, history
  <1>1. ASSUME NEW d \in Deployer,
               \/ Invoke(d) \/ Acquire(d) \/ Quiet(d) \/ Merge(d)
               \/ StartChild(d) \/ Exit(d)
        PROVE  RecordInv'
    <2>1. /\ pc[d] \notin Recording \cup {"await"}
          /\ pc'[d] \notin Recording
      BY <1>1 DEF Recording, Invoke, Acquire, Quiet, Check, Login, Validate, Pull,
                  Stage, Merge, StartChild, Exit, End, TypeOK
    <2>2. child[d] \notin {"ok", "failed"}
      BY <2>1 DEF Earned, Waits
    <2>3. child'[d] \in {child[d], "generating"}
      BY <1>1 DEF Invoke, Acquire, Quiet, Check, Login, Validate, Pull,
                  Stage, Merge, StartChild, Exit, End, TypeOK
    <2>4. UNCHANGED <<records, succeeded, last, cut>> /\ Act(d)
      BY <1>1 DEF Act, DeployStep, Invoke, Acquire, Quiet, Check, Login, Validate,
                  Pull, Stage, Merge, StartChild, Exit
    <2> QED
      BY <2>1, <2>2, <2>3, <2>4, NothingToRecord DEF Done, Waits
  <1>2. ASSUME NEW d \in Deployer, Await(d) PROVE RecordInv'
    <2>1. pc[d] = "await" /\ child'[d] = "none" /\ Act(d)
      BY <1>2 DEF Await, Act, DeployStep, TypeOK
    <2>2. CASE child[d] = "ok"
      <3>1. pc'[d] = "previous" /\ want'[d] = want[d]
        BY <1>2, <2>2 DEF Await, TypeOK
      <3>2. want[d] \in succeeded /\ (~ cut => last = want[d])
        BY <2>2 DEF Earned, Recorded, Pending, Done
      <3> QED
        BY <1>2, <2>1, <3>1, <3>2, HolderRecords
           DEF Await, Locked, Recording, Done, Waits, Pending, Settled,
               RecordsWereActivated
    <2>3. CASE child[d] = "failed"
      BY <1>2, <2>1, <2>3, NothingToRecord
         DEF Await, Recording, Done, Waits, TypeOK
    <2> QED
      BY <1>2, <2>2, <2>3 DEF Await
  <1>3. ASSUME NEW d \in Deployer,
               SavePrevious(d) \/ WriteCurrent(d) \/ WriteCompose(d)
        PROVE  RecordInv'
    <2>1. /\ pc[d] \in Recording /\ child'[d] = "none" /\ want'[d] = want[d]
          /\ pc'[d] \in {"current", "compose", "exit"} /\ Act(d)
      BY <1>3 DEF SavePrevious, WriteCurrent, WriteCompose, Recording, Earned, Waits,
                  Act, DeployStep, TypeOK
    <2>2. want[d] \in succeeded /\ (~ cut => last = want[d])
      BY <2>1 DEF Earned, Recorded, Pending, Done
    <2>3. RecordsWereActivated'
      BY <1>3, <2>2 DEF SavePrevious, WriteCurrent, WriteCompose, RecordsWereActivated
    <2>4. ~ cut' => Pending(d)' /\ Settled'
      <3>1. CASE SavePrevious(d)
        BY <2>1, <2>2, <3>1
           DEF SavePrevious, Pending, Settled, Done, Recording, TypeOK
      <3>2. CASE WriteCurrent(d)
        BY <2>1, <2>2, <3>2
           DEF WriteCurrent, Pending, Settled, Done, Recording, TypeOK
      <3>3. CASE WriteCompose(d)
        BY <2>1, <2>2, <3>3
           DEF WriteCompose, Pending, Settled, Done, Recording, Recorded, TypeOK
      <3> QED
        BY <1>3, <3>1, <3>2, <3>3
    <2>5. succeeded' = succeeded
      BY <1>3 DEF SavePrevious, WriteCurrent, WriteCompose
    <2> QED
      BY <2>1, <2>2, <2>3, <2>4, <2>5, HolderRecords
         DEF Recording, Locked, Done, Waits
  <1>4. ASSUME NEW d \in Deployer, Generate(d) \/ StartRestore(d) \/ Restore(d)
        PROVE  RecordInv'
    <2>1. child[d] \in Running /\ pc'[d] = pc[d] /\ Act(d)
      BY <1>4 DEF Generate, StartRestore, Restore, Running, Act, ChildStep
    <2>2. pc[d] \notin Recording
      BY <2>1 DEF Earned, Waits, Running
    <2>3. /\ child'[d] \in {"activating", "restoring", "none", "failed"}
          /\ child'[d] = "failed" => pc[d] = "await"
      BY <1>4 DEF Generate, StartRestore, Restore, Finish, TypeOK
    <2> QED
      BY <1>4, <2>1, <2>2, <2>3, NothingToRecord
         DEF Generate, StartRestore, Restore, Running, Done, Waits
  <1>5. ASSUME NEW d \in Deployer, Activate(d) PROVE RecordInv'
    <2>1. /\ child[d] = "activating" /\ pc'[d] = pc[d] /\ Act(d)
          /\ succeeded' = succeeded \cup {want[d]}
          /\ UNCHANGED <<records, deployment>>
      BY <1>5 DEF Activate, Act, ChildStep
    <2>2. pc[d] \notin Recording
      BY <2>1 DEF Earned, Waits
    <2>3. RecordsWereActivated'
      BY <2>1 DEF RecordsWereActivated
    <2>4. CASE pc[d] = "await"
      <3>1. child'[d] = "ok" /\ last' = want'[d]
        BY <1>5, <2>4 DEF Activate, Finish, TypeOK
      <3> QED
        BY <2>1, <2>2, <2>3, <2>4, <3>1, HolderRecords
           DEF Locked, Recording, Waits, Done, Pending, Settled
    <2>5. CASE pc[d] # "await"
      <3>1. child'[d] = "none" /\ cut'
        BY <1>5, <2>5 DEF Activate, Finish, TypeOK
      <3>2. Earned'
        BY <2>1, <2>2, <3>1, Frame DEF Earned, Waits
      <3> QED
        BY <2>3, <3>1, <3>2 DEF RecordInv, Recorded
    <2> QED
      BY <2>4, <2>5
  <1>6. ASSUME NEW d \in Deployer, Interrupt(d) \/ Kill(d) PROVE RecordInv'
    <2>1. /\ pc'[d] = "idle" /\ Act(d) /\ UNCHANGED <<deployment, succeeded, last>>
          /\ child'[d] \in {"none"} \cup Running
      BY <1>6 DEF Interrupt, Kill, End, Act, Running, TypeOK
    <2>2. (cut => cut') /\ (Done(d) \/ cut')
      BY <1>6, Zenon DEF Interrupt, Kill, Cut, Done
    <2>3. Done(d)' /\ Waits(d)'
      BY <2>1 DEF Done, Waits, Recording, Running
    <2>4. CASE UNCHANGED records
      BY <2>1, <2>2, <2>3, <2>4, NothingToRecord
    <2>5. CASE Kill(d) /\ pc[d] \in Recording
      <3>1. RecordsWereActivated'
        BY <2>1, <2>5 DEF Kill, RecordsWereActivated
      <3>2. cut'
        BY <2>5, Zenon DEF Kill, Cut
      <3> QED
        BY <2>1, <2>3, <2>5, <3>1, <3>2, HolderRecords DEF Locked
    <2> QED
      BY <1>6, <2>4, <2>5 DEF Interrupt, Kill, Recording
  <1>7. ASSUME Push \/ Checkout \/ OperateRead \/ OperateRun \/ UNCHANGED vars
        PROVE  RecordInv'
    <2>1. UNCHANGED <<pc, child, want, records, succeeded, last, cut>>
      BY <1>7 DEF Push, Checkout, OperateRead, OperateRun, vars
    <2> QED
      BY <2>1 DEF RecordInv, Earned, Waits, RecordsWereActivated, Recorded, Settled,
                  Pending, Done
  <1> QED
    BY <1>1, <1>2, <1>3, <1>4, <1>5, <1>6, <1>7
       DEF Next, DeployStep, ChildStep, Quiet

-----------------------------------------------------------------------------
LEMMA Invariance == Spec => []Inv
  <1>1. Init => Inv
    <2> SUFFICES ASSUME Init PROVE Inv
      OBVIOUS
    <2> USE DEF Init, Locked, Recording
    <2>1. TypeOK
      <3>1. 1 \in Release /\ 1 \in 1 .. 1
        BY ReleaseAssumption DEF Release
      <3>2. \A d \in Deployer : pc[d] \notin Locked /\ lock # d
        BY DeployerAssumption
      <3>3. alone \in BOOLEAN /\ cut \in BOOLEAN
        BY Zenon
      <3> QED
        BY <3>1, <3>2, <3>3 DEF TypeOK, File
    <2>2. InOrder /\ ActivatesItsCheckout
      BY DEF InOrder, OnTip, ActivatesItsCheckout
    <2>3. Earned /\ RecordsWereActivated /\ Recorded
      BY DEF Earned, Waits, RecordsWereActivated, Recorded, Settled, Pending, Done
    <2> QED
      BY <2>1, <2>2, <2>3 DEF Inv
  <1>2. Inv /\ [Next]_vars => Inv'
    BY TypeStep, RepositoryStep, RecordStep DEF Inv, RepositoryInv, RecordInv
  <1> QED
    BY <1>1, <1>2, PTL DEF Spec

\* Every variable keeps its type, and exactly the deployment that holds the
\* host lock is past it (images.py, locked_deploy; ci-deploy.mk, flock).
THEOREM TypeCorrect == Spec => []TypeOK
  BY Invariance, PTL DEF Inv

\* No deployment has HEAD moved under it between its validation and its last
\* record (ci-deploy.mk, merge; images.py, validate).
THEOREM CheckoutStays == Spec => []ActivatesItsCheckout
  BY Invariance, PTL DEF Inv

\* The records never name a release that was not activated, whatever dies
\* (images.py, deploy).
THEOREM RecordsAreEarned == Spec => []RecordsWereActivated
  BY Invariance, PTL DEF Inv

\* Unless a deployment died between activation and record, the records agree
\* whenever the lock is free (images.py, deploy and operate).
THEOREM RecordsInStep == Spec => []RecordsAgree
  <1>1. Inv => RecordsAgree
    <2> SUFFICES ASSUME Inv, lock = Free, ~ cut
                 PROVE  current = last /\ composed = last
      BY DEF RecordsAgree
    <2>1. \A d \in Deployer : pc[d] \notin Locked
      BY FreeMeansNobody DEF Inv
    <2>2. \A d \in Deployer : Done(d)
      BY <2>1 DEF Inv, Earned, Waits, Done, Locked
    <2> QED
      BY <2>2 DEF Inv, Recorded, Settled
  <1> QED
    BY <1>1, Invariance, PTL

\* The releases CI activates never go back, in whatever order its workflows
\* reach the host (ci-deploy.mk, the stale workflow test).
THEOREM CIGoesForward == Spec => CINeverGoesBack
  <1>1. Inv /\ [Next]_vars => [ciLast' >= ciLast]_vars
    <2> SUFFICES ASSUME Inv, [Next]_vars PROVE ciLast' >= ciLast
      OBVIOUS
    <2>1. ASSUME NEW d \in Deployer, StartChild(d) PROVE ciLast' >= ciLast
      BY <2>1 DEF StartChild, Inv, InOrder, OnTip, TypeOK, Release
    <2>2. ASSUME NEW d \in Deployer,
                 \/ Invoke(d) \/ Acquire(d) \/ Quiet(d) \/ Merge(d) \/ Await(d)
                 \/ SavePrevious(d) \/ WriteCurrent(d) \/ WriteCompose(d) \/ Exit(d)
          PROVE  ciLast' = ciLast
      BY <2>2 DEF Invoke, Acquire, Quiet, Check, Login, Validate, Pull, Stage, Merge,
                  Await, SavePrevious, WriteCurrent, WriteCompose, Exit, history
    <2>3. ASSUME NEW d \in Deployer, ChildStep(d) \/ Interrupt(d) \/ Kill(d)
          PROVE  ciLast' = ciLast
      BY <2>3 DEF ChildStep, Generate, Activate, StartRestore, Restore, Interrupt,
                  Kill, history
    <2>4. ASSUME Push \/ Checkout \/ OperateRead \/ OperateRun \/ UNCHANGED vars
          PROVE  ciLast' = ciLast
      BY <2>4 DEF Push, Checkout, OperateRead, OperateRun, vars, history
    <2>5. ciLast >= ciLast
      BY DEF Inv, TypeOK, Release
    <2> QED
      BY <2>1, <2>2, <2>3, <2>4, <2>5 DEF Next, DeployStep, Quiet
  <1> QED
    BY <1>1, Invariance, PTL DEF Spec, CINeverGoesBack

-----------------------------------------------------------------------------
\* A one-shot command that has met no deployment since it validated a release:
\* the lock is free, and the manifest is still the one it has read.
Untouched == op # None /\ alone => lock = Free /\ op = current

LEMMA UntouchedStep == Inv /\ Untouched /\ [Next]_vars => Untouched'
  <1> SUFFICES ASSUME Inv, Untouched, [Next]_vars, op' # None, alone'
               PROVE  lock' = Free /\ op' = current'
    BY DEF Untouched
  <1>0. \A d \in Deployer : lock = Free => pc[d] \notin Locked
    BY FreeMeansNobody DEF Inv
  <1>1. ASSUME NEW d \in Deployer,
               \/ Invoke(d) \/ Quiet(d) \/ Merge(d) \/ StartChild(d) \/ Await(d)
               \/ SavePrevious(d) \/ WriteCurrent(d) \/ WriteCompose(d)
               \/ ChildStep(d)
        PROVE  lock' = Free /\ op' = current'
    <2>1. UNCHANGED <<lock, op, alone>>
      BY <1>1 DEF Invoke, Quiet, Check, Login, Validate, Pull, Stage, Merge,
                  StartChild, Await, SavePrevious, WriteCurrent, WriteCompose,
                  ChildStep, Generate, Activate, StartRestore, Restore, operation
    <2>2. lock = Free /\ op = current
      BY <2>1 DEF Untouched
    <2>3. current' = current
      BY <1>0, <1>1, <2>2
         DEF Invoke, Quiet, Check, Login, Validate, Pull, Stage, Merge, StartChild,
             Await, SavePrevious, WriteCurrent, WriteCompose, ChildStep, Generate,
             Activate, StartRestore, Restore, records, Locked, Recording
    <2> QED
      BY <2>1, <2>2, <2>3
  <1>2. ASSUME NEW d \in Deployer, Acquire(d) PROVE lock' = Free /\ op' = current'
    <2>1. UNCHANGED <<lock, op, alone, current>>
      BY <1>2, Zenon DEF Acquire, records
    <2> QED
      BY <2>1 DEF Untouched
  <1>3. ASSUME NEW d \in Deployer, Exit(d) \/ Interrupt(d) \/ Kill(d)
        PROVE  lock' = Free /\ op' = current'
    <2>1. UNCHANGED <<op, alone>>
      BY <1>3 DEF Exit, Interrupt, Kill, operation
    <2>2. lock = Free /\ op = current
      BY <2>1 DEF Untouched
    <2>3. lock' = Free /\ current' = current
      BY <1>0, <1>3, <2>2 DEF Exit, Interrupt, Kill, End, records, Locked, Recording
    <2> QED
      BY <2>1, <2>2, <2>3
  <1>4. ASSUME OperateRead PROVE lock' = Free /\ op' = current'
    <2>1. op' = current /\ alone' = (lock = Free) /\ lock' = lock /\ current' = current
      BY <1>4, Zenon DEF OperateRead, records
    <2> QED
      BY <2>1
  <1>5. ASSUME Push \/ Checkout \/ UNCHANGED vars
        PROVE  lock' = Free /\ op' = current'
    <2>1. UNCHANGED <<lock, op, alone, current>>
      BY <1>5 DEF Push, Checkout, vars, operation, records
    <2> QED
      BY <2>1 DEF Untouched
  <1>6. ~ OperateRun
    BY Zenon DEF OperateRun
  <1> QED
    BY <1>1, <1>2, <1>3, <1>4, <1>5, <1>6 DEF Next, DeployStep, Quiet

\* A one-shot command that meets no deployment runs the images of the release
\* it has validated, unless a deployment has died before its last record
\* (images.py, operate).
THEOREM OperatorRunsActive == Spec => []OperatesActiveRelease
  <1>1. Init => Untouched
    BY Zenon DEF Init, Untouched
  <1>2. Inv /\ Untouched /\ RecordsAgree => OperatesActiveRelease
    BY DEF Untouched, RecordsAgree, OperatesActiveRelease
  <1> QED
    BY <1>1, <1>2, UntouchedStep, Invariance, RecordsInStep, PTL DEF Spec

\* The next deployment and an operator's one-shot command go by the release
\* that was activated last (images.py, deploy and operate).
THEOREM OneRelease == Spec => []ReleaseIsOne
  BY RecordsInStep, OperatorRunsActive, PTL DEF ReleaseIsOne
=============================================================================
