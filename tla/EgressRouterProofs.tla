------------------------- MODULE EgressRouterProofs -------------------------
(***************************************************************************)
(* Theorems about EgressRouter, and about Activation on its own, for any   *)
(* number of commands and every set of names, URLs and configurations.     *)
(*                                                                         *)
(* The first part is about the commands: for any contents and any of them  *)
(* working, the invariant Inv says who holds the lock and what the holder  *)
(* knows of the snapshots, the router and itself at each of its stages.    *)
(*                                                                         *)
(* The second is about the composition: it implements both of its parts,   *)
(* the router runs nothing unchecked, and a success serves what was        *)
(* promised.  Inv is preserved there because every step of the composition *)
(* is one of Activation, or none.                                          *)
(***************************************************************************)
EXTENDS EgressRouter, TLAPS

\* The stages in which a command holds the lock for certain.  (One that was
\* interrupted while it waited exits without it.)
Holding == Stages \ {"idle", "lock", "exit"}

LockInv ==
    \A s \in Script :
        /\ pc[s] \in Holding => lock = s
        /\ lock = s => pc[s] \notin {"idle", "lock"}
        /\ pc[s] = "exit" => lock = s \/ result[s] = "died"

(***************************************************************************)
(* What a command knows at each stage.                                     *)
(***************************************************************************)
KnowsSnapshots(s) ==
    /\ pc[s] \in {"start", "save"} =>
         active = held.active /\ previous = held.previous
    /\ pc[s] \in Armed \cup {"restore"} => RecoveryFile(s) = held.active
    /\ pc[s] \in {"activate", "recreate", "verify", "swap"} =>
         (action[s] = "rollback" =>
            previous = held.previous /\ previous # Missing)
    /\ pc[s] \in {"recreate", "verify", "swap", "disarm", "cleanup"} =>
         (action[s] = "rollback" => active = held.previous)
    /\ pc[s] \in {"disarm", "cleanup"} => previous = held.active
    /\ pc[s] \in {"rerecreate", "reverify"} => active = held.active

KnowsRouter(s) ==
    /\ pc[s] \in {"recreate", "rerecreate"} => ~ settled
    /\ pc[s] \in {"verify", "reverify"} => router = active
    /\ pc[s] \in {"swap", "disarm", "cleanup"} => settled

KnowsItself(s) ==
    /\ pc[s] = "save" => action[s] = "apply"
    /\ pc[s] = "swap" => action[s] = "rollback"

KnowsOutcome(s) ==
    pc[s] = "exit" =>
        /\ result[s] = "ok" =>
             /\ settled /\ previous = held.active
             /\ action[s] = "rollback" => active = held.previous
        /\ result[s] = "restored" => settled /\ active = held.active
        /\ result[s] = "unchanged" =>
             active = held.active /\ previous = held.previous

Knows(s) ==
    KnowsSnapshots(s) /\ KnowsRouter(s) /\ KnowsItself(s) /\ KnowsOutcome(s)

Inv == /\ TypeOK
       /\ LockInv
       /\ \A s \in Script : Knows(s)
       /\ VerifiedRouterStays
       /\ OriginalIsOnDisk

-----------------------------------------------------------------------------
Act(s) == Invoke(s) \/ Step(s) \/ Interrupt(s) \/ Kill(s)

\* A command touches its own program counter, action, result and copy only.
LEMMA Frame ==
    ASSUME TypeOK, NEW s \in Script, Act(s), NEW q \in Script, q # s
    PROVE  /\ pc'[q] = pc[q] /\ action'[q] = action[q]
           /\ result'[q] = result[q] /\ recovery'[q] = recovery[q]
  BY DEF TypeOK, Act, Invoke, Step, Interrupt, Kill, Acquire, Generate,
         SavePrevious, PrepareRollback, Activate, Recreate, RecreateTo, Verify,
         SwapPrevious, Disarm, Cleanup, RestoreActive, RestoreRecreate,
         RestoreVerify, Exit, Goto, End

LEMMA TypeStep == Inv /\ [Next]_vars => TypeOK'
  <1> SUFFICES ASSUME Inv, [Next]_vars PROVE TypeOK'
    OBVIOUS
  <1>0. TypeOK
    BY DEF Inv
  <1> USE <1>0 DEF Stages, Early, Armed, Restoring, Actions, Results
  <1>1. ASSUME NEW s \in Script, Invoke(s) PROVE TypeOK'
    BY <1>1 DEF Invoke, Goto, TypeOK
  <1>2. ASSUME NEW s \in Script, Acquire(s) PROVE TypeOK'
    BY <1>2 DEF Acquire, Goto, TypeOK
  <1>3. ASSUME NEW s \in Script, Generate(s) PROVE TypeOK'
    BY <1>3 DEF Generate, Goto, End, TypeOK
  <1>4. ASSUME NEW s \in Script, SavePrevious(s) PROVE TypeOK'
    BY <1>4 DEF SavePrevious, Goto, End, TypeOK
  <1>5. ASSUME NEW s \in Script, PrepareRollback(s) PROVE TypeOK'
    BY <1>5 DEF PrepareRollback, Goto, End, TypeOK
  <1>6. ASSUME NEW s \in Script, Activate(s) PROVE TypeOK'
    <2>1. Candidate(s) \in Content
      BY <1>6 DEF Activate, Candidate, Inv, Knows, KnowsSnapshots, TypeOK
    <2> QED
      BY <1>6, <2>1 DEF Activate, Goto, TypeOK
  <1>7. ASSUME NEW s \in Script, Recreate(s) \/ RestoreRecreate(s) PROVE TypeOK'
    BY <1>7 DEF Recreate, RestoreRecreate, RecreateTo, Goto, End, TypeOK
  <1>8. ASSUME NEW s \in Script, Verify(s) \/ Disarm(s) PROVE TypeOK'
    BY <1>8 DEF Verify, Disarm, Goto, TypeOK
  <1>9. ASSUME NEW s \in Script, SwapPrevious(s) PROVE TypeOK'
    BY <1>9 DEF SwapPrevious, Goto, TypeOK
  <1>10. ASSUME NEW s \in Script, Cleanup(s) \/ RestoreVerify(s) PROVE TypeOK'
    BY <1>10 DEF Cleanup, RestoreVerify, Goto, End, TypeOK
  <1>11. ASSUME NEW s \in Script, RestoreActive(s) PROVE TypeOK'
    <2>1. RecoveryFile(s) \in Content
      BY <1>11 DEF RestoreActive, Inv, Knows, KnowsSnapshots, TypeOK
    <2> QED
      BY <1>11, <2>1 DEF RestoreActive, Goto, End, TypeOK
  <1>12. ASSUME NEW s \in Script, Exit(s) \/ Kill(s) \/ Interrupt(s) PROVE TypeOK'
    BY <1>12 DEF Exit, Kill, Interrupt, Release, Goto, End, TypeOK
  <1>13. ASSUME PowerLoss \/ RouterRestart \/ BackgroundRefresh PROVE TypeOK'
    BY <1>13 DEF PowerLoss, RouterRestart, BackgroundRefresh, TypeOK
  <1>14. CASE UNCHANGED vars
    BY <1>14 DEF vars, TypeOK
  <1> QED
    BY <1>1, <1>2, <1>3, <1>4, <1>5, <1>6, <1>7, <1>8, <1>9, <1>10, <1>11, <1>12,
       <1>13, <1>14 DEF Next, Step

-----------------------------------------------------------------------------
\* The steps between taking the lock and exiting are the holder's.
HolderStep(s) ==
    \/ Generate(s) \/ SavePrevious(s) \/ PrepareRollback(s) \/ Activate(s)
    \/ Recreate(s) \/ Verify(s) \/ SwapPrevious(s) \/ Disarm(s) \/ Cleanup(s)
    \/ RestoreActive(s) \/ RestoreRecreate(s) \/ RestoreVerify(s)

LEMMA HolderMoves ==
    ASSUME Inv, NEW s \in Script, HolderStep(s)
    PROVE  /\ lock = s /\ lock' = s
           /\ pc[s] \in Holding /\ pc'[s] \in Holding \cup {"exit"}
           /\ UNCHANGED <<action, held>>
  <1>1. pc[s] \in Holding /\ lock' = lock /\ UNCHANGED <<action, held>>
    BY DEF HolderStep, Generate, SavePrevious, PrepareRollback, Activate, Recreate,
           Verify, SwapPrevious, Disarm, Cleanup, RestoreActive, RestoreRecreate,
           RestoreVerify, Holding, Stages, Early, Armed, Restoring
  <1>2. pc'[s] \in Holding \cup {"exit"}
    BY DEF HolderStep, Generate, SavePrevious, PrepareRollback, Activate, Recreate,
           RecreateTo, Verify, SwapPrevious, Disarm, Cleanup, RestoreActive,
           RestoreRecreate, RestoreVerify, Goto, End, Holding, Stages, Early,
           Armed, Restoring, Inv, TypeOK
  <1> QED
    BY <1>1, <1>2 DEF Inv, LockInv

LEMMA LockStep == Inv /\ [Next]_vars => LockInv'
  <1> SUFFICES ASSUME Inv, [Next]_vars PROVE LockInv'
    OBVIOUS
  <1>0. TypeOK /\ LockInv
    BY DEF Inv
  <1> USE <1>0, ScriptAssumption DEF Holding
  <1>1. ASSUME NEW s \in Script, Invoke(s) PROVE LockInv'
    BY <1>1 DEF Invoke, Goto, TypeOK, LockInv
  <1>2. ASSUME NEW s \in Script, Acquire(s) PROVE LockInv'
    BY <1>2 DEF Acquire, LockFree, Goto, TypeOK, LockInv
  <1>3. ASSUME NEW s \in Script, HolderStep(s) PROVE LockInv'
    BY <1>3, HolderMoves, Frame DEF Act, Step, HolderStep, LockInv
  <1>4. ASSUME NEW s \in Script, Exit(s) \/ Kill(s) PROVE LockInv'
    BY <1>4 DEF Exit, Kill, Release, Goto, TypeOK, LockInv
  <1>5. ASSUME NEW s \in Script, Interrupt(s) PROVE LockInv'
    BY <1>5 DEF Interrupt, Goto, End, TypeOK, LockInv, Stages, Early, Armed,
                Restoring
  <1>6. ASSUME PowerLoss PROVE LockInv'
    BY <1>6 DEF PowerLoss, LockInv
  <1>7. ASSUME RouterRestart \/ BackgroundRefresh PROVE LockInv'
    BY <1>7 DEF RouterRestart, BackgroundRefresh, LockInv
  <1>8. CASE UNCHANGED vars
    BY <1>8 DEF vars, LockInv
  <1> QED
    BY <1>1, <1>2, <1>3, <1>4, <1>5, <1>6, <1>7, <1>8 DEF Next, Step, HolderStep

-----------------------------------------------------------------------------
\* A verified router keeps running the active file.
LEMMA RouterStep == Inv /\ [Next]_vars => VerifiedRouterStays'
  <1> SUFFICES ASSUME Inv, [Next]_vars, settled'
               PROVE  router' = active' /\ active' \in Working
    BY DEF VerifiedRouterStays
  <1> USE DEF Inv, VerifiedRouterStays
  <1>1. CASE UNCHANGED <<settled, router, active>>
    BY <1>1
  <1>2. ASSUME NEW s \in Script, Activate(s) \/ RestoreActive(s)
        PROVE  UNCHANGED <<settled, router, active>>
    BY <1>2 DEF Activate, RestoreActive, TypeOK
  <1>3. ASSUME NEW s \in Script, Recreate(s) \/ RestoreRecreate(s) PROVE FALSE
    BY <1>3 DEF Recreate, RestoreRecreate, Knows, KnowsRouter
  <1>4. ASSUME NEW s \in Script, Verify(s) \/ RestoreVerify(s)
        PROVE  router' = active' /\ active' \in Working
    BY <1>4 DEF Verify, RestoreVerify, Knows, KnowsRouter
  <1>5. ASSUME NEW s \in Script,
               \/ Invoke(s) \/ Acquire(s) \/ Generate(s) \/ SavePrevious(s)
               \/ PrepareRollback(s) \/ SwapPrevious(s) \/ Disarm(s) \/ Cleanup(s)
               \/ Exit(s) \/ Interrupt(s) \/ Kill(s)
        PROVE  UNCHANGED <<settled, router, active>>
    BY <1>5 DEF Invoke, Acquire, Generate, SavePrevious, PrepareRollback,
                SwapPrevious, Disarm, Cleanup, Exit, Interrupt, Kill
  <1>6. ASSUME PowerLoss \/ RouterRestart
        PROVE  router' = active' /\ active' \in Working
    BY <1>6 DEF PowerLoss, RouterRestart
  <1>7. CASE BackgroundRefresh \/ UNCHANGED vars
    BY <1>1, <1>7 DEF BackgroundRefresh, vars
  <1> QED
    BY <1>1, <1>2, <1>3, <1>4, <1>5, <1>6, <1>7 DEF Next, Step

-----------------------------------------------------------------------------
\* A command that is not the holder knows nothing that could change.
LEMMA OthersKnow ==
    ASSUME NEW s \in Script,
           pc[s] \in {"idle", "lock"} \/ (pc[s] = "exit" /\ result[s] = "died")
    PROVE  Knows(s)
  BY DEF Knows, KnowsSnapshots, KnowsRouter, KnowsItself, KnowsOutcome, Armed

\* Each stage of a command establishes what the next one relies on.
LEMMA StageKnows ==
    ASSUME Inv, NEW s \in Script, Acquire(s) \/ HolderStep(s)
    PROVE  Knows(s)'
  <1>0. TypeOK /\ Knows(s)
    BY DEF Inv
  <1> USE <1>0 DEF Knows, KnowsSnapshots, KnowsRouter, KnowsItself, KnowsOutcome,
                   Armed, RecoveryFile, Goto, End, TypeOK
  <1>1. CASE Acquire(s)
    BY <1>1 DEF Acquire
  <1>2. CASE Generate(s)
    BY <1>2 DEF Generate, Actions
  <1>3. CASE SavePrevious(s)
    BY <1>3 DEF SavePrevious
  <1>4. CASE PrepareRollback(s)
    BY <1>4 DEF PrepareRollback
  <1>5. CASE Activate(s)
    BY <1>5 DEF Activate, Candidate
  <1>6. CASE Recreate(s)
    BY <1>6 DEF Recreate, RecreateTo
  <1>7. CASE Verify(s)
    BY <1>7 DEF Verify, Actions
  <1>8. CASE SwapPrevious(s)
    BY <1>8 DEF SwapPrevious
  <1>9. CASE Disarm(s) \/ Cleanup(s)
    BY <1>9 DEF Disarm, Cleanup
  <1>10. CASE RestoreActive(s)
    BY <1>10 DEF RestoreActive
  <1>11. CASE RestoreRecreate(s)
    BY <1>11 DEF RestoreRecreate, RecreateTo
  <1>12. CASE RestoreVerify(s)
    BY <1>12 DEF RestoreVerify
  <1> QED
    BY <1>1, <1>2, <1>3, <1>4, <1>5, <1>6, <1>7, <1>8, <1>9, <1>10, <1>11, <1>12
       DEF HolderStep

\* Nobody else's step and nothing in the environment takes it away.
LEMMA KnowsStep == Inv /\ [Next]_vars => \A s \in Script : Knows(s)'
  <1> SUFFICES ASSUME Inv, [Next]_vars, NEW q \in Script PROVE Knows(q)'
    OBVIOUS
  <1>0. TypeOK /\ LockInv /\ Knows(q)
    BY DEF Inv
  <1> USE <1>0
  <1> DEFINE Shared == <<active, previous, router, held, settled>>
             Own    == <<pc[q], action[q], result[q], recovery[q]>>
  <1>1. CASE UNCHANGED Shared /\ UNCHANGED Own
    BY <1>1 DEF Knows, KnowsSnapshots, KnowsRouter, KnowsItself, KnowsOutcome,
                RecoveryFile
  <1>2. ASSUME NEW s \in Script, Act(s), s # q PROVE Knows(q)'
    <2>1. UNCHANGED Own
      BY <1>2, Frame
    <2>2. CASE Invoke(s) \/ Interrupt(s) \/ Kill(s) \/ Exit(s)
      <3>1. UNCHANGED Shared
        BY <2>2 DEF Invoke, Interrupt, Kill, Exit
      <3> QED
        BY <1>1, <2>1, <3>1
    <2>3. CASE Acquire(s) \/ HolderStep(s)
      <3>1. lock # q
        BY <1>2, <2>3, HolderMoves, ScriptAssumption DEF Acquire, LockFree
      <3>2. pc[q] \in {"idle", "lock"} \/ (pc[q] = "exit" /\ result[q] = "died")
        BY <3>1 DEF LockInv, Holding, TypeOK
      <3>3. \/ pc'[q] \in {"idle", "lock"}
            \/ pc'[q] = "exit" /\ result'[q] = "died"
        BY <2>1, <3>2
      <3> QED
        BY <3>3, OthersKnow
           DEF Knows, KnowsSnapshots, KnowsRouter, KnowsItself, KnowsOutcome, Armed
    <2> QED
      BY <1>2, <2>2, <2>3 DEF Act, Step, HolderStep
  <1>3. ASSUME Invoke(q) \/ Kill(q) \/ Exit(q) PROVE Knows(q)'
    <2>1. pc'[q] \in {"idle", "lock"}
      BY <1>3 DEF Invoke, Kill, Exit, Goto, TypeOK
    <2> QED
      BY <2>1 DEF Knows, KnowsSnapshots, KnowsRouter, KnowsItself, KnowsOutcome,
                  Armed
  <1>4. ASSUME Interrupt(q) PROVE Knows(q)'
    <2>1. CASE pc'[q] = "restore"
      <3>1. pc[q] \in Armed /\ RecoveryFile(q) = held.active
        BY <1>4, <2>1 DEF Interrupt, Goto, End, TypeOK, Knows, KnowsSnapshots
      <3>2. RecoveryFile(q)' = RecoveryFile(q) /\ held' = held
        BY <1>4 DEF Interrupt, RecoveryFile
      <3> QED
        BY <2>1, <3>1, <3>2 DEF Knows, KnowsSnapshots, KnowsRouter, KnowsItself,
                                KnowsOutcome
    <2>2. CASE pc'[q] # "restore"
      <3>1. pc'[q] = "exit" /\ result'[q] = "died"
        BY <1>4, <2>2 DEF Interrupt, Goto, End, TypeOK
      <3> QED
        BY <3>1 DEF Knows, KnowsSnapshots, KnowsRouter, KnowsItself, KnowsOutcome,
                    Armed
    <2> QED
      BY <2>1, <2>2
  <1>5. ASSUME Acquire(q) \/ HolderStep(q) PROVE Knows(q)'
    BY <1>5, StageKnows
  <1>6. ASSUME PowerLoss PROVE Knows(q)'
    BY <1>6 DEF PowerLoss, Knows, KnowsSnapshots, KnowsRouter, KnowsItself,
                KnowsOutcome, Armed
  <1>7. ASSUME RouterRestart PROVE Knows(q)'
    BY <1>7 DEF RouterRestart, Knows, KnowsSnapshots, KnowsRouter, KnowsItself,
                KnowsOutcome, RecoveryFile
  <1>8. CASE BackgroundRefresh \/ UNCHANGED vars
    BY <1>1, <1>8 DEF BackgroundRefresh, vars
  <1> QED
    BY <1>2, <1>3, <1>4, <1>5, <1>6, <1>7, <1>8 DEF Next, Act, Step, HolderStep

-----------------------------------------------------------------------------
\* The original survives every step of its command: it is written somewhere
\* else before it is overwritten or removed.
LEMMA OriginalStep == Inv /\ [Next]_vars => OriginalIsOnDisk'
  <1> SUFFICES ASSUME Inv, [Next]_vars PROVE OriginalIsOnDisk'
    OBVIOUS
  <1>0. TypeOK /\ OriginalIsOnDisk
    BY DEF Inv
  <1> USE <1>0
  <1>1. CASE UNCHANGED <<held, active, previous, recovery>>
    BY <1>1 DEF OriginalIsOnDisk
  <1>2. ASSUME NEW s \in Script, Acquire(s) PROVE OriginalIsOnDisk'
    BY <1>2 DEF Acquire, OriginalIsOnDisk
  <1>3. ASSUME NEW s \in Script, SavePrevious(s) \/ PrepareRollback(s)
        PROVE  OriginalIsOnDisk'
    BY <1>3 DEF SavePrevious, PrepareRollback, OriginalIsOnDisk, Inv, Knows,
                KnowsSnapshots
  <1>4. ASSUME NEW s \in Script, Activate(s) PROVE OriginalIsOnDisk'
    <2>1. RecoveryFile(s) = held.active
      BY <1>4 DEF Activate, Armed, Inv, Knows, KnowsSnapshots
    <2> QED
      BY <1>4, <2>1 DEF Activate, RecoveryFile, OriginalIsOnDisk
  <1>5. ASSUME NEW s \in Script, SwapPrevious(s) PROVE OriginalIsOnDisk'
    <2>1. recovery[s] = held.active
      BY <1>5 DEF SwapPrevious, Armed, RecoveryFile, Inv, Knows, KnowsSnapshots,
                  KnowsItself
    <2> QED
      BY <1>5, <2>1 DEF SwapPrevious, OriginalIsOnDisk
  <1>6. ASSUME NEW s \in Script, Cleanup(s) PROVE OriginalIsOnDisk'
    BY <1>6 DEF Cleanup, OriginalIsOnDisk, Inv, Knows, KnowsSnapshots
  <1>7. ASSUME NEW s \in Script, RestoreActive(s) PROVE OriginalIsOnDisk'
    BY <1>7, <1>1 DEF RestoreActive, OriginalIsOnDisk, Inv, Knows, KnowsSnapshots
  <1>8. ASSUME NEW s \in Script, RestoreVerify(s) PROVE OriginalIsOnDisk'
    BY <1>8 DEF RestoreVerify, OriginalIsOnDisk, Inv, Knows, KnowsSnapshots
  <1>9. ASSUME NEW s \in Script,
               \/ Invoke(s) \/ Generate(s) \/ Recreate(s) \/ Verify(s) \/ Disarm(s)
               \/ RestoreRecreate(s) \/ Exit(s) \/ Interrupt(s) \/ Kill(s)
        PROVE  OriginalIsOnDisk'
    BY <1>1, <1>9 DEF Invoke, Generate, Recreate, Verify, Disarm, RestoreRecreate,
                      Exit, Interrupt, Kill
  <1>10. ASSUME PowerLoss \/ RouterRestart \/ BackgroundRefresh \/ UNCHANGED vars
         PROVE  OriginalIsOnDisk'
    BY <1>1, <1>10 DEF PowerLoss, RouterRestart, BackgroundRefresh, vars
  <1> QED
    BY <1>2, <1>3, <1>4, <1>5, <1>6, <1>7, <1>8, <1>9, <1>10 DEF Next, Step

-----------------------------------------------------------------------------
LEMMA InitInv == Init => Inv
  <1> SUFFICES ASSUME Init PROVE Inv
    OBVIOUS
  <1>1. TypeOK
    BY DEF Init, TypeOK, Stages, Actions, Results
  <1>2. LockInv
    BY ScriptAssumption DEF Init, LockInv, Holding
  <1>3. \A s \in Script : Knows(s)
    BY OthersKnow DEF Init
  <1>4. VerifiedRouterStays /\ OriginalIsOnDisk
    BY DEF Init, VerifiedRouterStays, OriginalIsOnDisk
  <1> QED
    BY <1>1, <1>2, <1>3, <1>4 DEF Inv

LEMMA NextInv == Inv /\ [Next]_vars => Inv'
  BY TypeStep, LockStep, KnowsStep, RouterStep, OriginalStep DEF Inv

LEMMA Invariance == Spec => []Inv
  BY InitInv, NextInv, PTL DEF Spec

\* Every variable keeps its type; active.json is never missing.
THEOREM TypeCorrect == Spec => []TypeOK
  BY Invariance, PTL DEF Inv

\* One command at a time is between taking and giving back the host lock
\* (deploy.sh:8-13).
THEOREM OneHolder == Spec => []LockInv
  BY Invariance, PTL DEF Inv

\* While a restore may still run, its source is the original active config
\* (deploy.sh:54-58, 87-101).
THEOREM RestoreSource == Spec => []RestoreHasTheOriginal
  <1>1. Inv => RestoreHasTheOriginal
    BY DEF Inv, Knows, KnowsSnapshots, RestoreHasTheOriginal
  <1> QED
    BY <1>1, Invariance, PTL

\* The config that was active is on disk at every moment (deploy.sh:54-58,
\* 87-112).
THEOREM OriginalSurvives == Spec => []OriginalIsOnDisk
  BY Invariance, PTL DEF Inv

\* A verified router runs the active file until the next activation
\* (deploy.sh:39-53, 103-105).
THEOREM VerifiedStays == Spec => []VerifiedRouterStays
  BY Invariance, PTL DEF Inv

\* A command that reports success leaves the router running the active file,
\* with the config it replaced one rollback away (deploy.sh:87-89, 103-113).
THEOREM SuccessIsReal == Spec => []SuccessIsLive
  <1>1. Inv => SuccessIsLive
    BY DEF Inv, Knows, KnowsOutcome, VerifiedRouterStays, SuccessIsLive
  <1> QED
    BY <1>1, Invariance, PTL

\* A failure that was undone leaves the original active and running
\* (deploy.sh:91-100).
THEOREM FailureIsReversed == Spec => []FailureIsUndone
  <1>1. Inv => FailureIsUndone
    BY DEF Inv, Knows, KnowsOutcome, VerifiedRouterStays, FailureIsUndone
  <1> QED
    BY <1>1, Invariance, PTL

\* A failure before activation changes neither snapshot (deploy.sh:23-29,
\* 54-86).
THEOREM EarlyFailuresAreHarmless == Spec => []EarlyFailureIsHarmless
  <1>1. Inv => EarlyFailureIsHarmless
    BY DEF Inv, Knows, KnowsOutcome, EarlyFailureIsHarmless
  <1> QED
    BY <1>1, Invariance, PTL

\* A failed command has changed nothing, or has changed everything back
\* (deploy.sh:23-29, 54-100).
THEOREM FailuresRestore == Spec => []FailureRestores
  BY FailureIsReversed, EarlyFailuresAreHarmless, PTL DEF FailureRestores

\* The original active config is where a restore looks for it, and on the disk
\* when none can run (deploy.sh:54-112).
THEOREM OriginalStaysSafe == Spec => []OriginalIsSafe
  BY RestoreSource, OriginalSurvives, PTL DEF OriginalIsSafe


-----------------------------------------------------------------------------
\* The composition.

\* The store and the router apply the same operators.
LEMMA SameOperators ==
    ASSUME NEW S, NEW a
    PROVE  /\ Store!Names(S) = Names(S)
           /\ Store!Upsert(S, a) = Upsert(S, a)
           /\ Store!CollisionFree(S) <=> CollisionFree(S)
           /\ Store!Generated(S) = Generated(S)
  BY DEF Store!Names, Names, Store!Upsert, Upsert, Store!CollisionFree,
         CollisionFree, Store!Generated, Generated, Store!Config, Config,
         Store!Sub, Sub

-----------------------------------------------------------------------------
\* A configuration that may be run: the manager still has what it serves.
Current(c) ==
    c \in Content \ {Seed} =>
        CollisionFree(c.subs) /\ Names(c.subs) \subseteq Names(subscriptions)

Copies == {config, active, previous, router, Missing, Down} \cup {recovery[s] : s \in Script}

ManagerTypes ==
    /\ subscriptions \subseteq Sub
    /\ known \subseteq Names(subscriptions)
    /\ post \in [Script -> {"none", "sent", "done"}]
    /\ add \in [Script -> Accepted \cup {NoAdd}]
    /\ heard \in [Script -> SUBSET (Name \cup {EmptyName})]

\* What a request that was answered has brought about, and how long that is
\* known of the file that is being activated.
Answered(s) ==
    /\ heard[s] \subseteq known
    /\ post[s] = "done" =>
          Promised(s) \subseteq Names(subscriptions) /\ Promised(s) \subseteq Served(config)

Stage(s) ==
    /\ pc[s] = "start" /\ post[s] # "none" => action[s] = "apply"
    /\ pc[s] = "save" => post[s] = "done"
    /\ pc[s] = "activate" /\ action[s] = "apply" => post[s] = "done"

Activated(s) ==
    /\ action[s] = "apply"
    /\ \/ pc[s] \in {"recreate", "verify", "disarm", "cleanup"}
       \/ pc[s] = "exit" /\ result[s] = "ok"
    => Promised(s) \subseteq Served(active)

RouterInv ==
    /\ Inv
    /\ ManagerTypes
    /\ \A c \in Copies : Current(c)
    /\ \A s \in Script : Answered(s) /\ Stage(s) /\ Activated(s)

-----------------------------------------------------------------------------
\* What the manager does when it generates.
LEMMA CommitStep ==
    ASSUME ManagerTypes, NEW a \in Accepted \cup {NoAdd}, Store!Commit(a)
    PROVE  /\ subscriptions' \subseteq Sub
           /\ Names(subscriptions) \subseteq Names(subscriptions')
           /\ a # NoAdd => a.name \in Names(subscriptions')
           /\ config' \in Config /\ config'.valid /\ config'.subs = subscriptions'
           /\ CollisionFree(subscriptions') /\ known' = known
  <1>1. /\ subscriptions' = Upsert(subscriptions, a)
        /\ CollisionFree(subscriptions') /\ known' = known
        /\ config' \in {c \in Generated(subscriptions') : c.valid}
    BY SameOperators DEF Store!Commit
  <1>2. subscriptions' \subseteq Sub
    BY <1>1, AcceptedAssumption DEF Upsert, ManagerTypes, Sub
  <1>3. Names(subscriptions) \subseteq Names(subscriptions')
    BY <1>1 DEF Upsert, Names
  <1>4. a # NoAdd => a.name \in Names(subscriptions')
    BY <1>1 DEF Upsert, Names
  <1>5. config' \in Config /\ config'.valid /\ config'.subs = subscriptions'
    BY <1>1 DEF Generated
  <1> QED
    BY <1>1, <1>2, <1>3, <1>4, <1>5

LEMMA StoreStep ==
    ASSUME ManagerTypes, NEW a \in Accepted, Store!StoreOnly(a)
    PROVE  /\ subscriptions' \subseteq Sub
           /\ Names(subscriptions) \subseteq Names(subscriptions')
           /\ UNCHANGED <<config, known>>
  <1>1. subscriptions' = Upsert(subscriptions, a) /\ UNCHANGED <<config, known>>
    BY SameOperators DEF Store!StoreOnly
  <1>2. subscriptions' \subseteq Sub
    BY <1>1, AcceptedAssumption DEF Upsert, ManagerTypes, Sub
  <1>3. Names(subscriptions) \subseteq Names(subscriptions')
    BY <1>1 DEF Upsert, Names
  <1> QED
    BY <1>1, <1>2, <1>3

\* All that a step may do to the manager: its names grow, and what it
\* publishes serves them all.
Grows ==
    /\ subscriptions' \subseteq Sub
    /\ Names(subscriptions) \subseteq Names(subscriptions')
    /\ known \subseteq known' /\ known' \subseteq Names(subscriptions')
    /\ \/ config' = config
       \/ /\ config' \in Config /\ config'.valid /\ CollisionFree(config'.subs)
          /\ config'.subs = subscriptions'

LEMMA ManagerStep ==
    ASSUME ManagerTypes, Store!StoreNext
    PROVE  Grows
  <1>1. ASSUME NEW a \in Accepted \cup {NoAdd}, Store!Commit(a) PROVE Grows
    BY <1>1, CommitStep DEF Grows, ManagerTypes
  <1>2. ASSUME NEW a \in Accepted, Store!StoreOnly(a) PROVE Grows
    BY <1>2, StoreStep DEF Grows, ManagerTypes
  <1>3. CASE Store!Tell
    BY <1>3, SameOperators DEF Store!Tell, Grows, ManagerTypes
  <1> QED
    BY <1>1, <1>2, <1>3 DEF Store!StoreNext

LEMMA ServeStep ==
    ASSUME ManagerTypes, NEW s \in Script, Serve(s)
    PROVE  /\ Grows
           /\ config' \in Config /\ config'.valid /\ config'.subs = subscriptions'
           /\ add[s] # NoAdd => add[s].name \in Names(subscriptions')
  <1>1. add[s] \in Accepted \cup {NoAdd} /\ Store!Commit(add[s])
    BY DEF Serve, CommitFor, ManagerTypes
  <1> QED
    BY <1>1, CommitStep DEF Grows, ManagerTypes

LEMMA AnswerStep ==
    ASSUME ManagerTypes, NEW s \in Script, Answered(s), Answer(s)
    PROVE  Grows
  <1>1. add[s] # NoAdd => add[s].name \in Names(subscriptions)
    BY DEF Answer, Succeeded, Answered, Promised
  <1> QED
    BY <1>1 DEF Answer, Grows, ManagerTypes

\* Every step is one of these.
LEMMA Growth ==
    ASSUME RouterInv, [RouterNext]_all
    PROVE  Grows
  <1>0. ManagerTypes /\ \A s \in Script : Answered(s)
    BY DEF RouterInv
  <1>1. ASSUME UNCHANGED <<subscriptions, known, config>> PROVE Grows
    BY <1>0, <1>1 DEF Grows, ManagerTypes
  <1>2. ASSUME NEW s \in Script, Post(s) \/ NoAnswer(s) \/ Begin(s) \/ Proceed(s)
        PROVE  UNCHANGED <<subscriptions, known, config>>
    BY <1>2 DEF Post, NoAnswer, Begin, Proceed, vars, manager, Acquire, Invoke, SavePrevious,
       PrepareRollback, Activate, Recreate, Verify, SwapPrevious, Disarm, Cleanup,
       RestoreActive, RestoreRecreate, RestoreVerify, Exit, Interrupt, Kill
  <1>3. ASSUME NEW s \in Script, Serve(s) PROVE Grows
    BY <1>0, <1>3, ServeStep
  <1>4. ASSUME NEW s \in Script, Answer(s) PROVE Grows
    BY <1>0, <1>4, AnswerStep
  <1>5. CASE Host
    BY <1>1, <1>5 DEF Host, manager, PowerLoss, RouterRestart
  <1>6. CASE ManagerAlone
    BY <1>0, <1>6, ManagerStep DEF ManagerAlone
  <1>7. CASE UNCHANGED all
    BY <1>1, <1>7 DEF all, vars, manager
  <1> QED
    BY <1>1, <1>2, <1>3, <1>4, <1>5, <1>6, <1>7 DEF RouterNext

-----------------------------------------------------------------------------
\* To the commands: an answer ends their generation, and what is published
\* meanwhile is a background refresh.
LEMMA AnswerGenerates ==
    ASSUME RouterInv, NEW s \in Script, Answer(s) \/ NoAnswer(s)
    PROVE  Generate(s)
  <1>1. config \in Content /\ Stage(s)
    BY DEF RouterInv, Inv, TypeOK
  <1>2. CASE Answer(s)
    <2>1. action[s] = "apply"
      BY <1>1, <1>2 DEF Answer, Succeeded, Stage
    <2> QED
      BY <1>1, <1>2, <2>1 DEF Answer, Generate
  <1>3. CASE NoAnswer(s)
    BY <1>3 DEF NoAnswer, Generate
  <1> QED
    BY <1>2, <1>3

LEMMA CommandActs ==
    ASSUME RouterInv, NEW s \in Script, Answer(s) \/ NoAnswer(s) \/ Begin(s) \/ Proceed(s)
    PROVE  Act(s)
  BY AnswerGenerates DEF Begin, Proceed, Act, Step

LEMMA PublishedIsContent ==
    ASSUME Grows, config \in Content
    PROVE  config' \in Content
  BY ContentIsValid DEF Grows, Valid

LEMMA StepMaps == RouterInv /\ [RouterNext]_all => [Next]_vars
  <1> SUFFICES ASSUME RouterInv, [RouterNext]_all PROVE [Next]_vars
    OBVIOUS
  <1>0. config' \in Content
    BY Growth, PublishedIsContent DEF RouterInv, Inv, TypeOK
  <1>1. ASSUME NEW s \in Script, Post(s) PROVE UNCHANGED vars
    BY <1>1 DEF Post
  <1>2. ASSUME NEW s \in Script, Serve(s) PROVE BackgroundRefresh
    BY <1>0, <1>2 DEF Serve, BackgroundRefresh
  <1>3. ASSUME NEW s \in Script, Answer(s) \/ NoAnswer(s) \/ Begin(s) \/ Proceed(s) PROVE Act(s)
    BY <1>3, CommandActs
  <1>4. CASE Host
    BY <1>4 DEF Host, Next
  <1>5. CASE ManagerAlone
    BY <1>0, <1>5 DEF ManagerAlone, BackgroundRefresh, Next
  <1>6. CASE UNCHANGED all
    BY <1>6 DEF all
  <1> QED
    BY <1>1, <1>2, <1>3, <1>4, <1>5, <1>6 DEF RouterNext, Next, Act

\* To the manager's clients: a request is a commit, its answer tells one of
\* them, and nothing else that the commands do concerns it.
LEMMA StoreMaps == RouterInv /\ [RouterNext]_all => [Store!StoreNext]_(Store!store)
  <1> SUFFICES ASSUME RouterInv, [RouterNext]_all PROVE [Store!StoreNext]_(Store!store)
    OBVIOUS
  <1>0. ManagerTypes /\ \A s \in Script : Answered(s)
    BY DEF RouterInv
  <1>1. ASSUME NEW s \in Script, Post(s) \/ NoAnswer(s) \/ Begin(s) \/ Proceed(s)
        PROVE  UNCHANGED Store!store
    BY <1>1 DEF Store!store, Post, NoAnswer, Begin, Proceed, vars, manager, Acquire, Invoke,
       SavePrevious, PrepareRollback, Activate, Recreate, Verify, SwapPrevious, Disarm, Cleanup,
       RestoreActive, RestoreRecreate, RestoreVerify, Exit, Interrupt, Kill
  <1>2. ASSUME NEW s \in Script, Serve(s) PROVE Store!StoreNext
    BY <1>0, <1>2 DEF Serve, CommitFor, ManagerTypes, Store!StoreNext
  <1>3. ASSUME NEW s \in Script, Answer(s) PROVE Store!Tell
    <2> DEFINE told == IF add[s] = NoAdd THEN {} ELSE {add[s].name}
    <2>1. told \in SUBSET Names(subscriptions)
      BY <1>0, <1>3 DEF Answer, Succeeded, Answered, Promised
    <2>2. known' = known \cup told /\ UNCHANGED <<subscriptions, config>>
      BY <1>3 DEF Answer
    <2> QED
      BY <2>1, <2>2, SameOperators DEF Store!Tell
  <1>4. CASE Host
    BY <1>4 DEF Host, manager, PowerLoss, RouterRestart, Store!store
  <1>5. CASE ManagerAlone
    BY <1>5 DEF ManagerAlone
  <1>6. CASE UNCHANGED all
    BY <1>6 DEF all, vars, manager, Store!store
  <1> QED
    BY <1>1, <1>2, <1>3, <1>4, <1>5, <1>6 DEF RouterNext, Store!StoreNext

-----------------------------------------------------------------------------
\* The commands and the host copy files and make none of their own.
LEMMA OnlyCopies ==
    ASSUME TypeOK, [Next]_vars
    PROVE  Copies' \subseteq Copies \cup {config'}
  <1> DEFINE Kept == /\ {active', previous', router'} \subseteq Copies
                     /\ \A q \in Script : recovery'[q] \in Copies
  <1>0. Kept => Copies' \subseteq Copies \cup {config'}
    BY DEF Copies
  <1>1. ASSUME UNCHANGED <<active, previous, router, recovery>> PROVE Kept
    BY <1>1 DEF Copies
  <1>2. ASSUME NEW s \in Script,
               \/ Invoke(s) \/ Acquire(s) \/ Generate(s) \/ Verify(s) \/ Disarm(s)
               \/ Exit(s) \/ Interrupt(s) \/ Kill(s)
        PROVE  Kept
    <2>1. UNCHANGED <<active, previous, router, recovery>>
      BY <1>2 DEF Invoke, Acquire, Generate, Verify, Disarm, Exit, Interrupt, Kill
    <2> QED
      BY <1>1, <2>1
  <1>3. ASSUME NEW s \in Script, SavePrevious(s) \/ SwapPrevious(s) PROVE Kept
    BY <1>3 DEF SavePrevious, SwapPrevious, Copies
  <1>4. ASSUME NEW s \in Script, Activate(s) \/ RestoreActive(s) PROVE Kept
    BY <1>4 DEF Activate, RestoreActive, Candidate, RecoveryFile, Copies
  <1>5. ASSUME NEW s \in Script, Recreate(s) \/ RestoreRecreate(s) PROVE Kept
    BY <1>5 DEF Recreate, RestoreRecreate, RecreateTo, Copies
  <1>6. ASSUME NEW s \in Script, PrepareRollback(s) \/ Cleanup(s) \/ RestoreVerify(s)
        PROVE  Kept
    <2>1. /\ UNCHANGED <<active, previous, router>>
          /\ \A q \in Script : recovery'[q] \in {recovery[q], active, Missing}
      BY <1>6 DEF PrepareRollback, Cleanup, RestoreVerify, TypeOK
    <2> QED
      BY <2>1 DEF Copies
  <1>7. ASSUME PowerLoss \/ RouterRestart \/ BackgroundRefresh \/ UNCHANGED vars PROVE Kept
    BY <1>7 DEF PowerLoss, RouterRestart, BackgroundRefresh, vars, Copies
  <1> QED
    BY <1>0, <1>2, <1>3, <1>4, <1>5, <1>6, <1>7 DEF Next, Step

\* What was current stays so, and what is published is.
LEMMA CopiesStep == RouterInv /\ [RouterNext]_all => (\A c \in Copies : Current(c))'
  <1> SUFFICES ASSUME RouterInv, [RouterNext]_all, NEW c \in Copies', c \in Content \ {Seed}
               PROVE  CollisionFree(c.subs) /\ Names(c.subs) \subseteq Names(subscriptions')
    BY DEF Current
  <1>1. c \in Copies \cup {config'}
    BY StepMaps, OnlyCopies DEF RouterInv, Inv
  <1>2. Grows
    BY Growth
  <1>3. CASE c \in Copies
    BY <1>2, <1>3 DEF Grows, RouterInv, Current
  <1>4. CASE c = config' /\ config' # config
    BY <1>2, <1>4 DEF Grows
  <1> QED
    BY <1>1, <1>3, <1>4 DEF Copies

-----------------------------------------------------------------------------
\* A command's own state and its request; what the others' steps leave alone.
LEMMA Apart ==
    ASSUME RouterInv, NEW s \in Script, NEW q \in Script, q # s,
           Post(s) \/ Serve(s) \/ Answer(s) \/ NoAnswer(s) \/ Begin(s) \/ Proceed(s)
    PROVE  /\ pc'[q] = pc[q] /\ action'[q] = action[q] /\ result'[q] = result[q]
           /\ post'[q] = post[q] /\ add'[q] = add[q] /\ heard'[q] = heard[q]
  <1>0. TypeOK /\ ManagerTypes
    BY DEF RouterInv, Inv
  <1>1. CASE Post(s) \/ Serve(s)
    BY <1>0, <1>1 DEF Post, Serve, vars, ManagerTypes
  <1>2. CASE Answer(s) \/ NoAnswer(s) \/ Begin(s) \/ Proceed(s)
    <2>1. Act(s)
      BY <1>2, CommandActs
    <2>2. post'[q] = post[q] /\ add'[q] = add[q] /\ heard'[q] = heard[q]
      BY <1>0, <1>2 DEF Answer, NoAnswer, Begin, Proceed, request, ManagerTypes
    <2> QED
      BY <1>0, <2>1, <2>2, Frame
  <1> QED
    BY <1>1, <1>2

\* A request and what it asks for.
LEMMA Requests ==
    ASSUME RouterInv, [RouterNext]_all, NEW q \in Script
    PROVE  \/ /\ add'[q] = add[q] /\ heard'[q] = heard[q]
              /\ post'[q] \in {post[q], "none"} \/ Serve(q)
           \/ Post(q) /\ post'[q] = "sent" /\ heard'[q] = known
  <1>0. ManagerTypes
    BY DEF RouterInv
  <1>1. ASSUME NEW s \in Script, s # q,
               Post(s) \/ Serve(s) \/ Answer(s) \/ NoAnswer(s) \/ Begin(s) \/ Proceed(s)
        PROVE  post'[q] = post[q] /\ add'[q] = add[q] /\ heard'[q] = heard[q]
    BY <1>1, Apart
  <1>2. CASE Post(q)
    BY <1>0, <1>2 DEF Post, ManagerTypes
  <1>3. CASE Serve(q)
    BY <1>3 DEF Serve
  <1>4. CASE Answer(q) \/ NoAnswer(q) \/ Begin(q) \/ Proceed(q)
    BY <1>0, <1>4 DEF Answer, NoAnswer, Begin, Proceed, request, ManagerTypes
  <1>5. CASE Host \/ ManagerAlone \/ UNCHANGED all
    BY <1>5 DEF Host, ManagerAlone, all, request
  <1> QED
    BY <1>1, <1>2, <1>3, <1>4, <1>5 DEF RouterNext

LEMMA TypesStep == RouterInv /\ [RouterNext]_all => ManagerTypes'
  <1> SUFFICES ASSUME RouterInv, [RouterNext]_all PROVE ManagerTypes'
    OBVIOUS
  <1>0. ManagerTypes /\ Grows
    BY Growth DEF RouterInv
  <1>1. known \subseteq Name \cup {EmptyName}
    BY <1>0, AcceptedAssumption DEF ManagerTypes, Names, Sub
  <1>2. CASE UNCHANGED request
    BY <1>0, <1>2 DEF ManagerTypes, Grows, request
  <1>3. ASSUME NEW s \in Script, Post(s) PROVE ManagerTypes'
    <2>1. /\ post' \in [Script -> {"none", "sent", "done"}]
          /\ add' \in [Script -> Accepted \cup {NoAdd}]
      BY <1>0, <1>3 DEF Post, ManagerTypes
    <2>2. heard' \in [Script -> SUBSET (Name \cup {EmptyName})]
      BY <1>0, <1>1, <1>3 DEF Post, ManagerTypes
    <2> QED
      BY <1>0, <2>1, <2>2 DEF ManagerTypes, Grows
  <1>4. ASSUME NEW s \in Script, Serve(s) \/ Begin(s) PROVE ManagerTypes'
    <2>1. post' \in [Script -> {"none", "sent", "done"}] /\ UNCHANGED <<add, heard>>
      BY <1>0, <1>4 DEF Serve, Begin, ManagerTypes
    <2> QED
      BY <1>0, <2>1 DEF ManagerTypes, Grows
  <1>5. ASSUME NEW s \in Script, Answer(s) \/ NoAnswer(s) \/ Proceed(s) PROVE UNCHANGED request
    BY <1>5 DEF Answer, NoAnswer, Proceed
  <1>6. CASE Host \/ ManagerAlone \/ UNCHANGED all
    BY <1>2, <1>6 DEF Host, ManagerAlone, all, request
  <1> QED
    BY <1>2, <1>3, <1>4, <1>5, <1>6 DEF RouterNext

\* Once answered, a request is kept by whatever is published later.
LEMMA AnsweredStep ==
    ASSUME RouterInv, [RouterNext]_all, NEW q \in Script
    PROVE  Answered(q)'
  <1>0. ManagerTypes /\ Answered(q) /\ Grows
    BY Growth DEF RouterInv
  <1>1. CASE Post(q) /\ post'[q] = "sent" /\ heard'[q] = known
    BY <1>0, <1>1 DEF Answered, Grows
  <1>2. CASE /\ add'[q] = add[q] /\ heard'[q] = heard[q]
             /\ post'[q] \in {post[q], "none"} \/ Serve(q)
    <2>1. heard'[q] \subseteq known' /\ Promised(q)' = Promised(q)
      BY <1>0, <1>2 DEF Answered, Grows, Promised
    <2>2. CASE Serve(q)
      <3>1. /\ config' \in Config /\ config'.subs = subscriptions'
            /\ add[q] # NoAdd => add[q].name \in Names(subscriptions')
        BY <1>0, <2>2, ServeStep
      <3>2. Promised(q) \subseteq Names(subscriptions')
        BY <1>0, <3>1 DEF Promised, Answered, Grows, ManagerTypes
      <3> QED
        BY <2>1, <3>1, <3>2 DEF Answered, Served
    <2>3. CASE post'[q] \in {post[q], "none"}
      <3>1. CASE post[q] # "done"
        BY <2>1, <2>3, <3>1 DEF Answered
      <3>2. CASE post[q] = "done"
        <4>1. Promised(q) \subseteq Names(subscriptions')
          BY <1>0, <3>2 DEF Answered, Grows
        <4>2. Promised(q) \subseteq Served(config')
          BY <1>0, <3>2, <4>1 DEF Answered, Grows, Served
        <4> QED
          BY <2>1, <4>1, <4>2 DEF Answered, Served
      <3> QED
        BY <3>1, <3>2
    <2> QED
      BY <1>2, <2>2, <2>3
  <1> QED
    BY <1>1, <1>2, Requests

-----------------------------------------------------------------------------
\* Only an "apply" waits for an answer, and only an answer lets it go on.
LEMMA StageStep ==
    ASSUME RouterInv, [RouterNext]_all, NEW q \in Script
    PROVE  Stage(q)'
  <1>0. TypeOK /\ ManagerTypes /\ Stage(q)
    BY DEF RouterInv, Inv
  <1>1. CASE UNCHANGED <<pc[q], action[q], post[q]>>
    BY <1>0, <1>1 DEF Stage
  <1>2. ASSUME NEW s \in Script, s # q,
               Post(s) \/ Serve(s) \/ Answer(s) \/ NoAnswer(s) \/ Begin(s) \/ Proceed(s)
        PROVE  Stage(q)'
    BY <1>1, <1>2, Apart
  <1>3. CASE Post(q)
    BY <1>0, <1>3 DEF Post, vars, Stage
  <1>4. CASE Serve(q)
    BY <1>0, <1>4 DEF Serve, ManagerTypes, Stage
  <1>5. CASE Answer(q)
    BY <1>0, <1>5 DEF Answer, Succeeded, request, Goto, TypeOK, Stage
  <1>6. CASE NoAnswer(q)
    BY <1>0, <1>6 DEF NoAnswer, End, Goto, TypeOK, Stage
  <1>7. CASE Begin(q)
    BY <1>0, <1>7 DEF Begin, Acquire, Goto, TypeOK, ManagerTypes, Stage
  <1>8. CASE Proceed(q)
    <2>1. post'[q] = post[q]
      BY <1>8 DEF Proceed, request
    <2>2. CASE SavePrevious(q)
      BY <1>0, <2>1, <2>2 DEF SavePrevious, End, Goto, TypeOK, Stage
    <2>3. CASE PrepareRollback(q)
      BY <1>0, <2>1, <2>3 DEF PrepareRollback, End, Goto, TypeOK, Stage
    <2>4. CASE ~ (SavePrevious(q) \/ PrepareRollback(q))
      <3>1. pc'[q] \notin {"start", "save", "activate"}
        BY <1>0, <1>8, <2>4 DEF Proceed, Invoke, Activate, Recreate, RecreateTo, Verify,
           SwapPrevious, Disarm, Cleanup, RestoreActive, RestoreRecreate, RestoreVerify, Exit,
           Interrupt, Kill, End, Goto, TypeOK
      <3> QED
        BY <3>1 DEF Stage
    <2> QED
      BY <2>2, <2>3, <2>4
  <1>9. CASE Host
    <2>1. CASE PowerLoss
      BY <2>1 DEF PowerLoss, Stage
    <2>2. CASE RouterRestart
      BY <1>1, <1>9, <2>2 DEF Host, RouterRestart, request
    <2> QED
      BY <1>9, <2>1, <2>2 DEF Host
  <1>10. CASE ManagerAlone \/ UNCHANGED all
    BY <1>1, <1>10 DEF ManagerAlone, all, vars, request
  <1> QED
    BY <1>2, <1>3, <1>4, <1>5, <1>6, <1>7, <1>8, <1>9, <1>10 DEF RouterNext

\* The stages in which the active file is the one this command put there.
Applied(s) == \/ pc[s] \in {"recreate", "verify", "disarm", "cleanup"}
              \/ pc[s] = "exit" /\ result[s] = "ok"

\* A command comes to them by Activate only.
LEMMA AppliedOnce ==
    ASSUME Inv, NEW q \in Script, Act(q), Applied(q)', action'[q] = "apply"
    PROVE  /\ action[q] = "apply"
           /\ \/ Applied(q) /\ active' = active
              \/ pc[q] = "activate" /\ active' = config
  <1>0. TypeOK /\ KnowsItself(q)
    BY DEF Inv, Knows
  <1> USE <1>0
  <1>1. CASE Activate(q)
    BY <1>1 DEF Activate, Candidate, Goto, TypeOK, Applied
  <1>2. CASE Recreate(q) \/ Verify(q) \/ Disarm(q)
    BY <1>2 DEF Recreate, RecreateTo, Verify, Disarm, Goto, TypeOK, Applied
  <1>3. CASE Cleanup(q)
    BY <1>3 DEF Cleanup, End, Goto, TypeOK, Applied
  <1>4. CASE \/ Invoke(q) \/ Acquire(q) \/ Generate(q) \/ SavePrevious(q)
             \/ PrepareRollback(q) \/ Exit(q) \/ Kill(q) \/ Interrupt(q)
    BY <1>4 DEF Invoke, Acquire, Generate, SavePrevious, PrepareRollback, Exit, Kill, Interrupt,
       End, Goto, TypeOK, Applied
  <1>5. CASE SwapPrevious(q)
    BY <1>5 DEF SwapPrevious, KnowsItself
  <1>6. CASE RestoreActive(q) \/ RestoreRecreate(q) \/ RestoreVerify(q)
    BY <1>6 DEF RestoreActive, RestoreRecreate, RecreateTo, RestoreVerify, End, Goto, TypeOK,
       Applied
  <1> QED
    BY <1>1, <1>2, <1>3, <1>4, <1>5, <1>6 DEF Act, Step

\* Nobody else changes the active file meanwhile.
LEMMA ActiveIsTheHolders ==
    ASSUME Inv, NEW q \in Script, Applied(q), NEW s \in Script, s # q, Act(s)
    PROVE  active' = active
  <1>1. lock = q
    BY DEF Inv, LockInv, Applied, Holding, Stages, Early, Armed, Restoring
  <1>2. ~ HolderStep(s)
    BY <1>1, HolderMoves
  <1> QED
    BY <1>2 DEF Act, Step, HolderStep, Invoke, Acquire, Interrupt, Kill, Exit

\* The active file of a command that activated what it asked for.
LEMMA ActivatedStep ==
    ASSUME RouterInv, [RouterNext]_all, NEW q \in Script
    PROVE  Activated(q)'
  <1> SUFFICES ASSUME Applied(q)', action'[q] = "apply"
               PROVE  (Promised(q) \subseteq Served(active))'
    BY DEF Activated, Applied
  <1>0. Inv /\ TypeOK /\ ManagerTypes /\ Answered(q) /\ Stage(q) /\ Activated(q)
    BY DEF RouterInv, Inv
  <1>1. ASSUME Applied(q), action[q] = "apply", active' = active,
               add'[q] = add[q], heard'[q] = heard[q]
        PROVE  (Promised(q) \subseteq Served(active))'
    BY <1>0, <1>1 DEF Activated, Applied, Promised, Served
  <1>2. ASSUME NEW s \in Script, s # q, Act(s), add'[q] = add[q], heard'[q] = heard[q]
        PROVE  (Promised(q) \subseteq Served(active))'
    <2>1. Applied(q) /\ action[q] = "apply"
      BY <1>0, <1>2, Frame DEF Applied
    <2> QED
      BY <1>0, <1>1, <1>2, <2>1, ActiveIsTheHolders
  <1>3. ASSUME Act(q), add'[q] = add[q], heard'[q] = heard[q]
        PROVE  (Promised(q) \subseteq Served(active))'
    <2>1. /\ action[q] = "apply"
          /\ \/ Applied(q) /\ active' = active
             \/ pc[q] = "activate" /\ active' = config
      BY <1>0, <1>3, AppliedOnce
    <2>2. CASE pc[q] = "activate" /\ active' = config
      BY <1>0, <1>3, <2>1, <2>2 DEF Stage, Answered, Promised, Served
    <2> QED
      BY <1>1, <1>3, <2>1, <2>2
  <1>4. ASSUME NEW s \in Script, Answer(s) \/ NoAnswer(s) \/ Begin(s) \/ Proceed(s)
        PROVE  (Promised(q) \subseteq Served(active))'
    <2>1. Act(s) /\ add'[q] = add[q] /\ heard'[q] = heard[q]
      BY <1>4, CommandActs DEF Answer, NoAnswer, Begin, Proceed, request
    <2> QED
      BY <1>2, <1>3, <2>1
  <1>5. ASSUME NEW s \in Script, Post(s) PROVE (Promised(q) \subseteq Served(active))'
    <2>1. UNCHANGED vars
      BY <1>5 DEF Post
    <2>2. Applied(q) /\ action[q] = "apply"
      BY <2>1 DEF vars, Applied
    <2>3. s # q
      BY <1>5, <2>2 DEF Post, Applied
    <2>4. add'[q] = add[q] /\ heard'[q] = heard[q]
      BY <1>5, <2>3, Apart
    <2> QED
      BY <1>1, <2>1, <2>2, <2>4 DEF vars
  <1>6. ASSUME UNCHANGED <<active, pc, action, result, add, heard>>
        PROVE  (Promised(q) \subseteq Served(active))'
    BY <1>1, <1>6 DEF Applied
  <1>7. ASSUME NEW s \in Script, Serve(s) PROVE UNCHANGED <<active, pc, action, result, add, heard>>
    BY <1>7 DEF Serve
  <1>8. CASE Host
    <2>1. ~ PowerLoss
      BY DEF PowerLoss, Applied
    <2> QED
      BY <1>6, <1>8, <2>1 DEF Host, RouterRestart, request
  <1>9. CASE ManagerAlone \/ UNCHANGED all
    BY <1>6, <1>9 DEF ManagerAlone, all, vars, request
  <1> QED
    BY <1>4, <1>5, <1>6, <1>7, <1>8, <1>9 DEF RouterNext

-----------------------------------------------------------------------------
LEMMA InitRouterInv == RouterInit => RouterInv
  <1> SUFFICES ASSUME RouterInit PROVE RouterInv
    OBVIOUS
  <1>1. Inv
    BY InitInv DEF RouterInit
  <1>2. ManagerTypes
    BY LegacyAssumption DEF RouterInit, Store!StoreInit, ManagerTypes
  <1>3. \A c \in Copies : c \notin Content \ {Seed}
    BY ContentAssumption DEF RouterInit, Init, Store!StoreInit, Copies
  <1>4. \A s \in Script : Answered(s) /\ Stage(s) /\ Activated(s)
    BY DEF RouterInit, Init, Store!StoreInit, Answered, Stage, Activated
  <1> QED
    BY <1>1, <1>2, <1>3, <1>4 DEF RouterInv, Current

LEMMA NextRouterInv == RouterInv /\ [RouterNext]_all => RouterInv'
  <1> SUFFICES ASSUME RouterInv, [RouterNext]_all PROVE RouterInv'
    OBVIOUS
  <1>1. Inv'
    BY StepMaps, NextInv DEF RouterInv
  <1>2. ManagerTypes' /\ (\A c \in Copies : Current(c))'
    BY TypesStep, CopiesStep
  <1>3. \A s \in Script : Answered(s)' /\ Stage(s)' /\ Activated(s)'
    BY AnsweredStep, StageStep, ActivatedStep
  <1> QED
    BY <1>1, <1>2, <1>3 DEF RouterInv

LEMMA RouterInvariance == RouterSpec => []RouterInv
  BY InitRouterInv, NextRouterInv, PTL DEF RouterSpec

\* For the commands the whole system is Activation with some environment: all
\* that is proved of deploy.sh there holds with the real manager beside it.
THEOREM ActivationImplemented == RouterSpec => ImplementsActivation
  <1>1. RouterInit => Init
    BY DEF RouterInit
  <1> QED
    BY <1>1, StepMaps, RouterInvariance, PTL DEF RouterSpec, Spec, ImplementsActivation

\* For the manager's clients it is the store, whoever of them goes on to
\* activate what was published (main.go:575-590, 611-668).
THEOREM StoreImplemented == RouterSpec => ImplementsStore
  <1>1. RouterInit => Store!StoreInit
    BY DEF RouterInit
  <1> QED
    BY <1>1, StoreMaps, RouterInvariance, PTL
       DEF RouterSpec, Store!StoreSpec, ImplementsStore

\* Every request has its type and is waited for by a command that asked.
THEOREM RouterTypeCorrect == RouterSpec => []RouterTypeOK
  <1>1. RouterInv => RouterTypeOK
    <2> SUFFICES ASSUME RouterInv PROVE RouterTypeOK
      OBVIOUS
    <2>1. known \subseteq Name \cup {EmptyName}
      BY AcceptedAssumption DEF RouterInv, ManagerTypes, Names, Sub
    <2>2. \A s \in Script : pc[s] = "save" => post[s] = "done"
      BY DEF RouterInv, Stage
    <2> QED
      BY <2>1, <2>2 DEF RouterInv, Inv, ManagerTypes, RouterTypeOK
  <1> QED
    BY <1>1, RouterInvariance, PTL

\* The router runs the seed, or what sing-box has accepted, generated from
\* subscriptions the manager still has (main.go:481-488, 572-582,
\* deploy.sh:35-38, 91-108).
THEOREM RouterIsChecked == RouterSpec => []RouterRunsChecked
  <1>1. RouterInv => RouterRunsChecked
    <2> SUFFICES ASSUME RouterInv, router \notin {Seed, Down}
                 PROVE  /\ router.valid /\ CollisionFree(router.subs)
                        /\ Names(router.subs) \subseteq Names(subscriptions)
      BY DEF RouterRunsChecked
    <2>1. router \in Content
      BY DEF RouterInv, Inv, TypeOK
    <2>2. router.valid
      BY <2>1, ContentIsValid DEF Valid
    <2> QED
      BY <2>1, <2>2 DEF RouterInv, Copies, Current
  <1> QED
    BY <1>1, RouterInvariance, PTL

\* After a success the running router serves what the command was promised:
\* the name it added and every name known when it asked (deploy.sh:76-104,
\* main.go:575-590, 647-665).
THEOREM SuccessServesThePromise == RouterSpec => []SuccessIsCurrent
  <1>1. RouterInv => SuccessIsCurrent
    <2> SUFFICES ASSUME RouterInv, NEW s \in Script,
                        pc[s] = "exit", result[s] = "ok", action[s] = "apply"
                 PROVE  Promised(s) \subseteq Served(router)
      BY DEF SuccessIsCurrent
    <2>1. router = active
      BY DEF RouterInv, Inv, Knows, KnowsOutcome, VerifiedRouterStays
    <2> QED
      BY <2>1 DEF RouterInv, Activated
  <1> QED
    BY <1>1, RouterInvariance, PTL

\* The composition is still the commands' specification and the clients'
\* (deploy.sh:10-113, main.go:406-450).
THEOREM PartsImplemented == RouterSpec => ImplementsParts
  BY ActivationImplemented, StoreImplemented DEF ImplementsParts
=============================================================================
