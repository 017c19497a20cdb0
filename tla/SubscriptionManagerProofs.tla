---------------------- MODULE SubscriptionManagerProofs ---------------------
(***************************************************************************)
(* Theorems about SubscriptionManager for every set of names, URLs,        *)
(* handlers and legacy states.  The inductive invariant is built in        *)
(* layers, each proved with the ones before it: types, exclusion, what a   *)
(* transaction knows at each of its stages, what clients were promised.    *)
(*                                                                         *)
(* The last part proves that the manager implements the atomic store: each *)
(* step of Next is matched with a step of the store, or with none, from    *)
(* what the layers say.                                                    *)
(***************************************************************************)
EXTENDS SubscriptionManagerRefinement, TLAPS

-----------------------------------------------------------------------------
\* An add applied to a state of subscriptions gives a state of subscriptions.
LEMMA UpsertType ==
    ASSUME NEW S \in SUBSET Sub, NEW add \in Accepted \cup {NoAdd}
    PROVE  Upsert(S, add) \in SUBSET Sub
  BY AcceptedAssumption DEF Upsert, Sub

\* Handlers are processes and the refresher is not one of them.
LEMMA Procs ==
    /\ Refresher \in Proc
    /\ Handler \subseteq Proc
    /\ \A h \in Handler : h # Refresher
  BY ProcAssumption DEF Proc

\* Going to a stage of one's own keeps pc typed.
LEMMA GotoType ==
    ASSUME TypeOK, NEW p \in Proc, NEW s \in Stage(p), Goto(p, s)
    PROVE  /\ pc' \in [Proc -> HandlerStage \cup RefresherStage]
           /\ \A q \in Proc : pc'[q] \in Stage(q)
  BY DEF TypeOK, Goto, Stage

\* The stages of update() are stages of every process.
LEMMA CommonStages ==
    ASSUME NEW p \in Proc
    PROVE  HandlerStage \ {"reply"} \subseteq Stage(p)
  BY DEF Stage, RefresherStage

\* A failure keeps pc and tx typed.
LEMMA FailType ==
    ASSUME TypeOK, NEW p \in Proc, NEW err \in Errors, Fail(p, err)
    PROVE  /\ pc' \in [Proc -> HandlerStage \cup RefresherStage]
           /\ \A q \in Proc : pc'[q] \in Stage(q)
           /\ tx' \in [Proc -> Tx]
  <1>1. "record" \in Stage(p)
    BY DEF Stage, HandlerStage, RefresherStage
  <1>2. tx' \in [Proc -> Tx]
    BY DEF Fail, TypeOK, Tx
  <1> QED
    BY <1>1, <1>2, GotoType DEF Fail

\* The empty transaction and the empty health record are typed.
LEMMA InitialTypes == NoTx \in Tx /\ ZeroHealth \in Health
  BY MaxNodesAssumption DEF NoTx, Tx, ZeroHealth, Health, Errors

(***************************************************************************)
(* TypeOK is not inductive by itself: the file is replaced by the          *)
(* candidate, which must by then exist.                                    *)
(***************************************************************************)
HasCandidate(p) ==
    \/ pc[p] \in {"validate", "persist", "publish", "rollback"}
    \/ pc[p] = "record" /\ tx[p].err = ""

CandidateBuilt == \A p \in Proc : HasCandidate(p) => tx[p].candidate \in Config

TypeInv == TypeOK /\ CandidateBuilt

\* Every step of a typed state leads to one.
LEMMA TypeStep == TypeInv /\ [Next]_vars => TypeOK'
  <1> SUFFICES ASSUME TypeInv, [Next]_vars PROVE TypeOK'
    OBVIOUS
  <1>0. TypeOK
    BY DEF TypeInv
  <1> USE <1>0, Procs, CommonStages DEF HandlerStage
  <1>1. ASSUME NEW h \in Handler, Request(h) PROVE TypeOK'
    <2>1. "lock" \in Stage(h)
      BY DEF Stage
    <2>2. tx' \in [Proc -> Tx]
      BY <1>1 DEF Request, TypeOK, Tx
    <2> QED
      BY <1>1, <2>1, <2>2, GotoType DEF Request, TypeOK
  <1>2. ASSUME NEW h \in Handler, ListSubscriptions(h) PROVE TypeOK'
    BY <1>2 DEF ListSubscriptions, TypeOK, Names, Sub
  <1>3. ASSUME NEW h \in Handler, Reply(h) PROVE TypeOK'
    <2>1. "idle" \in Stage(h)
      BY DEF Stage
    <2>2. tx' \in [Proc -> Tx]
      BY <1>3, InitialTypes DEF Reply, TypeOK
    <2>3. tx[h].add \in Accepted \cup {NoAdd}
      BY DEF TypeOK, Tx
    <2>4. visible' \subseteq Name \cup {EmptyName}
      BY <1>3, <2>3, AcceptedAssumption DEF Reply, TypeOK
    <2> QED
      BY <1>3, <2>1, <2>2, <2>4, GotoType DEF Reply, TypeOK
  <1>4. ASSUME NEW p \in Proc, Begin(p) PROVE TypeOK'
    BY <1>4, GotoType DEF Begin, TypeOK, Tx
  <1>5. ASSUME NEW p \in Proc, ReadState(p) PROVE TypeOK'
    <2>1. CASE Fail(p, "failed")
      BY <1>5, <2>1, FailType DEF ReadState, TypeOK, Errors
    <2>2. CASE ~ Fail(p, "failed")
      <3>1. Upsert(stateFile, tx[p].add) \in SUBSET Sub
        BY UpsertType DEF TypeOK, Tx
      <3>2. [tx[p] EXCEPT !.previous = stateFile,
                          !.state = Upsert(stateFile, tx[p].add)] \in Tx
        BY <3>1 DEF TypeOK, Tx
      <3>3. tx' \in [Proc -> Tx]
        BY <1>5, <2>2, <3>2 DEF ReadState, TypeOK
      <3> QED
        BY <1>5, <2>2, <3>3, GotoType DEF ReadState, TypeOK
    <2> QED
      BY <2>1, <2>2
  <1>6. ASSUME NEW p \in Proc, Build(p) PROVE TypeOK'
    <2>1. CASE Fail(p, "failed")
      BY <1>6, <2>1, FailType DEF Build, TypeOK, Errors
    <2>2. CASE ~ Fail(p, "failed")
      <3>1. tx' \in [Proc -> Tx]
        BY <1>6, <2>2 DEF Build, Generated, TypeOK, Tx
      <3> QED
        BY <1>6, <2>2, <3>1, GotoType DEF Build, TypeOK
    <2> QED
      BY <2>1, <2>2
  <1>7. ASSUME NEW p \in Proc, Validate(p) PROVE TypeOK'
    <2>1. CASE Fail(p, "failed")
      BY <1>7, <2>1, FailType DEF Validate, TypeOK, Errors
    <2>2. CASE ~ Fail(p, "failed")
      BY <1>7, <2>2, GotoType DEF Validate, TypeOK, Tx
    <2> QED
      BY <2>1, <2>2
  <1>8. ASSUME NEW p \in Proc, Persist(p) PROVE TypeOK'
    <2>1. stateFile' \in SUBSET Sub
      BY <1>8 DEF Persist, WriteJSONAtomic, TypeOK, Tx
    <2>2. CASE Fail(p, "failed")
      BY <1>8, <2>1, <2>2, FailType DEF Persist, TypeOK, Errors
    <2>3. CASE ~ Fail(p, "failed")
      BY <1>8, <2>1, <2>3, GotoType DEF Persist, TypeOK
    <2> QED
      BY <2>2, <2>3
  <1>9. ASSUME NEW p \in Proc, Publish(p) PROVE TypeOK'
    <2>1. output' \in Config \cup {Seed}
      BY <1>9 DEF Publish, TypeOK, TypeInv, CandidateBuilt, HasCandidate
    <2>2. CASE Fail(p, "failed")
      BY <1>9, <2>1, <2>2, FailType DEF Publish, TypeOK, Errors
    <2>3. CASE ~ Fail(p, "failed")
      BY <1>9, <2>1, <2>3, GotoType DEF Publish, TypeOK
    <2> QED
      BY <2>2, <2>3
  <1>10. ASSUME NEW p \in Proc, Rollback(p) PROVE TypeOK'
    <2>1. CASE \E err \in Errors : Fail(p, err)
      BY <1>10, <2>1, FailType DEF Rollback, WriteJSONAtomic, TypeOK, Tx
    <2>2. CASE ~ \E err \in Errors : Fail(p, err)
      BY <1>10, <2>2, GotoType DEF Rollback, WriteJSONAtomic, TypeOK, Tx, Errors
    <2> QED
      BY <2>1, <2>2
  <1>11. ASSUME NEW p \in Proc, Record(p) PROVE TypeOK'
    <2>1. tx[p].err \in Errors
      BY DEF TypeOK, Tx
    <2>2. tx[p].err = "" => tx[p].candidate.nodes \in 0 .. MaxNodes
      BY <1>11 DEF Record, TypeInv, CandidateBuilt, HasCandidate, Config
    <2>3. health' \in Health
      BY <1>11, <2>1, <2>2 DEF Record, TypeOK, Health, Errors
    <2> QED
      BY <1>11, <2>3, GotoType DEF Record, TypeOK
  <1>12. ASSUME NEW p \in Proc, Unlock(p) PROVE TypeOK'
    BY <1>12, GotoType DEF Unlock, Returned, TypeOK, Tx, NoTx, Errors, Stage,
                           RefresherStage
  <1>13. ASSUME Rearm \/ Fire \/ Shutdown \/ Start PROVE TypeOK'
    BY <1>13, GotoType
       DEF Rearm, Fire, Shutdown, Start, TypeOK, Stage, RefresherStage
  <1>14. ASSUME Halt PROVE TypeOK'
    <2>1. \A p \in Proc : "idle" \in Stage(p)
      BY DEF Stage, RefresherStage
    <2> QED
      BY <1>14, <2>1, InitialTypes DEF Halt, TypeOK
  <1>15. CASE UNCHANGED vars
    BY <1>15 DEF vars, TypeOK
  <1> QED
    BY <1>1, <1>2, <1>3, <1>4, <1>5, <1>6, <1>7, <1>8, <1>9, <1>10, <1>11,
       <1>12, <1>13, <1>14, <1>15 DEF Next, Update

\* A step of one goroutine leaves the others where they are.
LEMMA Frame ==
    ASSUME TypeOK, NEW p \in Proc,
           Update(p) \/ (p \in Handler /\ (Request(p) \/ Reply(p)))
    PROVE  \A q \in Proc : q # p => pc'[q] = pc[q] /\ tx'[q] = tx[q]
  BY DEF Update, Begin, ReadState, Build, Validate, Persist, Publish, Rollback,
         Record, Unlock, Request, Reply, Goto, Fail, TypeOK

\* Every step that reaches a stage after Build has a candidate.
LEMMA CandidateStep == TypeInv /\ [Next]_vars => CandidateBuilt'
  <1> SUFFICES ASSUME TypeInv, [Next]_vars,
                      NEW p \in Proc, HasCandidate(p)'
               PROVE  (tx[p].candidate \in Config)'
    BY DEF CandidateBuilt
  <1>0. TypeOK
    BY DEF TypeInv
  <1>1. HasCandidate(p) => tx[p].candidate \in Config
    BY DEF TypeInv, CandidateBuilt
  <1> USE <1>0, <1>1, Procs
  <1>2. ASSUME NEW h \in Handler, Request(h) \/ ListSubscriptions(h) \/ Reply(h)
        PROVE  (tx[p].candidate \in Config)'
    BY <1>2 DEF Request, ListSubscriptions, Reply, Goto, HasCandidate, TypeOK
  <1>3. ASSUME NEW q \in Proc, Update(q), q # p
        PROVE  (tx[p].candidate \in Config)'
    BY <1>3, Frame DEF HasCandidate
  <1>4. ASSUME Update(p) PROVE (tx[p].candidate \in Config)'
    <2>1. CASE Build(p)
      BY <2>1 DEF Build, Generated, Fail, Goto, HasCandidate, TypeOK, Tx
    <2>2. CASE Begin(p) \/ ReadState(p) \/ Record(p) \/ Unlock(p)
      BY <2>2 DEF Begin, ReadState, Record, Unlock, Fail, Goto, HasCandidate,
                  TypeOK, Tx
    <2>3. CASE Validate(p) \/ Persist(p) \/ Publish(p) \/ Rollback(p)
      BY <2>3 DEF Validate, Persist, Publish, Rollback, Fail, Goto,
                  HasCandidate, TypeOK, Tx
    <2> QED
      BY <1>4, <2>1, <2>2, <2>3 DEF Update
  <1>5. ASSUME Rearm \/ Fire \/ Shutdown \/ Start \/ Halt
        PROVE  (tx[p].candidate \in Config)'
    BY <1>5 DEF Rearm, Fire, Shutdown, Start, Halt, Goto, HasCandidate, TypeOK
  <1>6. CASE UNCHANGED vars
    BY <1>6 DEF vars, HasCandidate
  <1> QED
    BY <1>2, <1>3, <1>4, <1>5, <1>6 DEF Next

\* Typing: every reachable state is well typed.
THEOREM Typing == Spec => []TypeInv
  <1>1. Init => TypeInv
    <2> SUFFICES ASSUME Init PROVE TypeInv
      OBVIOUS
    <2>1. \A p \in Proc : pc[p] \in Stage(p)
      BY DEF Init, Stage, HandlerStage, RefresherStage
    <2>2. CandidateBuilt
      BY DEF Init, CandidateBuilt, HasCandidate
    <2> QED
      BY <2>1, <2>2, InitialTypes, LegacyAssumption
         DEF Init, TypeInv, TypeOK, HandlerStage
  <1>2. TypeInv /\ [Next]_vars => TypeInv'
    BY TypeStep, CandidateStep DEF TypeInv
  <1> QED
    BY <1>1, <1>2, PTL DEF Spec

\* Type correctness of the manager for every value of its constants.
THEOREM TypeCorrect == Spec => []TypeOK
  BY Typing, PTL DEF TypeInv

-----------------------------------------------------------------------------
(***************************************************************************)
(* The mutex: its holder is exactly the goroutine inside update(), and a   *)
(* process that is down has no goroutine anywhere.                         *)
(***************************************************************************)
Exclusion == \A p \in Proc : mu = p <=> pc[p] \in Critical

NothingRuns == proc = "down" => \A p \in Proc : pc[p] = "idle"

LockInv == Exclusion /\ NothingRuns

\* Nobody but the holder is inside update().
LEMMA Alone ==
    ASSUME LockInv, NEW p \in Proc, pc[p] \in Critical,
           NEW q \in Proc, q # p
    PROVE  pc[q] \notin Critical
  BY DEF LockInv, Exclusion

LEMMA LockStep == TypeInv /\ LockInv /\ [Next]_vars => LockInv'
  <1> SUFFICES ASSUME TypeInv, LockInv, [Next]_vars PROVE LockInv'
    OBVIOUS
  <1>0. TypeOK
    BY DEF TypeInv
  <1> USE <1>0, Procs
  <1>1. ASSUME NEW h \in Handler, Request(h) PROVE LockInv'
    BY <1>1 DEF Request, Goto, LockInv, Exclusion, NothingRuns, Critical, TypeOK
  <1>2. ASSUME NEW h \in Handler, ListSubscriptions(h) PROVE LockInv'
    BY <1>2 DEF ListSubscriptions, LockInv, Exclusion, NothingRuns
  <1>3. ASSUME NEW h \in Handler, Reply(h) PROVE LockInv'
    BY <1>3 DEF Reply, Goto, LockInv, Exclusion, NothingRuns, Critical, TypeOK
  <1>4. ASSUME NEW p \in Proc, Update(p) PROVE LockInv'
    <2>1. NothingRuns'
      BY <1>4 DEF Update, Begin, ReadState, Build, Validate, Persist, Publish,
                  Rollback, Record, Unlock, LockInv, NothingRuns
    <2>2. CASE Begin(p)
      <3>1. \A q \in Proc : pc[q] \notin Critical
        BY <2>2, ProcAssumption DEF Begin, LockFree, LockInv, Exclusion
      <3> QED
        BY <2>1, <2>2, <3>1 DEF Begin, Goto, LockInv, Exclusion, Critical, TypeOK
    <2>3. CASE Unlock(p)
      BY <2>1, <2>3, Alone, ProcAssumption
         DEF Unlock, Goto, LockInv, Exclusion, Critical, TypeOK
    <2>4. CASE ~ Begin(p) /\ ~ Unlock(p)
      <3>1. mu' = mu /\ pc[p] \in Critical /\ pc'[p] \in Critical
        BY <1>4, <2>4 DEF Update, ReadState, Build, Validate, Persist, Publish,
                          Rollback, Record, Fail, Goto, Critical, TypeOK
      <3> QED
        BY <1>4, <2>1, <3>1, Frame DEF LockInv, Exclusion
    <2> QED
      BY <2>2, <2>3, <2>4
  <1>5. ASSUME Rearm \/ Fire \/ Start PROVE LockInv'
    BY <1>5 DEF Rearm, Fire, Start, Goto, LockInv, Exclusion, NothingRuns,
                Critical, TypeOK
  <1>6. ASSUME Shutdown PROVE LockInv'
    BY <1>6 DEF Shutdown, LockInv, Exclusion, NothingRuns
  <1>7. ASSUME Halt PROVE LockInv'
    BY <1>7, ProcAssumption DEF Halt, LockInv, Exclusion, NothingRuns, Critical
  <1>8. CASE UNCHANGED vars
    BY <1>8 DEF vars, LockInv, Exclusion, NothingRuns
  <1> QED
    BY <1>1, <1>2, <1>3, <1>4, <1>5, <1>6, <1>7, <1>8 DEF Next

\* At most one goroutine is between the read of the state and the unlock,
\* and a dead process holds nothing.
THEOREM MutualExclusion == Spec => []LockInv
  <1>1. Init => LockInv
    BY ProcAssumption DEF Init, LockInv, Exclusion, NothingRuns, Critical
  <1> QED
    BY <1>1, LockStep, Typing, PTL DEF Spec

-----------------------------------------------------------------------------
(***************************************************************************)
(* What the holder of the lock knows about the two files at each stage.    *)
(***************************************************************************)
Knows(p) ==
    /\ pc[p] \in {"idle", "lock", "done", "armed"} => tx[p].err = ""
    /\ pc[p] \in {"read", "build", "validate", "persist"} =>
         /\ tx[p].err = ""
         /\ stateFile = tx[p].foundState
         /\ output = tx[p].foundOutput
    /\ pc[p] \in {"build", "validate", "persist", "publish", "rollback"} =>
         /\ tx[p].err = ""
         /\ tx[p].previous = tx[p].foundState
         /\ tx[p].state = Upsert(tx[p].foundState, tx[p].add)
    /\ pc[p] \in {"validate", "persist", "publish", "rollback"} =>
         /\ tx[p].candidate \in Generated(tx[p].state)
         /\ tx[p].candidate.subs = tx[p].state
         /\ CollisionFree(tx[p].state)
    /\ pc[p] \in {"persist", "publish", "rollback"} => tx[p].candidate.valid
    /\ pc[p] \in {"publish", "rollback"} =>
         /\ stateFile = tx[p].state
         /\ output = tx[p].foundOutput
    /\ pc[p] = "record" /\ tx[p].err = "" =>
         /\ output = tx[p].candidate
         /\ stateFile = tx[p].candidate.subs
         /\ stateFile = Upsert(tx[p].foundState, tx[p].add)
    /\ pc[p] = "record" /\ tx[p].err # "" =>
         /\ output = tx[p].foundOutput
         /\ tx[p].err # "rollback failed" => stateFile = tx[p].foundState

KnowsInv == \A p \in Proc : Knows(p)

\* A step of one goroutine takes nothing from what another one knows: only
\* the holder of the lock writes a file.
LEMMA OthersKnow ==
    ASSUME TypeInv, LockInv, NEW p \in Proc, NEW q \in Proc, q # p, Knows(q),
           Update(p) \/ (p \in Handler /\ (Request(p) \/ Reply(p)))
    PROVE  Knows(q)'
  <1>0. TypeOK
    BY DEF TypeInv
  <1>1. pc'[q] = pc[q] /\ tx'[q] = tx[q]
    BY <1>0, Frame
  <1>2. CASE stateFile' = stateFile /\ output' = output
    BY <1>1, <1>2 DEF Knows
  <1>3. CASE ~ (stateFile' = stateFile /\ output' = output)
    <2>1. pc[p] \in Critical
      BY <1>3 DEF Update, Begin, ReadState, Build, Validate, Persist, Publish,
                  Rollback, Record, Unlock, Request, Reply, Critical
    <2>2. pc[q] \notin Critical
      BY <2>1, Alone
    <2> QED
      BY <1>1, <2>2 DEF Knows, Critical
  <1> QED
    BY <1>2, <1>3

\* A goroutine outside update() knows nothing a file could contradict.
LEMMA OutsideKnows ==
    ASSUME NEW p \in Proc, pc[p] \notin Critical, tx[p].err = ""
    PROVE  Knows(p)
  BY DEF Knows, Critical

\* An update that fails without touching the files, or that says that it
\* could not take the state back, is recorded truthfully.
LEMMA FailureKnows ==
    ASSUME TypeOK, NEW p \in Proc, NEW err \in Errors \ {""}, Fail(p, err),
           output' = tx[p].foundOutput,
           err # "rollback failed" => stateFile' = tx[p].foundState
    PROVE  Knows(p)'
  <1>1. /\ pc'[p] = "record"
        /\ tx'[p].err = err
        /\ tx'[p].foundState = tx[p].foundState
        /\ tx'[p].foundOutput = tx[p].foundOutput
    BY DEF TypeOK, Fail, Goto, Tx
  <1> QED
    BY <1>1 DEF Knows

\* Each stage of update() establishes what the next one relies on.
LEMMA StageKnows ==
    ASSUME TypeInv, NEW p \in Proc, Knows(p), Update(p)
    PROVE  Knows(p)'
  <1>0. TypeOK
    BY DEF TypeInv
  <1> USE <1>0
  <1>1. CASE Begin(p)
    BY <1>1 DEF Begin, Goto, Knows, TypeOK, Tx
  <1>2. CASE ReadState(p)
    <2>1. CASE Fail(p, "failed")
      BY <1>2, <2>1, FailureKnows DEF ReadState, Knows, Errors
    <2>2. CASE ~ Fail(p, "failed")
      <3>1. /\ pc'[p] = "build"
            /\ stateFile' = stateFile
            /\ output' = output
            /\ tx'[p].err = tx[p].err
            /\ tx'[p].add = tx[p].add
            /\ tx'[p].previous = stateFile
            /\ tx'[p].state = Upsert(stateFile, tx[p].add)
            /\ tx'[p].foundState = tx[p].foundState
            /\ tx'[p].foundOutput = tx[p].foundOutput
        BY <1>2, <2>2 DEF ReadState, Goto, TypeOK, Tx
      <3> QED
        BY <1>2, <3>1 DEF ReadState, Knows
    <2> QED
      BY <2>1, <2>2
  <1>3. CASE Build(p)
    <2>1. CASE Fail(p, "failed")
      BY <1>3, <2>1, FailureKnows DEF Build, Knows, Errors
    <2>2. CASE ~ Fail(p, "failed")
      <3>1. /\ pc'[p] = "validate"
            /\ stateFile' = stateFile
            /\ output' = output
            /\ tx'[p].candidate \in Generated(tx[p].state)
            /\ tx'[p].candidate.subs = tx[p].state
            /\ CollisionFree(tx[p].state)
            /\ tx'[p].err = tx[p].err
            /\ tx'[p].add = tx[p].add
            /\ tx'[p].previous = tx[p].previous
            /\ tx'[p].state = tx[p].state
            /\ tx'[p].foundState = tx[p].foundState
            /\ tx'[p].foundOutput = tx[p].foundOutput
        BY <1>3, <2>2 DEF Build, Generated, Goto, TypeOK, Tx
      <3>2. CollisionFree(tx[p].state)'
        BY <3>1 DEF CollisionFree
      <3> QED
        BY <1>3, <3>1, <3>2 DEF Build, Knows
    <2> QED
      BY <2>1, <2>2
  <1>4. CASE Validate(p)
    BY <1>4 DEF Validate, Fail, Goto, Knows, TypeOK, Tx, Upsert
  <1>5. CASE Persist(p)
    <2>1. CASE Fail(p, "failed") /\ stateFile' = stateFile
      BY <1>5, <2>1, FailureKnows DEF Persist, Knows, Errors
    <2>2. CASE Goto(p, "publish") /\ stateFile' = tx[p].state /\ UNCHANGED tx
      <3>1. pc'[p] = "publish"
        BY <2>2 DEF Goto, TypeOK
      <3> QED
        BY <1>5, <2>2, <3>1 DEF Persist, Knows
    <2> QED
      BY <1>5, <2>1, <2>2 DEF Persist, WriteJSONAtomic
  <1>6. CASE Publish(p)
    <2>1. CASE output' = tx[p].candidate /\ Goto(p, "record") /\ UNCHANGED tx
      <3>1. pc'[p] = "record"
        BY <2>1 DEF Goto, TypeOK
      <3> QED
        BY <1>6, <2>1, <3>1 DEF Publish, Knows
    <2>2. CASE /\ tx[p].add # NoAdd
               /\ Goto(p, "rollback")
               /\ UNCHANGED <<tx, output>>
      <3>1. pc'[p] = "rollback"
        BY <2>2 DEF Goto, TypeOK
      <3> QED
        BY <1>6, <2>2, <3>1 DEF Publish, Knows
    <2>3. CASE tx[p].add = NoAdd /\ Fail(p, "failed") /\ UNCHANGED output
      BY <1>6, <2>3, FailureKnows DEF Publish, Knows, Upsert, Errors
    <2> QED
      BY <1>6, <2>1, <2>2, <2>3 DEF Publish
  <1>7. CASE Rollback(p)
    <2>1. CASE Fail(p, "failed") /\ stateFile' = tx[p].previous
      BY <1>7, <2>1, FailureKnows DEF Rollback, Knows, Errors
    <2>2. CASE Fail(p, "rollback failed")
      BY <1>7, <2>2, FailureKnows DEF Rollback, Knows, Errors
    <2> QED
      BY <1>7, <2>1, <2>2 DEF Rollback, WriteJSONAtomic
  <1>8. CASE Record(p)
    BY <1>8 DEF Record, Goto, Knows, TypeOK
  <1>9. CASE Unlock(p)
    BY <1>9 DEF Unlock, Returned, NoTx, Goto, Knows, TypeOK, Tx
  <1> QED
    BY <1>1, <1>2, <1>3, <1>4, <1>5, <1>6, <1>7, <1>8, <1>9 DEF Update

LEMMA KnowsStep ==
    TypeInv /\ LockInv /\ KnowsInv /\ [Next]_vars => KnowsInv'
  <1> SUFFICES ASSUME TypeInv, LockInv, KnowsInv, [Next]_vars,
                      NEW q \in Proc
               PROVE  Knows(q)'
    BY DEF KnowsInv
  <1>0. TypeOK /\ Knows(q)
    BY DEF TypeInv, KnowsInv
  <1> USE <1>0, Procs
  <1>1. ASSUME NEW p \in Proc, Update(p) PROVE Knows(q)'
    <2>1. CASE p = q
      BY <1>1, <2>1, StageKnows
    <2>2. CASE p # q
      BY <1>1, <2>2, OthersKnow
    <2> QED
      BY <2>1, <2>2
  <1>2. ASSUME NEW h \in Handler, Request(h) \/ Reply(h) PROVE Knows(q)'
    <2>1. CASE h = q
      <3>1. CASE Request(h)
        <4>1. tx[q].err = "" /\ pc'[q] = "lock"
          BY <2>1, <3>1 DEF Request, Goto, Knows, TypeOK
        <4>2. PICK add \in Accepted \cup {NoAdd} : tx' = [tx EXCEPT ![q].add = add]
          BY <2>1, <3>1 DEF Request
        <4>3. tx'[q].err = tx[q].err
          BY <4>2 DEF TypeOK, Tx
        <4> QED
          BY <4>1, <4>3 DEF Knows
      <3>2. CASE Reply(h)
        <4>1. tx'[q] = NoTx /\ pc'[q] = "idle"
          BY <2>1, <3>2 DEF Reply, Goto, TypeOK
        <4>2. NoTx.err = ""
          BY DEF NoTx
        <4> QED
          BY <4>1, <4>2 DEF Knows
      <3> QED
        BY <1>2, <3>1, <3>2
    <2>2. CASE h # q
      BY <1>2, <2>2, OthersKnow
    <2> QED
      BY <2>1, <2>2
  <1>3. ASSUME NEW h \in Handler, ListSubscriptions(h) PROVE Knows(q)'
    BY <1>3 DEF ListSubscriptions, Knows
  <1>4. ASSUME Rearm \/ Fire \/ Shutdown \/ Start PROVE Knows(q)'
    BY <1>4 DEF Rearm, Fire, Shutdown, Start, Goto, Knows, LockInv,
                NothingRuns, TypeOK
  <1>5. ASSUME Halt PROVE Knows(q)'
    BY <1>5 DEF Halt, NoTx, Knows
  <1>6. CASE UNCHANGED vars
    BY <1>6 DEF vars, Knows
  <1> QED
    BY <1>1, <1>2, <1>3, <1>4, <1>5, <1>6 DEF Next

LEMMA Knowing == Spec => []KnowsInv
  <1>1. Init => KnowsInv
    <2> SUFFICES ASSUME Init, NEW p \in Proc PROVE Knows(p)
      BY DEF KnowsInv
    <2>1. pc[p] \in {"idle", "lock"}
      BY DEF Init
    <2>2. tx[p].err = ""
      BY DEF Init, NoTx
    <2> QED
      BY <2>1, <2>2, OutsideKnows DEF Critical
  <1> QED
    BY <1>1, KnowsStep, Typing, MutualExclusion, PTL DEF Spec

\* An update that fails leaves both files as it found them, unless it says
\* that the rollback failed (main.go:435-438, 575-589).
THEOREM FailuresRestore == Spec => []FailedUpdateRestores
  <1>1. KnowsInv => FailedUpdateRestores
    BY DEF KnowsInv, Knows, FailedUpdateRestores
  <1> QED
    BY <1>1, Knowing, PTL

\* Only Publish writes the output, and what it writes was built from the
\* state on disk.
LEMMA OutputStep ==
    ASSUME TypeInv, KnowsInv, [Next]_vars, output' # output
    PROVE  \E p \in Proc : /\ output' = tx[p].candidate
                           /\ tx[p].candidate \in Config
                           /\ tx[p].candidate.valid
                           /\ tx[p].candidate.subs = stateFile
                           /\ CollisionFree(stateFile)
                           /\ stateFile' = stateFile
                           /\ Publish(p)
  <1>1. PICK p \in Proc : Publish(p)
    BY DEF Next, Update, Request, ListSubscriptions, Reply, Begin, ReadState,
           Build, Validate, Persist, Rollback, Record, Unlock, Rearm, Fire,
           Shutdown, Halt, Start, vars
  <1>2. output' = tx[p].candidate /\ stateFile' = stateFile
    BY <1>1 DEF Publish
  <1>3. tx[p].candidate \in Config
    BY <1>1 DEF Publish, TypeInv, CandidateBuilt, HasCandidate
  <1>4. /\ tx[p].candidate.valid
        /\ tx[p].candidate.subs = stateFile
        /\ CollisionFree(stateFile)
    BY <1>1 DEF Publish, KnowsInv, Knows
  <1> QED
    BY <1>1, <1>2, <1>3, <1>4

\* Every configuration ever handed to the router was built from the state
\* on disk at that moment (main.go:406-450, 575-582).
THEOREM PublishingMatches == Spec => PublishMatchesState
  <1>1. TypeInv /\ KnowsInv /\ [Next]_vars
          => [output' # output
                => output' # Seed /\ output'.subs = stateFile']_vars
    BY OutputStep, NullAssumption
  <1> QED
    BY <1>1, Typing, Knowing, PTL DEF Spec, PublishMatchesState

-----------------------------------------------------------------------------
(***************************************************************************)
(* What is on disk: the output is sound, and a state the manager wrote can *)
(* be built again.  A rollback writes the state the update found, so that  *)
(* state is part of the invariant.                                         *)
(***************************************************************************)
Buildable(state) == state \in Legacy \/ CollisionFree(state)

FoundBuildable == \A p \in Proc : pc[p] \in Critical => Buildable(tx[p].foundState)

DiskInv == PublishedSound /\ OwnStateBuilds /\ FoundBuildable

\* Once the lock is taken, what the update found is not touched again.
LEMMA FoundStays ==
    ASSUME TypeOK, [Next]_vars, NEW p \in Proc, pc'[p] \in Critical, ~ Begin(p)
    PROVE  pc[p] \in Critical /\ tx'[p].foundState = tx[p].foundState
  <1> DEFINE Stays == pc[p] \in Critical /\ tx'[p].foundState = tx[p].foundState
  <1> USE Procs
  <1>1. ASSUME NEW q \in Proc, Update(q), q # p PROVE Stays
    BY <1>1, Frame
  <1>2. ASSUME Update(p) PROVE Stays
    BY <1>2 DEF Update, ReadState, Build, Validate, Persist, Publish, Rollback,
                Record, Unlock, Fail, Goto, Critical, TypeOK, Tx
  <1>3. ASSUME NEW h \in Handler, Request(h) \/ ListSubscriptions(h) \/ Reply(h)
        PROVE  Stays
    BY <1>3 DEF Request, ListSubscriptions, Reply, Goto, Critical, TypeOK, Tx
  <1>4. ASSUME Rearm \/ Fire \/ Shutdown \/ Halt \/ Start PROVE Stays
    BY <1>4 DEF Rearm, Fire, Shutdown, Halt, Start, Goto, Critical, TypeOK
  <1>5. CASE UNCHANGED vars
    BY <1>5 DEF vars
  <1> QED
    BY <1>1, <1>2, <1>3, <1>4, <1>5 DEF Next

LEMMA DiskStep ==
    TypeInv /\ LockInv /\ KnowsInv /\ DiskInv /\ [Next]_vars => DiskInv'
  <1> SUFFICES ASSUME TypeInv, LockInv, KnowsInv, DiskInv, [Next]_vars
               PROVE  DiskInv'
    OBVIOUS
  <1>0. TypeOK
    BY DEF TypeInv
  <1> USE <1>0, Procs
  <1>1. PublishedSound'
    <2>1. CASE output' = output
      BY <2>1 DEF DiskInv, PublishedSound, CollisionFree
    <2>2. CASE output' # output
      BY <2>2, OutputStep DEF PublishedSound, CollisionFree
    <2> QED
      BY <2>1, <2>2
  <1>2. Buildable(stateFile)'
    <2>1. CASE stateFile' = stateFile
      BY <2>1 DEF DiskInv, OwnStateBuilds, Buildable, CollisionFree
    <2>2. CASE stateFile' # stateFile
      <3>1. PICK p \in Proc : Persist(p) \/ Rollback(p)
        BY <2>2 DEF Next, Update, Request, ListSubscriptions, Reply, Begin,
                    ReadState, Build, Validate, Publish, Record, Unlock, Rearm,
                    Fire, Shutdown, Halt, Start, vars
      <3>2. CASE Persist(p)
        <4>1. stateFile' = tx[p].state /\ CollisionFree(tx[p].state)
          BY <2>2, <3>2 DEF Persist, WriteJSONAtomic, KnowsInv, Knows
        <4> QED
          BY <4>1 DEF Buildable, CollisionFree
      <3>3. CASE Rollback(p)
        <4>1. stateFile' = tx[p].foundState /\ Buildable(tx[p].foundState)
          BY <2>2, <3>3 DEF Rollback, WriteJSONAtomic, KnowsInv, Knows, DiskInv,
                            FoundBuildable, Critical
        <4> QED
          BY <4>1 DEF Buildable, CollisionFree
      <3> QED
        BY <3>1, <3>2, <3>3
    <2> QED
      BY <2>1, <2>2
  <1>3. FoundBuildable'
    <2> SUFFICES ASSUME NEW p \in Proc, (pc[p] \in Critical)'
                 PROVE  Buildable(tx[p].foundState)'
      BY DEF FoundBuildable
    <2>1. pc[p] \in Critical => Buildable(tx[p].foundState)
      BY DEF DiskInv, FoundBuildable
    <2>2. CASE Begin(p)
      <3>1. tx'[p].foundState = stateFile /\ Buildable(stateFile)
        BY <2>2 DEF Begin, TypeOK, Tx, DiskInv, OwnStateBuilds, Buildable
      <3> QED
        BY <3>1 DEF Buildable, CollisionFree
    <2>3. CASE ~ Begin(p)
      <3>1. pc[p] \in Critical /\ tx'[p].foundState = tx[p].foundState
        BY <2>3, FoundStays
      <3> QED
        BY <2>1, <3>1 DEF Buildable, CollisionFree
    <2> QED
      BY <2>2, <2>3
  <1> QED
    BY <1>1, <1>2, <1>3 DEF DiskInv, OwnStateBuilds, Buildable

LEMMA Disk == Spec => []DiskInv
  <1>1. Init => DiskInv
    <2> SUFFICES ASSUME Init PROVE DiskInv
      OBVIOUS
    <2>1. \A p \in Proc : pc[p] \notin Critical
      BY DEF Init, Critical
    <2> QED
      BY <2>1 DEF Init, DiskInv, PublishedSound, OwnStateBuilds, FoundBuildable
  <1> QED
    BY <1>1, DiskStep, Typing, MutualExclusion, Knowing, PTL DEF Spec

\* The router's input is the seed or an accepted configuration built from
\* subscriptions whose tags cannot be confused (main.go:481-488, 572-582).
THEOREM PublishingIsSound == Spec => []PublishedSound
  BY Disk, PTL DEF DiskInv

\* No sequence of adds, failures and crashes makes the manager write a state
\* it would refuse to build (main.go:440-448, 481-488, 578-587).
THEOREM OwnStatesBuild == Spec => []OwnStateBuilds
  BY Disk, PTL DEF DiskInv

-----------------------------------------------------------------------------
\* A process that has just started has had no success.
LEMMA NotReadyYet == ~ ZeroHealth.succeeded
  BY DEF ZeroHealth

\* Readiness is inductive given what the committing update knows.
LEMMA ReadyStep ==
    TypeInv /\ LockInv /\ KnowsInv /\ ReadyMeansCurrent /\ [Next]_vars
        => ReadyMeansCurrent'
  <1> SUFFICES ASSUME TypeInv, LockInv, KnowsInv, ReadyMeansCurrent,
                      [Next]_vars, Ready',
                      \A p \in Proc : ~ Committing(p)'
               PROVE  /\ output' # Seed
                      /\ output'.subs = stateFile'
                      /\ output'.nodes = health'.nodes
    BY DEF ReadyMeansCurrent
  <1>0. TypeOK
    BY DEF TypeInv
  <1> USE <1>0, Procs
  <1> DEFINE Frozen == /\ UNCHANGED <<health, stateFile, output>>
                       /\ \A p \in Proc : Committing(p) => Committing(p)'
  <1>1. CASE Frozen
    BY <1>1 DEF ReadyMeansCurrent, Ready
  <1>2. ASSUME NEW p \in Proc, Update(p), ~ Record(p) PROVE Frozen
    <2>1. CASE Persist(p) \/ Publish(p) \/ Rollback(p)
      BY <2>1 DEF Persist, Publish, Rollback, Fail, Goto, Committing, TypeOK
    <2>2. CASE Begin(p) \/ ReadState(p) \/ Build(p) \/ Validate(p) \/ Unlock(p)
      <3>1. UNCHANGED <<health, stateFile, output>> /\ ~ Committing(p)
        BY <2>2 DEF Begin, ReadState, Build, Validate, Unlock, Committing
      <3> QED
        BY <1>2, <3>1, Frame DEF Committing
    <2> QED
      BY <1>2, <2>1, <2>2 DEF Update
  <1>3. ASSUME NEW p \in Proc, Record(p)
        PROVE  /\ output' # Seed
               /\ output'.subs = stateFile'
               /\ output'.nodes = health'.nodes
    <2>1. tx[p].err = ""
      BY <1>3 DEF Record, Ready, TypeOK, Health
    <2>2. output = tx[p].candidate /\ stateFile = tx[p].candidate.subs
      BY <1>3, <2>1 DEF Record, KnowsInv, Knows
    <2>3. tx[p].candidate \in Config
      BY <1>3, <2>1 DEF Record, TypeInv, CandidateBuilt, HasCandidate
    <2>4. health'.nodes = tx[p].candidate.nodes
      BY <1>3, <2>1 DEF Record, TypeOK, Health
    <2> QED
      BY <1>3, <2>2, <2>3, <2>4, NullAssumption DEF Record
  <1>4. ASSUME NEW h \in Handler, Request(h) \/ ListSubscriptions(h) \/ Reply(h)
        PROVE  Frozen
    BY <1>4 DEF Request, ListSubscriptions, Reply, Goto, Committing, TypeOK
  <1>5. ASSUME Rearm \/ Fire \/ Shutdown \/ Start PROVE Frozen
    BY <1>5 DEF Rearm, Fire, Shutdown, Start, Goto, Committing, TypeOK, LockInv,
                NothingRuns
  <1>6. ~ Halt
    BY NotReadyYet DEF Halt, Ready
  <1>7. CASE UNCHANGED vars
    BY <1>1, <1>7 DEF vars, Committing
  <1> QED
    BY <1>1, <1>2, <1>3, <1>4, <1>5, <1>6, <1>7 DEF Next

\* When GET /health says ok outside a commit, the output is the
\* configuration of the persisted subscriptions (main.go:413-434, 575-621).
THEOREM ReadinessIsTruthful == Spec => []ReadyMeansCurrent
  <1>1. Init => ReadyMeansCurrent
    BY NotReadyYet DEF Init, ReadyMeansCurrent, Ready
  <1> QED
    BY <1>1, ReadyStep, Typing, MutualExclusion, Knowing, PTL DEF Spec

-----------------------------------------------------------------------------
(***************************************************************************)
(* Promises.  A name is kept when it is in the state on disk and in every  *)
(* state an update might still write back.  H is the set of updates that   *)
(* have committed and will write nothing any more.                         *)
(***************************************************************************)
Kept(n, H) ==
    /\ n \in Names(stateFile)
    /\ \A p \in Proc \ H : pc[p] \in Critical => n \in Names(tx[p].foundState)

\* The update of p added a subscription and its answer is on the way.
Acked(p) ==
    pc[p] \in {"unlock", "reply"} /\ tx[p].err = "" /\ tx[p].add # NoAdd

PromiseInv ==
    /\ \A n \in visible : Kept(n, {})
    /\ \A p \in Proc : Acked(p) => Kept(tx[p].add.name, {p})

\* An add keeps every name and adds its own.
LEMMA UpsertNames ==
    ASSUME NEW S, NEW add
    PROVE  /\ Names(S) \subseteq Names(Upsert(S, add))
           /\ add # NoAdd => add.name \in Names(Upsert(S, add))
  <1>1. ASSUME NEW s \in S PROVE s.name \in Names(Upsert(S, add))
    <2>1. CASE add = NoAdd
      BY <2>1 DEF Names, Upsert
    <2>2. CASE add # NoAdd /\ s.name = add.name
      BY <2>2 DEF Names, Upsert
    <2>3. CASE add # NoAdd /\ s.name # add.name
      BY <2>3 DEF Names, Upsert
    <2> QED
      BY <2>1, <2>2, <2>3
  <1> QED
    BY <1>1 DEF Names, Upsert

\* No step takes a kept name away.
LEMMA KeptStep ==
    ASSUME TypeInv, LockInv, KnowsInv, [Next]_vars, NEW n, NEW H \in SUBSET Proc,
           \A h \in H : pc[h] \in {"unlock", "reply"},
           Kept(n, H)
    PROVE  Kept(n, H)'
  <1>0. TypeOK
    BY DEF TypeInv
  <1> USE <1>0, Procs
  <1>1. n \in Names(stateFile')
    <2>1. CASE stateFile' = stateFile
      BY <2>1 DEF Kept
    <2>2. CASE stateFile' # stateFile
      <3>1. PICK p \in Proc : Persist(p) \/ Rollback(p)
        BY <2>2 DEF Next, Update, Request, ListSubscriptions, Reply, Begin,
                    ReadState, Build, Validate, Publish, Record, Unlock, Rearm,
                    Fire, Shutdown, Halt, Start, vars
      <3>2. n \in Names(tx[p].foundState)
        BY <3>1 DEF Persist, Rollback, Critical, Kept
      <3>3. stateFile' \in {tx[p].foundState, Upsert(tx[p].foundState, tx[p].add)}
        BY <2>2, <3>1 DEF Persist, Rollback, WriteJSONAtomic, KnowsInv, Knows
      <3> QED
        BY <3>2, <3>3, UpsertNames
    <2> QED
      BY <2>1, <2>2
  <1>2. ASSUME NEW p \in Proc \ H, pc'[p] \in Critical
        PROVE  n \in Names(tx'[p].foundState)
    <2>1. CASE Begin(p)
      <3>1. tx'[p].foundState = stateFile
        BY <2>1 DEF Begin, TypeOK, Tx
      <3> QED
        BY <3>1 DEF Kept
    <2>2. CASE ~ Begin(p)
      BY <1>2, <2>2, FoundStays DEF Kept
    <2> QED
      BY <2>1, <2>2
  <1> QED
    BY <1>1, <1>2 DEF Kept, Names

LEMMA PromiseStep ==
    TypeInv /\ LockInv /\ KnowsInv /\ PromiseInv /\ [Next]_vars => PromiseInv'
  <1> SUFFICES ASSUME TypeInv, LockInv, KnowsInv, PromiseInv, [Next]_vars
               PROVE  PromiseInv'
    OBVIOUS
  <1>0. TypeOK
    BY DEF TypeInv
  <1> USE <1>0, Procs
  <1>1. ASSUME NEW n \in visible PROVE Kept(n, {})'
    BY <1>1, KeptStep DEF PromiseInv
  <1>2. ASSUME NEW p \in Proc, Acked(p), NEW n, n = tx[p].add.name
        PROVE  Kept(n, {p})'
    BY <1>2, KeptStep DEF PromiseInv, Acked
  <1>3. ASSUME NEW n \in visible' PROVE Kept(n, {})'
    <2>1. CASE n \in visible
      BY <1>1, <2>1
    <2>2. CASE n \notin visible
      <3>1. PICK h \in Handler : ListSubscriptions(h) \/ Reply(h)
        BY <1>3, <2>2 DEF Next, Update, Request, Begin, ReadState, Build,
             Validate, Persist, Publish, Rollback, Record, Unlock, Rearm, Fire,
             Shutdown, Halt, Start, vars
      <3>2. CASE ListSubscriptions(h)
        <4>1. n \in Names(stateFile) /\ stateFile' = stateFile
          BY <1>3, <2>2, <3>2 DEF ListSubscriptions
        <4>2. \A p \in Proc : pc'[p] \notin Critical
          BY <3>2, ProcAssumption DEF ListSubscriptions, LockInv, Exclusion
        <4> QED
          BY <4>1, <4>2 DEF Kept, Names
      <3>3. CASE Reply(h)
        <4>1. Acked(h) /\ n = tx[h].add.name /\ pc'[h] = "idle"
          BY <1>3, <2>2, <3>3 DEF Reply, Acked, Goto, TypeOK
        <4>2. Kept(n, {h})'
          BY <1>2, <4>1
        <4> QED
          BY <4>1, <4>2 DEF Kept, Critical
      <3> QED
        BY <3>1, <3>2, <3>3
    <2> QED
      BY <2>1, <2>2
  <1>4. ASSUME NEW p \in Proc, Acked(p)' PROVE Kept(tx[p].add.name, {p})'
    <2>1. CASE Record(p)
      <3>1. tx' = tx /\ stateFile' = stateFile /\ pc[p] = "record"
        BY <2>1 DEF Record
      <3>2. tx[p].err = "" /\ tx[p].add # NoAdd
        BY <1>4, <3>1 DEF Acked
      <3>3. tx[p].add.name \in Names(stateFile)
        <4>1. stateFile = Upsert(tx[p].foundState, tx[p].add)
          BY <3>1, <3>2 DEF KnowsInv, Knows
        <4> QED
          BY <3>2, <4>1, UpsertNames
      <3>4. \A q \in Proc \ {p} : pc'[q] \notin Critical
        BY <2>1, <3>1, Frame, Alone DEF Update, Critical
      <3> QED
        BY <3>1, <3>3, <3>4 DEF Kept, Names
    <2>2. CASE ~ Record(p)
      <3>1. Acked(p) /\ tx'[p].add = tx[p].add
        <4>1. ASSUME NEW q \in Proc, Update(q), q # p PROVE <3>1!:
          BY <1>4, <4>1, Frame DEF Acked
        <4>2. ASSUME Update(p) PROVE <3>1!:
          <5>1. Unlock(p)
            BY <1>4, <2>2, <4>2
               DEF Update, Begin, ReadState, Build, Validate, Persist, Publish,
                   Rollback, Fail, Goto, Acked, TypeOK
          <5>2. tx'[p] = Returned(p) /\ pc[p] = "unlock"
            BY <5>1 DEF Unlock, TypeOK
          <5>3. Returned(p).add # NoAdd /\ Returned(p).err = ""
            BY <1>4, <5>2 DEF Acked
          <5>4. Returned(p).add = tx[p].add /\ Returned(p).err = tx[p].err
            BY <5>3 DEF Returned, NoTx
          <5> QED
            BY <5>2, <5>3, <5>4 DEF Acked
        <4>3. ASSUME NEW h \in Handler,
                     Request(h) \/ ListSubscriptions(h) \/ Reply(h)
              PROVE  <3>1!:
          <5>1. CASE h = p
            BY <1>4, <4>3, <5>1
               DEF Request, ListSubscriptions, Reply, Goto, Acked, TypeOK
          <5>2. CASE h # p
            BY <1>4, <4>3, <5>2, Frame DEF ListSubscriptions, Acked
          <5> QED
            BY <5>1, <5>2
        <4>4. ASSUME Rearm \/ Fire \/ Shutdown \/ Halt \/ Start PROVE <3>1!:
          BY <1>4, <4>4 DEF Rearm, Fire, Shutdown, Halt, Start, Goto, Acked, TypeOK
        <4>5. CASE UNCHANGED vars
          BY <1>4, <4>5 DEF vars, Acked
        <4> QED
          BY <4>1, <4>2, <4>3, <4>4, <4>5 DEF Next
      <3> QED
        BY <1>2, <3>1
    <2> QED
      BY <2>1, <2>2
  <1> QED
    BY <1>3, <1>4 DEF PromiseInv

LEMMA Promises == Spec => []PromiseInv
  <1>1. Init => PromiseInv
    <2> SUFFICES ASSUME Init, NEW p \in Proc PROVE ~ Acked(p)
      BY DEF Init, PromiseInv
    <2>1. pc[p] \in {"idle", "lock"}
      BY DEF Init
    <2> QED
      BY <2>1 DEF Acked
  <1> QED
    BY <1>1, PromiseStep, Typing, MutualExclusion, Knowing, PTL DEF Spec

\* A name a client was told is subscribed is never lost: not to a concurrent
\* add, a rollback, a crash or a restart (main.go:406-450, 575-589, 622-634).
THEOREM PromisesAreKept == Spec => []VisibleNamesStay
  <1>1. PromiseInv => VisibleNamesStay
    BY DEF PromiseInv, Kept, VisibleNamesStay
  <1> QED
    BY <1>1, Promises, PTL

\* What the router is handed and what the next refresh reads can be used,
\* after any sequence of adds, failures and crashes (main.go:440-448, 481-488,
\* 572-587).
THEOREM FilesStaySound == Spec => []FilesAreSound
  BY PublishingIsSound, OwnStatesBuild, PTL DEF FilesAreSound


-----------------------------------------------------------------------------
\* The refinement.

\* The store and the manager apply the same operators.
LEMMA SameOperators ==
    ASSUME NEW S, NEW add
    PROVE  /\ Store!Names(S) = Names(S)
           /\ Store!Upsert(S, add) = Upsert(S, add)
           /\ Store!CollisionFree(S) <=> CollisionFree(S)
           /\ Store!Generated(S) = Generated(S)
  BY DEF Store!Names, Names, Store!Upsert, Upsert, Store!CollisionFree,
         CollisionFree, Store!Generated, Generated, Store!Config, Config,
         Store!Sub, Sub

\* Everything proved of the reachable states.
Sound == TypeInv /\ LockInv /\ KnowsInv /\ PromiseInv

LEMMA Soundness == Spec => []Sound
  BY Typing, MutualExclusion, Knowing, Promises, PTL DEF Sound

\* Nobody holds the lock: the state on disk is the one that counts.
LEMMA CommittedWhenFree == mu = Free => Committed = stateFile
  BY DEF Committed, Undecided

\* The holder of the lock is the goroutine inside update().
LEMMA Holder ==
    ASSUME Sound, NEW p \in Proc, pc[p] \in Critical
    PROVE  mu = p /\ mu # Free
  BY ProcAssumption DEF Sound, LockInv, Exclusion

\* Until it publishes, an update has not changed what counts.
LEMMA CommittedFound ==
    ASSUME Sound, NEW p \in Proc, pc[p] \in {"publish", "rollback"}
    PROVE  Committed = tx[p].foundState
  <1>1. mu = p /\ mu # Free
    BY Holder DEF Critical
  <1>2. /\ tx[p].previous = tx[p].foundState
        /\ tx[p].state = Upsert(tx[p].foundState, tx[p].add)
        /\ stateFile = tx[p].state
    BY DEF Sound, KnowsInv, Knows
  <1> QED
    BY <1>1, <1>2 DEF Committed, Undecided, Upsert

\* In any other stage the state on disk counts.
LEMMA CommittedDisk ==
    ASSUME Sound, NEW p \in Proc, pc[p] \in Critical \ {"publish", "rollback"}
    PROVE  Committed = stateFile
  BY Holder DEF Committed, Undecided

Unseen == UNCHANGED Store!store

\* A step that leaves the files, the mutex and its holder alone is not seen.
LEMMA HolderUntouched ==
    ASSUME UNCHANGED <<mu, stateFile, output, visible>>,
           mu # Free => pc'[mu] = pc[mu] /\ tx'[mu] = tx[mu]
    PROVE  Unseen
  BY DEF Unseen, Store!store, Committed, Undecided

\* Nor is a stage of update() that writes no file.
LEMMA QuietStep ==
    ASSUME Sound, NEW p \in Proc,
           Begin(p) \/ ReadState(p) \/ Build(p) \/ Validate(p) \/ Record(p)
                    \/ Unlock(p)
    PROVE  Unseen
  <1>0. TypeOK
    BY DEF Sound, TypeInv
  <1>1. UNCHANGED <<stateFile, output, visible>>
    BY DEF Begin, ReadState, Build, Validate, Record, Unlock
  <1>2. Committed = stateFile
    <2>1. CASE Begin(p)
      BY <2>1, CommittedWhenFree DEF Begin, LockFree
    <2>2. CASE ~ Begin(p)
      <3>1. pc[p] \in Critical \ {"publish", "rollback"}
        BY <2>2 DEF ReadState, Build, Validate, Record, Unlock, Critical
      <3> QED
        BY <3>1, CommittedDisk
    <2> QED
      BY <2>1, <2>2
  <1>3. Committed' = stateFile'
    <2>1. CASE Unlock(p)
      BY <2>1 DEF Unlock, Committed, Undecided
    <2>2. CASE Begin(p)
      BY <1>0, <2>2 DEF Begin, Goto, Committed, Undecided, TypeOK
    <2>3. CASE ReadState(p) \/ Build(p) \/ Validate(p) \/ Record(p)
      <3>1. pc[p] \in Critical /\ mu' = mu
        BY <2>3 DEF ReadState, Build, Validate, Record, Critical
      <3>2. mu' = p
        BY <3>1, Holder
      <3>3. pc'[p] = "rollback" => FALSE
        BY <1>0, <2>3 DEF ReadState, Build, Validate, Record, Fail, Goto, TypeOK
      <3>4. pc'[p] = "publish" => tx'[p].add = NoAdd
        BY <1>0, <2>3 DEF ReadState, Build, Validate, Record, Fail, Goto, TypeOK
      <3> QED
        BY <3>2, <3>3, <3>4 DEF Committed, Undecided
    <2> QED
      BY <2>1, <2>2, <2>3
  <1> QED
    BY <1>1, <1>2, <1>3 DEF Unseen, Store!store

\* Storing the subscription is not seen: it may still be taken back.
LEMMA PersistStep ==
    ASSUME Sound, NEW p \in Proc, Persist(p)
    PROVE  Unseen
  <1>0. TypeOK
    BY DEF Sound, TypeInv
  <1>1. Committed = stateFile
    BY CommittedDisk DEF Persist, Critical
  <1>2. mu = p /\ mu # Free /\ mu' = mu
    BY Holder DEF Persist, Critical
  <1>3. UNCHANGED <<output, visible>>
    BY DEF Persist
  <1>4. CASE Fail(p, "failed") /\ stateFile' = stateFile
    <2>1. pc'[p] = "record"
      BY <1>0, <1>4 DEF Fail, Goto, TypeOK
    <2> QED
      BY <1>1, <1>2, <1>3, <1>4, <2>1
         DEF Unseen, Store!store, Committed, Undecided
  <1>5. CASE Goto(p, "publish") /\ stateFile' = tx[p].state /\ UNCHANGED tx
    <2>1. pc'[p] = "publish"
      BY <1>0, <1>5 DEF Goto, TypeOK
    <2>2. /\ stateFile = tx[p].previous
          /\ tx[p].add = NoAdd => tx[p].state = stateFile
      BY DEF Persist, Sound, KnowsInv, Knows, Upsert
    <2> QED
      BY <1>1, <1>2, <1>3, <1>5, <2>1, <2>2
         DEF Unseen, Store!store, Committed, Undecided
  <1> QED
    BY <1>4, <1>5 DEF Persist, WriteJSONAtomic

\* The rename of the configuration is the moment of an add or refresh.
LEMMA PublishStep ==
    ASSUME Sound, NEW p \in Proc, Publish(p)
    PROVE  Unseen \/ \E add \in Accepted \cup {NoAdd} : Store!Commit(add)
  <1>0. TypeOK
    BY DEF Sound, TypeInv
  <1>1. Committed = tx[p].foundState
    BY CommittedFound DEF Publish
  <1>2. mu = p /\ mu # Free /\ mu' = mu
    BY Holder DEF Publish, Critical
  <1>3. UNCHANGED <<stateFile, visible>>
    BY DEF Publish
  <1>4. /\ stateFile = Upsert(Committed, tx[p].add)
        /\ CollisionFree(stateFile)
        /\ tx[p].candidate \in Generated(stateFile)
        /\ tx[p].candidate.valid
    BY <1>1 DEF Publish, Sound, KnowsInv, Knows
  <1>5. CASE output' = tx[p].candidate /\ Goto(p, "record") /\ UNCHANGED tx
    <2>1. pc'[p] = "record"
      BY <1>0, <1>5 DEF Goto, TypeOK
    <2>2. Committed' = stateFile
      BY <1>2, <1>3, <2>1 DEF Committed, Undecided
    <2>3. Store!Commit(tx[p].add)
      <3>1. Store!Upsert(Committed, tx[p].add) = stateFile
        BY <1>4, SameOperators
      <3>2. Store!CollisionFree(stateFile)
        BY <1>4, SameOperators
      <3>3. output' \in {c \in Store!Generated(Committed') : c.valid}
        BY <1>4, <1>5, <2>2, SameOperators
      <3> QED
        BY <1>3, <2>2, <3>1, <3>2, <3>3 DEF Store!Commit
    <2>4. tx[p].add \in Accepted \cup {NoAdd}
      BY <1>0 DEF TypeOK, Tx
    <2> QED
      BY <2>3, <2>4
  <1>6. CASE /\ tx[p].add # NoAdd
             /\ Goto(p, "rollback")
             /\ UNCHANGED <<tx, output>>
    <2>1. pc'[p] = "rollback"
      BY <1>0, <1>6 DEF Goto, TypeOK
    <2> QED
      BY <1>2, <1>3, <1>6, <2>1
         DEF Publish, Unseen, Store!store, Committed, Undecided
  <1>7. CASE tx[p].add = NoAdd /\ Fail(p, "failed") /\ UNCHANGED output
    <2>1. pc'[p] = "record"
      BY <1>0, <1>7 DEF Fail, Goto, TypeOK
    <2> QED
      BY <1>2, <1>3, <1>7, <2>1 DEF Unseen, Store!store, Committed, Undecided
  <1> QED
    BY <1>5, <1>6, <1>7 DEF Publish

\* An update that ends before it published has stored its add or nothing.
LEMMA CutOff ==
    ASSUME Sound, NEW p \in Proc, pc[p] \in {"publish", "rollback"},
           Committed' = stateFile, UNCHANGED <<output, visible>>
    PROVE  Unseen \/ \E add \in Accepted : Store!StoreOnly(add)
  <1>0. TypeOK
    BY DEF Sound, TypeInv
  <1>1. Committed = tx[p].foundState
    BY CommittedFound
  <1>2. /\ stateFile = Upsert(Committed, tx[p].add)
        /\ CollisionFree(stateFile)
    BY <1>1 DEF Sound, KnowsInv, Knows
  <1>3. CASE tx[p].add = NoAdd
    BY <1>2, <1>3 DEF Upsert, Unseen, Store!store
  <1>4. CASE tx[p].add # NoAdd
    <2>1. Store!Upsert(Committed, tx[p].add) = stateFile
      BY <1>2, SameOperators
    <2>2. Store!CollisionFree(stateFile)
      BY <1>2, SameOperators
    <2>3. tx[p].add \in Accepted
      BY <1>0, <1>4 DEF TypeOK, Tx
    <2> QED
      BY <2>1, <2>2, <2>3 DEF Store!StoreOnly
  <1> QED
    BY <1>3, <1>4

\* A rollback takes an unseen change back, or makes it count.
LEMMA RollbackStep ==
    ASSUME Sound, NEW p \in Proc, Rollback(p)
    PROVE  Unseen \/ \E add \in Accepted : Store!StoreOnly(add)
  <1>0. TypeOK
    BY DEF Sound, TypeInv
  <1>1. pc'[p] = "record" /\ UNCHANGED <<output, visible>>
    BY <1>0 DEF Rollback, Fail, Goto, TypeOK
  <1>2. mu = p /\ mu # Free /\ mu' = mu
    BY Holder DEF Rollback, Critical
  <1>3. Committed' = stateFile'
    BY <1>1, <1>2 DEF Committed, Undecided
  <1>4. CASE stateFile' = tx[p].previous
    <2>1. Committed = tx[p].previous
      BY CommittedFound DEF Rollback, Sound, KnowsInv, Knows
    <2> QED
      BY <1>1, <1>3, <1>4, <2>1 DEF Unseen, Store!store
  <1>5. CASE stateFile' = stateFile
    BY <1>1, <1>3, <1>5, CutOff DEF Rollback
  <1> QED
    BY <1>4, <1>5 DEF Rollback, WriteJSONAtomic

\* The end of the process cuts off the update that was committing.
LEMMA HaltStep ==
    ASSUME Sound, Halt
    PROVE  Unseen \/ \E add \in Accepted : Store!StoreOnly(add)
  <1>1. UNCHANGED <<stateFile, output, visible>> /\ mu' = Free
    BY DEF Halt
  <1>2. Committed' = stateFile
    BY <1>1 DEF Committed, Undecided
  <1>3. CASE Undecided
    <2>1. mu \in Proc /\ pc[mu] \in {"publish", "rollback"}
      BY <1>3 DEF Undecided, Sound, TypeInv, TypeOK
    <2> QED
      BY <1>1, <1>2, <2>1, CutOff
  <1>4. CASE ~ Undecided
    BY <1>1, <1>2, <1>4 DEF Unseen, Store!store, Committed
  <1> QED
    BY <1>3, <1>4

\* A listing and the answer to an add tell clients of subscribed names.
LEMMA TellStep ==
    ASSUME Sound, NEW h \in Handler, ListSubscriptions(h) \/ Reply(h)
    PROVE  Unseen \/ Store!Tell
  <1> USE Procs
  <1>0. TypeOK
    BY DEF Sound, TypeInv
  <1>1. CASE ListSubscriptions(h)
    <2>1. UNCHANGED <<mu, stateFile, output>> /\ mu = Free
      BY <1>1 DEF ListSubscriptions
    <2>2. Committed = stateFile /\ Committed' = stateFile
      BY <2>1 DEF Committed, Undecided
    <2>3. visible' = visible \cup Store!Names(Committed)
      BY <1>1, <2>2, SameOperators DEF ListSubscriptions
    <2> QED
      BY <2>1, <2>2, <2>3 DEF Store!Tell
  <1>2. CASE Reply(h)
    <2>1. UNCHANGED <<mu, stateFile, output>> /\ pc[h] = "reply"
      BY <1>2 DEF Reply
    <2>2. mu # Free => pc'[mu] = pc[mu] /\ tx'[mu] = tx[mu]
      <3>1. mu # h
        BY <2>1 DEF Sound, LockInv, Exclusion, Critical
      <3> QED
        BY <1>0, <1>2, <3>1 DEF Reply, Goto, TypeOK
    <2>3. Committed' = Committed
      BY <2>1, <2>2 DEF Committed, Undecided
    <2>4. CASE visible' = visible
      BY <2>1, <2>3, <2>4 DEF Unseen, Store!store
    <2>5. CASE visible' # visible
      <3>1. Acked(h) /\ visible' = visible \cup {tx[h].add.name}
        BY <1>2, <2>1, <2>5 DEF Reply, Acked
      <3>2. Kept(tx[h].add.name, {h})
        BY <3>1 DEF Sound, PromiseInv
      <3>3. tx[h].add.name \in Names(Committed)
        <4>1. CASE Undecided
          <5>1. mu \in Proc \ {h} /\ pc[mu] \in Critical
            BY <1>0, <2>1, <4>1 DEF Undecided, TypeOK, Critical
          <5>2. Committed = tx[mu].foundState
            BY <4>1, <5>1, CommittedFound DEF Undecided
          <5> QED
            BY <3>2, <5>1, <5>2 DEF Kept
        <4>2. CASE ~ Undecided
          BY <3>2, <4>2 DEF Kept, Committed
        <4> QED
          BY <4>1, <4>2
      <3>4. {tx[h].add.name} \in SUBSET Store!Names(Committed)
        BY <3>3, SameOperators
      <3> QED
        BY <2>1, <2>3, <3>1, <3>4 DEF Store!Tell
    <2> QED
      BY <2>4, <2>5
  <1> QED
    BY <1>1, <1>2

LEMMA RefinementStep ==
    Sound /\ [Next]_vars => [Store!StoreNext]_(Store!store)
  <1> SUFFICES ASSUME Sound, [Next]_vars
               PROVE  Store!StoreNext \/ Unseen
    BY DEF Unseen
  <1>0. TypeOK
    BY DEF Sound, TypeInv
  <1> USE Procs
  <1>1. ASSUME NEW p \in Proc, Update(p) PROVE Store!StoreNext \/ Unseen
    BY <1>1, QuietStep, PersistStep, PublishStep, RollbackStep
       DEF Update, Store!StoreNext
  <1>2. ASSUME NEW h \in Handler, Request(h) PROVE Unseen
    <2>1. mu # h
      BY <1>2 DEF Request, Sound, LockInv, Exclusion, Critical
    <2>2. (pc'[mu] = pc[mu] /\ tx'[mu] = tx[mu]) \/ mu = Free
      BY <1>0, <1>2, <2>1 DEF Request, Goto, TypeOK
    <2> QED
      BY <1>2, <2>2, HolderUntouched DEF Request
  <1>3. ASSUME NEW h \in Handler, ListSubscriptions(h) \/ Reply(h)
        PROVE  Store!StoreNext \/ Unseen
    BY <1>3, TellStep DEF Store!StoreNext
  <1>4. ASSUME Rearm \/ Fire \/ Shutdown \/ Start PROVE Unseen
    <2>1. mu = Refresher => pc[Refresher] \in Critical
      BY DEF Sound, LockInv, Exclusion
    <2>2. mu # Free => pc'[mu] = pc[mu] /\ tx'[mu] = tx[mu]
      BY <1>0, <1>4, <2>1
         DEF Rearm, Fire, Shutdown, Start, Goto, TypeOK, Critical, Sound, LockInv,
             NothingRuns
    <2> QED
      BY <1>4, <2>2, HolderUntouched DEF Rearm, Fire, Shutdown, Start
  <1>5. ASSUME Halt PROVE Store!StoreNext \/ Unseen
    BY <1>5, HaltStep DEF Store!StoreNext
  <1>6. CASE UNCHANGED vars
    BY <1>6 DEF vars, Unseen, Store!store, Committed, Undecided
  <1> QED
    BY <1>1, <1>2, <1>3, <1>4, <1>5, <1>6 DEF Next

\* The manager implements the atomic store (main.go:406-450, 575-591).
THEOREM Implementation == Spec => ImplementsStore
  <1>1. Init => Store!StoreInit
    BY CommittedWhenFree DEF Init, Store!StoreInit
  <1> QED
    BY <1>1, RefinementStep, Soundness, PTL DEF Spec, ImplementsStore, Store!StoreSpec

-----------------------------------------------------------------------------
\* The store's own promises, and with them the manager's.
LEMMA StoreNames ==
    ASSUME NEW S, NEW add
    PROVE  Store!Names(S) \subseteq Store!Names(Store!Upsert(S, add))
  BY UpsertNames, SameOperators

LEMMA StoreRemembers ==
    [Store!StoreNext]_(Store!store)
        => [Store!Names(Committed) \subseteq Store!Names(Committed')]_(Store!store)
  <1> SUFFICES ASSUME Store!StoreNext
               PROVE  Store!Names(Committed) \subseteq Store!Names(Committed')
    OBVIOUS
  <1>1. CASE Store!Tell
    BY <1>1 DEF Store!Tell
  <1>2. ASSUME NEW add, Store!Commit(add) \/ Store!StoreOnly(add)
        PROVE  Store!Names(Committed) \subseteq Store!Names(Committed')
    BY <1>2, StoreNames DEF Store!Commit, Store!StoreOnly
  <1> QED
    BY <1>1, <1>2 DEF Store!StoreNext

\* No rollback, no crash and no other client takes a subscribed name away
\* (main.go:440-448, 575-589, 611-668).
THEOREM NamesOnlyGrow == Spec => NamesAccumulate
  BY Implementation, StoreRemembers, PTL
     DEF ImplementsStore, Store!StoreSpec, NamesAccumulate, Store!NothingForgotten

LEMMA LagStep ==
    OutputLags /\ [Store!StoreNext]_(Store!store) => OutputLags'
  <1> SUFFICES ASSUME OutputLags, [Store!StoreNext]_(Store!store)
               PROVE  OutputLags'
    OBVIOUS
  <1>1. ASSUME NEW add, Store!Commit(add) PROVE OutputLags'
    <2>1. output'.subs = Committed' /\ Store!CollisionFree(Committed')
      BY <1>1 DEF Store!Commit, Store!Generated
    <2> QED
      BY <2>1 DEF OutputLags, Store!PublishedLags, Store!CollisionFree
  <1>2. ASSUME NEW add, Store!StoreOnly(add) PROVE OutputLags'
    <2>1. Committed' = Store!Upsert(Committed, add) /\ output' = output
      BY <1>2 DEF Store!StoreOnly
    <2>2. Store!CollisionFree(Committed')
      BY <1>2, <2>1 DEF Store!StoreOnly
    <2> QED
      BY <2>1, <2>2, StoreNames
         DEF OutputLags, Store!PublishedLags, Store!CollisionFree, Store!Names
  <1>3. CASE Store!Tell \/ Unseen
    <2>1. Committed' = Committed /\ output' = output
      BY <1>3 DEF Store!Tell, Unseen, Store!store
    <2> QED
      BY <2>1 DEF OutputLags, Store!PublishedLags, Store!CollisionFree, Store!Names
  <1> QED
    BY <1>1, <1>2, <1>3 DEF Store!StoreNext, Unseen

\* The configuration lags behind the subscriptions by whole adds only
\* (main.go:481-488, 575-589).
THEOREM LagIsBounded == Spec => []OutputLags
  <1>1. Store!StoreInit => OutputLags
    BY DEF Store!StoreInit, OutputLags, Store!PublishedLags
  <1> QED
    BY <1>1, LagStep, Implementation, PTL DEF ImplementsStore, Store!StoreSpec
=============================================================================
