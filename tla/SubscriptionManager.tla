------------------------ MODULE SubscriptionManager ------------------------
(***************************************************************************)
(* The subscription manager (src/subscription-manager/main.go) as a        *)
(* concurrent transaction system over two files: the private subscription  *)
(* state and the generated router configuration.  HTTP handlers and the    *)
(* background refresher run update() under one mutex; the process may be    *)
(* asked to stop, be killed between any two steps, and be started again.   *)
(***************************************************************************)
EXTENDS Subscriptions

CONSTANTS
    Handler,     \* HTTP handler goroutines that may be in flight at once
    Refresher,   \* the goroutine that run() starts for a background refresh
    Free         \* nobody holds the mutex

Proc   == Handler \cup {Refresher}

ASSUME ProcAssumption == Refresher \notin Handler /\ Free \notin Proc

VARIABLES
    proc,        \* the manager process: "up", "draining" or "down"
    mu,          \* Manager.mu: its holder, or Free
    pc,          \* where each goroutine stands
    tx,          \* the local variables of each goroutine's update()
    health,      \* the fields healthMu guards
    stateFile,   \* Manager.state: the persisted subscriptions
    output,      \* Manager.output: the generated configuration, or the seed
    visible      \* history: names a client was told are subscribed

vars == <<proc, mu, pc, tx, health, stateFile, output, visible>>

\* update()'s fixed messages: none, the one of a failed rollback, any other.
Errors == {"", "failed", "rollback failed"}

\* The variables of update(): its argument and result, the prospective and
\* the previous state, the candidate, and (history) the files it found.
Tx == [add : Accepted \cup {NoAdd}, err : Errors,
       state : SUBSET Sub, previous : SUBSET Sub,
       candidate : Config \cup {NoConfig},
       foundState : SUBSET Sub, foundOutput : Config \cup {Seed}]

Health == [succeeded : BOOLEAN, nodes : 0 .. MaxNodes, lastError : Errors]

HandlerStage   == {"idle", "lock", "read", "build", "validate", "persist",
                   "publish", "rollback", "record", "unlock", "reply"}
RefresherStage == (HandlerStage \ {"reply"}) \cup {"done", "armed"}
Stage(p)       == IF p = Refresher THEN RefresherStage ELSE HandlerStage

\* The stages of update() between mu.Lock() and mu.Unlock().
Critical == {"read", "build", "validate", "persist", "publish", "rollback",
             "record", "unlock"}

(***************************************************************************)
(* Files and readiness.                                                    *)
(***************************************************************************)

\* writeJSONAtomic: a temporary file and a rename, so that a reader and a
\* failure see the old state or the new one.
WriteJSONAtomic(state, ok) ==
    stateFile' = IF ok THEN state ELSE stateFile

\* Mutant: readiness forgets the outcome of the last attempt.
ReadyOnceSucceeded == health.succeeded

\* The readiness bit of GET /health.
Ready == health.succeeded /\ health.lastError = ""

NoTx       == [add |-> NoAdd, err |-> "", state |-> {}, previous |-> {},
               candidate |-> NoConfig, foundState |-> {}, foundOutput |-> Seed]
ZeroHealth == [succeeded |-> FALSE, nodes |-> 0, lastError |-> ""]

-----------------------------------------------------------------------------
\* The first start: init.sh has seeded the files, or kept older ones.
Init ==
    /\ proc = "up"
    /\ mu = Free
    /\ pc = [p \in Proc |-> IF p = Refresher THEN "lock" ELSE "idle"]
    /\ tx = [p \in Proc |-> NoTx]
    /\ health = ZeroHealth
    /\ stateFile \in Legacy
    /\ output = Seed
    /\ visible = {}

Goto(p, stage) == pc' = [pc EXCEPT ![p] = stage]

\* A stage of update() returns an error: the deferred closure runs next.
Fail(p, err) ==
    /\ Goto(p, "record")
    /\ tx' = [tx EXCEPT ![p].err = err]

(***************************************************************************)
(* Requests.  A body the handler refuses (bad length, bad JSON, an empty   *)
(* name, a URL that is not https) is answered 400 and changes nothing.     *)
(***************************************************************************)

\* POST /subscriptions with an accepted body, or POST /refresh.
Request(h) ==
    /\ proc = "up"
    /\ pc[h] = "idle"
    /\ \E add \in Accepted \cup {NoAdd} :
         tx' = [tx EXCEPT ![h].add = add]
    /\ Goto(h, "lock")
    /\ UNCHANGED <<proc, mu, health, stateFile, output, visible>>

\* Mutant: GET /subscriptions reads the state without the transaction lock.
ListUnlocked(h) ==
    /\ proc # "down"
    /\ pc[h] = "idle"
    /\ visible' = visible \cup Names(stateFile)
    /\ UNCHANGED <<proc, mu, pc, tx, health, stateFile, output>>

\* GET /subscriptions: the names read under the lock.
ListSubscriptions(h) ==
    /\ proc # "down"
    /\ pc[h] = "idle"
    /\ mu = Free
    /\ visible' = visible \cup Names(stateFile)
    /\ UNCHANGED <<proc, mu, pc, tx, health, stateFile, output>>

\* The handler answers with the result of update().
Reply(h) ==
    /\ pc[h] = "reply"
    /\ visible' = IF tx[h].err = "" /\ tx[h].add # NoAdd
                  THEN visible \cup {tx[h].add.name}
                  ELSE visible
    /\ tx' = [tx EXCEPT ![h] = NoTx]
    /\ Goto(h, "idle")
    /\ UNCHANGED <<proc, mu, health, stateFile, output>>

(***************************************************************************)
(* update() and buildState().                                              *)
(***************************************************************************)

\* Mutant: the mutex does not exclude.
NoExclusion(p) == TRUE

LockFree(p) == mu = Free

\* mu.Lock(), then lastAttempt is stamped (only its reader cares when).
Begin(p) ==
    /\ pc[p] = "lock"
    /\ LockFree(p)
    /\ mu' = p
    /\ tx' = [tx EXCEPT ![p] = [@ EXCEPT !.foundState = stateFile,
                                          !.foundOutput = output]]
    /\ Goto(p, "read")
    /\ UNCHANGED <<proc, health, stateFile, output, visible>>

\* The state is read and the prospective state computed; an unreadable or
\* undecodable file ends the update.
ReadState(p) ==
    /\ pc[p] = "read"
    /\ \/ /\ tx' = [tx EXCEPT ![p] =
                       [@ EXCEPT !.previous = stateFile,
                                 !.state = Upsert(stateFile, tx[p].add)]]
          /\ Goto(p, "build")
       \/ Fail(p, "failed")
    /\ UNCHANGED <<proc, mu, health, stateFile, output, visible>>

\* Base config, providers, merge and temporary file.  Any fetch, parse or
\* file error and any tag collision ends the update.
Build(p) ==
    /\ pc[p] = "build"
    /\ \/ /\ CollisionFree(tx[p].state)
          /\ \E c \in Generated(tx[p].state) :
               tx' = [tx EXCEPT ![p].candidate = c]
          /\ Goto(p, "validate")
       \/ Fail(p, "failed")
    /\ UNCHANGED <<proc, mu, health, stateFile, output, visible>>

\* Mutant: the verdict of the validator is ignored.
ValidateIgnored(p) ==
    /\ pc[p] = "validate"
    /\ Goto(p, IF tx[p].add # NoAdd THEN "persist" ELSE "publish")
    /\ UNCHANGED <<proc, mu, tx, health, stateFile, output, visible>>

\* sing-box check on the temporary file, which may also time out.
Validate(p) ==
    /\ pc[p] = "validate"
    /\ \/ /\ tx[p].candidate.valid
          /\ Goto(p, IF tx[p].add # NoAdd THEN "persist" ELSE "publish")
          /\ UNCHANGED tx
       \/ Fail(p, "failed")
    /\ UNCHANGED <<proc, mu, health, stateFile, output, visible>>

\* An add commits its state first.
Persist(p) ==
    /\ pc[p] = "persist"
    /\ \/ /\ WriteJSONAtomic(tx[p].state, TRUE)
          /\ Goto(p, "publish")
          /\ UNCHANGED tx
       \/ /\ WriteJSONAtomic(tx[p].state, FALSE)
          /\ Fail(p, "failed")
    /\ UNCHANGED <<proc, mu, health, output, visible>>

\* Mutant: a failed rename is reported without rolling the state back.
PublishNoRollback(p) ==
    /\ pc[p] = "publish"
    /\ \/ /\ output' = tx[p].candidate
          /\ Goto(p, "record")
          /\ UNCHANGED tx
       \/ Fail(p, "failed") /\ UNCHANGED output
    /\ UNCHANGED <<proc, mu, health, stateFile, visible>>

\* Mutant: a refresh without an add validates but does not publish.
PublishAddsOnly(p) ==
    /\ pc[p] = "publish"
    /\ \/ /\ output' = IF tx[p].add # NoAdd THEN tx[p].candidate ELSE output
          /\ Goto(p, "record")
          /\ UNCHANGED tx
       \/ /\ IF tx[p].add # NoAdd
             THEN Goto(p, "rollback") /\ UNCHANGED tx
             ELSE Fail(p, "failed")
          /\ UNCHANGED output
    /\ UNCHANGED <<proc, mu, health, stateFile, visible>>

\* The temporary file is renamed over the output; if that fails, an add has
\* a committed state to take back.
Publish(p) ==
    /\ pc[p] = "publish"
    /\ \/ /\ output' = tx[p].candidate
          /\ Goto(p, "record")
          /\ UNCHANGED tx
       \/ /\ IF tx[p].add # NoAdd
             THEN Goto(p, "rollback") /\ UNCHANGED tx
             ELSE Fail(p, "failed")
          /\ UNCHANGED output
    /\ UNCHANGED <<proc, mu, health, stateFile, visible>>

\* The previous state is written back, or that fails too.
Rollback(p) ==
    /\ pc[p] = "rollback"
    /\ \/ WriteJSONAtomic(tx[p].previous, TRUE)  /\ Fail(p, "failed")
       \/ WriteJSONAtomic(tx[p].previous, FALSE) /\ Fail(p, "rollback failed")
    /\ UNCHANGED <<proc, mu, health, output, visible>>

\* The deferred closure records the outcome while mu is still held.
Record(p) ==
    /\ pc[p] = "record"
    /\ health' = IF tx[p].err = ""
                 THEN [health EXCEPT !.succeeded = TRUE, !.lastError = "",
                                     !.nodes = tx[p].candidate.nodes]
                 ELSE [health EXCEPT !.lastError = tx[p].err]
    /\ Goto(p, "unlock")
    /\ UNCHANGED <<proc, mu, tx, stateFile, output, visible>>

\* What outlives update(): the handler's request and the error.
Returned(p) ==
    IF p = Refresher THEN NoTx
    ELSE [NoTx EXCEPT !.add = tx[p].add, !.err = tx[p].err]

\* Mutant: a refresh returns as a handler does and signals nothing.
UnlockUnsignalled(p) ==
    /\ pc[p] = "unlock"
    /\ mu' = Free
    /\ Goto(p, "reply")
    /\ tx' = [tx EXCEPT ![p] = Returned(p)]
    /\ UNCHANGED <<proc, health, stateFile, output, visible>>

\* mu.Unlock() and return: to the handler, or to the goroutine of start().
Unlock(p) ==
    /\ pc[p] = "unlock"
    /\ mu' = Free
    /\ Goto(p, IF p = Refresher THEN "done" ELSE "reply")
    /\ tx' = [tx EXCEPT ![p] = Returned(p)]
    /\ UNCHANGED <<proc, health, stateFile, output, visible>>

Update(p) == \/ Begin(p) \/ ReadState(p) \/ Build(p) \/ Validate(p)
             \/ Persist(p) \/ Publish(p) \/ Rollback(p) \/ Record(p)
             \/ Unlock(p)

(***************************************************************************)
(* run(): the refresh timer, shutdown, and the life of the process.        *)
(***************************************************************************)

\* Mutant: the timer is armed again only after a successful refresh.
RearmOnSuccess ==
    /\ proc = "up"
    /\ pc[Refresher] = "done"
    /\ health.lastError = ""
    /\ Goto(Refresher, "armed")
    /\ UNCHANGED <<proc, mu, tx, health, stateFile, output, visible>>

\* refreshDone is received: the next refresh is one interval away.
Rearm ==
    /\ proc = "up"
    /\ pc[Refresher] = "done"
    /\ Goto(Refresher, "armed")
    /\ UNCHANGED <<proc, mu, tx, health, stateFile, output, visible>>

\* The timer fires and starts the next refresh.
Fire ==
    /\ proc = "up"
    /\ pc[Refresher] = "armed"
    /\ Goto(Refresher, "lock")
    /\ UNCHANGED <<proc, mu, tx, health, stateFile, output, visible>>

\* A signal or a server error ends run()'s loop.  server.Shutdown lets the
\* handlers go on for a while; nothing waits for the refresher.
Shutdown ==
    /\ proc = "up"
    /\ proc' = "draining"
    /\ UNCHANGED <<mu, pc, tx, health, stateFile, output, visible>>

\* The process is gone: drained, out of the five seconds, or killed.
Halt ==
    /\ proc # "down"
    /\ proc' = "down"
    /\ mu' = Free
    /\ pc' = [p \in Proc |-> "idle"]
    /\ tx' = [p \in Proc |-> NoTx]
    /\ health' = ZeroHealth
    /\ UNCHANGED <<stateFile, output, visible>>

\* The container is started again: run() begins with a refresh.
Start ==
    /\ proc = "down"
    /\ proc' = "up"
    /\ Goto(Refresher, "lock")
    /\ UNCHANGED <<mu, tx, health, stateFile, output, visible>>

Next ==
    \/ \E h \in Handler : Request(h) \/ ListSubscriptions(h) \/ Reply(h)
    \/ \E p \in Proc : Update(p)
    \/ Rearm \/ Fire \/ Shutdown \/ Halt \/ Start

Spec == Init /\ [][Next]_vars

(***************************************************************************)
(* Every stage of update() ends: fetches by the client's 30 s timeout,     *)
(* validation by its 15 s context.  A goroutine that waits for a sync.Mutex *)
(* gets it: the mutex hands itself to the longest waiter once one has      *)
(* waited for a millisecond.  The environment is under no obligation.      *)
(***************************************************************************)
Work(p) == \/ ReadState(p) \/ Build(p) \/ Validate(p) \/ Persist(p)
           \/ Publish(p) \/ Rollback(p) \/ Record(p) \/ Unlock(p)

Fairness ==
    /\ \A p \in Proc : SF_vars(Begin(p)) /\ WF_vars(Work(p))
    /\ \A h \in Handler : WF_vars(Reply(h))
    /\ WF_vars(Rearm) /\ WF_vars(Fire)

FairSpec == Spec /\ Fairness
-----------------------------------------------------------------------------
\* Every variable keeps its type; a handler never reaches the refresher's
\* stages nor the refresher a handler's answer.
TypeOK ==
    /\ proc \in {"up", "draining", "down"}
    /\ mu \in Proc \cup {Free}
    /\ pc \in [Proc -> HandlerStage \cup RefresherStage]
    /\ \A p \in Proc : pc[p] \in Stage(p)
    /\ tx \in [Proc -> Tx]
    /\ health \in Health
    /\ stateFile \in SUBSET Sub
    /\ output \in Config \cup {Seed}
    /\ visible \subseteq Name \cup {EmptyName}

\* The stages in which the two files and the health record may disagree.
Committing(p) == pc[p] \in {"publish", "rollback", "record"}

\* Whenever GET /health says ok and no update is between its commit and the
\* record of its outcome, the router's input is the configuration generated
\* from exactly the persisted subscriptions, and the node count reported is
\* its own: not after a crash between the two renames, not after a failed
\* rollback, and not with the outcome of another request (main.go:413-434,
\* 575-589, 614-621).
ReadyMeansCurrent ==
    Ready /\ (\A p \in Proc : ~Committing(p))
        => /\ output # Seed
           /\ output.subs = stateFile
           /\ output.nodes = health.nodes

\* A name a client was told is subscribed, by the 200 of its add or in a
\* listing, is never lost: not to another client's concurrent add, not to a
\* rollback, not to a crash and restart (main.go:406-450, 575-589, 622-634).
VisibleNamesStay == visible \subseteq Names(stateFile)

\* What the router may be handed is the seed or a configuration sing-box
\* accepted, built from subscriptions whose tags cannot be confused, even
\* when the process dies at the worst moment (main.go:481-488, 572-582).
PublishedSound ==
    output # Seed => output.valid /\ CollisionFree(output.subs)

\* An update that reports a failure left both files as it found them; the
\* one exception is the failure that says the rollback failed, after which
\* only the state differs (main.go:435-438, 575-589).
FailedUpdateRestores ==
    \A p \in Proc :
        pc[p] = "record" /\ tx[p].err # "" =>
            /\ output = tx[p].foundOutput
            /\ tx[p].err # "rollback failed" => stateFile = tx[p].foundState

\* A state with colliding names is only ever one the service was started
\* with: no sequence of adds, failures and crashes makes the manager write a
\* state that it would then refuse to build (main.go:440-448, 481-488,
\* 578-587).
OwnStateBuilds == stateFile \in Legacy \/ CollisionFree(stateFile)

\* Neither of the two files is ever one that the router or a later refresh
\* could not use, unless the service was started with it (main.go:440-448,
\* 481-488, 572-587).
FilesAreSound == PublishedSound /\ OwnStateBuilds

\* The configuration is replaced only by one built from the state on disk at
\* that very moment, whoever else was adding or refreshing (main.go:406-450,
\* 575-582).
PublishMatchesState ==
    [][output' # output => output' # Seed /\ output'.subs = stateFile']_vars

\* While the process stays up, refreshes go on for ever, whatever their
\* outcomes and whoever else wants the lock (main.go:693-708).
RefreshRecurs ==
    <>[](proc = "up") => []<>(pc[Refresher] = "read")

\* Every accepted request is answered unless the process goes away first
\* (main.go:406-434, 660-666).
RequestAnswered ==
    \A h \in Handler : pc[h] = "lock" ~> pc[h] \in {"reply", "idle"}

\* Nobody who wants the lock starves, neither the refresher nor a client
\* (main.go:406-434, 660-708).
NothingStarves == RefreshRecurs /\ RequestAnswered

\* The comment on the commit (main.go:576-577): a crash between the renames
\* is repaired by the next refresh.  Once the process stays up and updates
\* stop failing, the two files agree for good whenever no update runs.
CrashRepaired ==
    <>[](proc = "up") /\ <>[](health.lastError = "")
        => <>[](mu = Free => output # Seed /\ output.subs = stateFile)
=============================================================================
