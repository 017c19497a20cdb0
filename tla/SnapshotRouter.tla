--------------------------- MODULE SnapshotRouter ---------------------------
(***************************************************************************)
(* src/scripts/snapshot-router.py: a backup of the host taken under the    *)
(* deployment lock, with the subscription manager paused while files are   *)
(* copied and unpaused in a finally clause.  SIGINT, SIGTERM and SIGHUP     *)
(* raise an exception wherever they arrive.                                *)
(*                                                                         *)
(* Of the host four files matter, each a version number: the manager's     *)
(* state and generated configuration, the active configuration, and the    *)
(* one mounted into the running router.                                    *)
(***************************************************************************)
EXTENDS Naturals

CONSTANTS
    Snapshot,    \* runs of the script
    Deploy,      \* a deployment command, which takes the same lock
    Free,        \* nobody holds .deploy.lock
    MaxVersion   \* bound on the versions of a file

Version == 1 .. MaxVersion
Files   == {"state", "config", "active", "router"}
Missing == 0     \* not copied yet

ASSUME HolderAssumption  == Free \notin Snapshot /\ Deploy \notin Snapshot
                            /\ Free # Deploy
ASSUME VersionAssumption == MaxVersion \in Nat \ {0}

VARIABLES
    host,        \* the version of each file
    manager,     \* "running", "paused" or "stopped"
    lock,        \* the holder of .deploy.lock, or Free
    pc,          \* where each run of the script stands
    found,       \* the manager's state a run has inspected
    raising,     \* the exception a run is unwinding: "none" if none
    captured,    \* the versions a run has copied
    outcome,     \* how a run ended
    moments,     \* history: all that host has been during the present backup
    stuck        \* history: the runs whose unpause failed or was skipped

vars == <<host, manager, lock, pc, found, raising, captured, outcome, moments, stuck>>

\* The stages in the try block, and all of those under the lock.
Guarded == {"pause", "copy", "tree"}
Locked  == {"inspect", "finally", "unpause", "images", "verify"} \cup Guarded
Stages  == {"idle", "lock", "exit"} \cup Locked

Goto(s, stage) == pc' = [pc EXCEPT ![s] = stage]

\* The run is over: print the result and unwind.
End(s, result) == Goto(s, "exit") /\ outcome' = [outcome EXCEPT ![s] = result]

\* An exception: a run in its try block comes to the finally clause.
Raise(s, why) ==
    IF pc[s] \in Guarded
    THEN /\ Goto(s, "finally")
         /\ raising' = [raising EXCEPT ![s] = why]
         /\ UNCHANGED outcome
    ELSE End(s, why) /\ UNCHANGED raising

Init ==
    /\ host = [f \in Files |-> 1]
    /\ manager \in {"running", "paused", "stopped"}
    /\ lock = Free
    /\ pc = [s \in Snapshot |-> "idle"]
    /\ found = [s \in Snapshot |-> "unknown"]
    /\ raising = [s \in Snapshot |-> "none"]
    /\ captured = [s \in Snapshot |-> [f \in Files |-> Missing]]
    /\ outcome = [s \in Snapshot |-> "none"]
    /\ moments = {host}
    /\ stuck = {}

-----------------------------------------------------------------------------
Invoke(s) ==
    /\ pc[s] = "idle"
    /\ Goto(s, "lock")
    /\ UNCHANGED <<host, manager, lock, found, raising, captured, outcome, moments,
                   stuck>>

LockFree == lock = Free

Acquire(s) ==
    /\ pc[s] = "lock" /\ LockFree
    /\ lock' = s
    /\ Goto(s, "inspect")
    /\ moments' = {host}
    /\ UNCHANGED <<host, manager, found, raising, captured, outcome, stuck>>

\* Mutant: a running manager is taken for a paused one.
InspectRunningAsPaused(s) ==
    /\ pc[s] = "inspect"
    /\ found' = [found EXCEPT ![s] = "paused"]
    /\ Goto(s, "copy")
    /\ UNCHANGED <<host, manager, lock, raising, captured, outcome, moments, stuck>>

\* Git, containers and free space are looked at; whether the manager will be
\* paused is decided here.
Inspect(s) ==
    /\ pc[s] = "inspect"
    /\ found' = [found EXCEPT ![s] = manager]
    /\ Goto(s, IF manager = "running" THEN "pause" ELSE "copy")
    /\ UNCHANGED <<host, manager, lock, raising, captured, outcome, moments, stuck>>

\* Mutant: the pause comes before the try block.
PauseUnguarded(s) ==
    /\ pc[s] = "pause"
    /\ \/ manager' = "paused" /\ Goto(s, "copy") /\ UNCHANGED outcome
       \/ manager' \in {manager, "paused"} /\ End(s, "failed")
    /\ UNCHANGED <<host, lock, found, raising, captured, moments, stuck>>

\* docker pause; the client may fail although the daemon has paused.
Pause(s) ==
    /\ pc[s] = "pause"
    /\ \/ manager' = "paused" /\ Goto(s, "copy") /\ UNCHANGED <<raising, outcome>>
       \/ manager' \in {manager, "paused"} /\ Raise(s, "failed")
    /\ UNCHANGED <<host, lock, found, captured, moments, stuck>>

Capture(s, file) == captured' = [captured EXCEPT ![s][file] = host[file]]

\* docker cp of the configuration mounted into the router.
CopyRunning(s) ==
    /\ pc[s] = "copy"
    /\ Capture(s, "router")
    /\ Goto(s, "tree")
    /\ UNCHANGED <<host, manager, lock, found, raising, outcome, moments, stuck>>

\* The worktree is archived file by file, in the order of the directory.
CopyTree(s) ==
    /\ pc[s] = "tree"
    /\ \/ /\ \E file \in Files \ {"router"} :
                captured[s][file] = Missing /\ Capture(s, file)
          /\ UNCHANGED pc
       \/ /\ \A file \in Files : captured[s][file] # Missing
          /\ Goto(s, "finally")
          /\ UNCHANGED captured
    /\ UNCHANGED <<host, manager, lock, found, raising, outcome, moments, stuck>>

\* The finally clause: signals are blocked if the manager is to be unpaused.
Finally(s) ==
    /\ pc[s] = "finally"
    /\ IF found[s] = "running" THEN Goto(s, "unpause") /\ UNCHANGED outcome
       ELSE IF raising[s] = "none" THEN Goto(s, "images") /\ UNCHANGED outcome
       ELSE End(s, raising[s])
    /\ UNCHANGED <<host, manager, lock, found, raising, captured, moments, stuck>>

\* docker unpause, which fails if nothing is paused; then the exception under
\* way goes on.
Unpause(s) ==
    /\ pc[s] = "unpause"
    /\ \/ /\ manager = "paused" /\ manager' = "running"
          /\ UNCHANGED stuck
          /\ IF raising[s] = "none" THEN Goto(s, "images") /\ UNCHANGED outcome
             ELSE End(s, raising[s])
       \/ /\ manager' \in {manager, "running"}
          /\ stuck' = IF manager' = "paused" THEN stuck \cup {s} ELSE stuck
          /\ End(s, IF raising[s] = "none" THEN "failed" ELSE raising[s])
    /\ UNCHANGED <<host, lock, found, raising, captured, moments>>

\* Images, host files and nft rules are saved, after the manager runs again.
SaveImages(s) ==
    /\ pc[s] = "images"
    /\ Goto(s, "verify")
    /\ UNCHANGED <<host, manager, lock, found, raising, captured, outcome, moments,
                   stuck>>

\* Archives, bundle and JSON are read back, hashes taken, COMPLETE written.
Verify(s) ==
    /\ pc[s] = "verify"
    /\ End(s, "complete")
    /\ UNCHANGED <<host, manager, lock, found, raising, captured, moments, stuck>>

\* Any command, check or write of a stage fails.
Fail(s) ==
    /\ pc[s] \in {"lock", "inspect", "copy", "tree", "images", "verify"}
    /\ Raise(s, "failed")
    /\ UNCHANGED <<host, manager, lock, found, captured, moments, stuck>>

\* The process ends: its lock is free and its variables are gone.
Gone(s) ==
    /\ Goto(s, "idle")
    /\ lock' = IF lock = s THEN Free ELSE lock
    /\ found' = [found EXCEPT ![s] = "unknown"]
    /\ raising' = [raising EXCEPT ![s] = "none"]
    /\ captured' = [captured EXCEPT ![s] = [f \in Files |-> Missing]]
    /\ outcome' = [outcome EXCEPT ![s] = "none"]
    /\ stuck' = stuck \ {s}
    /\ UNCHANGED <<host, manager, moments>>

Exit(s) == pc[s] = "exit" /\ Gone(s)

-----------------------------------------------------------------------------
\* SIGINT, SIGTERM or SIGHUP.  In the finally clause it raises out of it until
\* it is blocked; while it is blocked it waits for the end of the unpause.  A
\* docker pause that it ends may have done its work.
Interrupt(s) ==
    /\ pc[s] \in Locked \cup {"lock"}
    /\ IF pc[s] = "unpause"
       THEN /\ raising' = [raising EXCEPT ![s] = "interrupted"]
            /\ UNCHANGED <<pc, outcome>>
       ELSE Raise(s, "interrupted")
    /\ manager' \in IF pc[s] = "pause" THEN {manager, "paused"} ELSE {manager}
    /\ stuck' = IF pc[s] = "finally" THEN stuck \cup {s} ELSE stuck
    /\ UNCHANGED <<host, lock, found, captured, moments>>

Kill(s) == pc[s] \in Locked /\ Gone(s)

\* A file of the host changes to a new version.
Write(file, version) ==
    /\ host' = [host EXCEPT ![file] = version]
    /\ moments' = IF lock \in Snapshot THEN moments \cup {host'} ELSE {host'}

\* A refresh replaces the configuration, an add the state before it; both need
\* no lock.
ManagerWrites ==
    /\ manager = "running"
    /\ \E file \in {"state", "config"} :
          host[file] < MaxVersion /\ Write(file, host[file] + 1)
    /\ UNCHANGED <<manager, lock, pc, found, raising, captured, outcome, stuck>>

\* A deployment command takes the lock, replaces the active configuration,
\* recreates the router, and gives the lock back.
Deployment ==
    /\ \/ LockFree /\ lock' = Deploy /\ UNCHANGED <<host, moments>>
       \/ /\ lock = Deploy /\ UNCHANGED lock
          /\ \/ /\ host["active"] < MaxVersion
                /\ Write("active", host["active"] + 1)
             \/ Write("router", host["active"])
       \/ lock = Deploy /\ lock' = Free /\ UNCHANGED <<host, moments>>
    /\ UNCHANGED <<manager, pc, found, raising, captured, outcome, stuck>>

\* The operator looks after the manager, but not during a backup.
Operator ==
    /\ lock = Free
    /\ manager' \in {"running", "paused", "stopped"}
    /\ UNCHANGED <<host, lock, pc, found, raising, captured, outcome, moments, stuck>>

Step(s) ==
    \/ Invoke(s) \/ Acquire(s) \/ Inspect(s) \/ Pause(s) \/ CopyRunning(s)
    \/ CopyTree(s) \/ Finally(s) \/ Unpause(s) \/ SaveImages(s) \/ Verify(s)
    \/ Fail(s) \/ Exit(s)

Next ==
    \/ \E s \in Snapshot : Step(s) \/ Interrupt(s) \/ Kill(s)
    \/ ManagerWrites \/ Deployment \/ Operator

Spec == Init /\ [][Next]_vars

-----------------------------------------------------------------------------
Results == {"none", "complete", "failed", "interrupted"}

\* Every variable has its type, and a run is between taking and giving back
\* the lock exactly while it holds it (snapshot-router.py:148-153).
TypeOK ==
    /\ host \in [Files -> Version]
    /\ manager \in {"running", "paused", "stopped"}
    /\ lock \in Snapshot \cup {Deploy, Free}
    /\ pc \in [Snapshot -> Stages]
    /\ \A s \in Snapshot : pc[s] \in Locked => lock = s
    /\ found \in [Snapshot -> {"unknown", "running", "paused", "stopped"}]
    /\ raising \in [Snapshot -> {"none", "failed", "interrupted"}]
    /\ captured \in [Snapshot -> [Files -> Version \cup {Missing}]]
    /\ outcome \in [Snapshot -> Results]
    /\ moments \subseteq [Files -> Version]
    /\ stuck \subseteq Snapshot

\* A snapshot with its COMPLETE marker is a state the host was in at one
\* moment of the backup, although its files are copied one after the other
\* while refreshes and deployments want to write them
\* (snapshot-router.py:196-221).
SnapshotIsOneMoment ==
    \A s \in Snapshot :
        pc[s] = "exit" /\ outcome[s] = "complete" => captured[s] \in moments

\* A complete snapshot has put the manager back as it found it: "Unpause
\* failure prevents a successful snapshot", and a stopped or paused manager is
\* left alone (snapshot-router.py:196-230).
CompleteLeavesManager ==
    \A s \in Snapshot :
        pc[s] = "exit" /\ outcome[s] = "complete" => manager = found[s]

\* A snapshot that fails or is interrupted has put the manager back, also when
\* a pause half-way or a signal during the unpause is what ended it; only an
\* unpause that fails, or a signal between the entry of the finally clause and
\* the blocking of signals, leaves it paused (snapshot-router.py:198-229).
FailureLeavesManager ==
    \A s \in Snapshot :
        pc[s] = "exit" /\ lock = s /\ outcome[s] \in {"failed", "interrupted"}
        /\ s \notin stuck /\ found[s] = "running"
            => manager = "running"

\* A snapshot puts the manager back, whatever comes of it
\* (snapshot-router.py:196-230).
ManagerIsPutBack == CompleteLeavesManager /\ FailureLeavesManager
=============================================================================
