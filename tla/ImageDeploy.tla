---------------------------- MODULE ImageDeploy ----------------------------
(***************************************************************************)
(* Deployment of published images: `make ci-deploy' over SSH               *)
(* (src/makefiles/ci-deploy.mk) and `make image-deploy' by hand, both      *)
(* ending in deploy() of src/scripts/images.py, which starts deploy.sh as  *)
(* a child and then records what it activated.  `make image-compose' reads *)
(* those records without the lock.                                         *)
(*                                                                         *)
(* The lock is a descriptor of the deploying process.  Python does not     *)
(* pass it on to the children it starts, so an activation is covered only  *)
(* as long as its parent lives.  What deploy.sh does is in Activation;     *)
(* here an activation has three stages and ends well or badly.             *)
(*                                                                         *)
(* A release is the number of its commit on main, oldest first.            *)
(***************************************************************************)
EXTENDS Naturals

CONSTANTS
    Deployer,    \* deployments that may be in flight at once
    MaxRelease,  \* bound on the number of commits
    OnMain,      \* HEAD is the branch main
    None,        \* no file, nothing validated
    Broken,      \* a file whose writer died while writing it
    Free         \* nobody holds .deploy.lock

Release == 1 .. MaxRelease

ASSUME ReleaseAssumption ==
    /\ MaxRelease \in Nat \ {0}
    /\ {OnMain, None, Broken} \cap Release = {}
    /\ None # Broken
ASSUME DeployerAssumption == Free \notin Deployer

VARIABLES
    origin,      \* the tip of main at GitHub
    main,        \* the tip of main in the host's checkout
    head,        \* what is checked out: OnMain, or a detached commit
    lock,        \* the holder of .deploy.lock, or Free
    pc,          \* where each deployment stands
    kind,        \* "ci" or "manual"
    want,        \* the release each deployment is given
    child,       \* the activation each deployment has started
    current,     \* .images/current.json
    previous,    \* .images/previous.json
    composed,    \* .images/compose.json
    op,          \* `make image-compose': the release it has validated, or None
    alone,       \* history: and no deployment has held the lock since
    succeeded,   \* history: releases whose activation succeeded
    last,        \* history: the last of them
    ciLast,      \* history: the last release CI started to activate
    cut          \* history: a deployment died between activation and record

repository == <<origin, main, head>>
deployment == <<kind, want>>
records    == <<current, previous, composed>>
operation  == <<op, alone>>
history    == <<succeeded, last, ciLast, cut>>
vars == <<repository, lock, pc, deployment, child, records, operation, history>>

\* The stages of a deployment: waiting for the lock, and under it.
Recording == {"previous", "current", "compose"}
Locked == {"check", "merge", "login", "validate", "pull", "start", "await", "exit"}
              \cup Recording

\* The stages of an activation, and how it ends.
Running == {"generating", "activating", "restoring"}

\* git rev-parse HEAD.
Revision == IF head = OnMain THEN main ELSE head

Goto(d, stage) == pc' = [pc EXCEPT ![d] = stage]
SetChild(d, state) == child' = [child EXCEPT ![d] = state]

Init ==
    /\ origin = 1 /\ main = 1 /\ head = OnMain
    /\ lock = Free
    /\ pc = [d \in Deployer |-> "idle"]
    /\ kind = [d \in Deployer |-> "manual"]
    /\ want = [d \in Deployer |-> 1]
    /\ child = [d \in Deployer |-> "none"]
    /\ current = None /\ previous = None /\ composed = None
    /\ op = None /\ alone = FALSE
    /\ succeeded = {} /\ last = None /\ ciLast = 1 /\ cut = FALSE

-----------------------------------------------------------------------------
(***************************************************************************)
(* Taking the lock, and what CI does under it before it deploys.           *)
(***************************************************************************)

\* A workflow brings the commit it has tested and published; an operator
\* brings any manifest.
Invoke(d) ==
    /\ pc[d] = "idle" /\ child[d] = "none"
    /\ \E k \in {"ci", "manual"} : kind' = [kind EXCEPT ![d] = k]
    /\ \E r \in 1 .. origin : want' = [want EXCEPT ![d] = r]
    /\ Goto(d, "lock")
    /\ UNCHANGED <<repository, lock, child, records, operation, history>>

\* Mutant: a deployment does not wait for the one that holds the lock.
NoWait == TRUE

LockFree == lock = Free

\* flock -w 1800, or a loop of 1800 s: the lock, or the end.
Acquire(d) ==
    /\ pc[d] = "lock"
    /\ \/ /\ LockFree
          /\ lock' = d
          /\ alone' = FALSE
          /\ Goto(d, IF kind[d] = "ci" THEN "check" ELSE "validate")
       \/ Goto(d, "idle") /\ UNCHANGED <<lock, alone>>
    /\ UNCHANGED <<repository, deployment, child, records, op, history>>

\* A stage that changes nothing here: on to the next one, or the deployment
\* ends.
Stage(d, from, condition, to) ==
    /\ pc[d] = from
    /\ \/ condition /\ Goto(d, to)
       \/ Goto(d, "exit")
    /\ UNCHANGED <<repository, lock, deployment, child, records, operation, history>>

\* The checkout is on main and clean, and main as fetched now is the tested
\* commit.
Check(d) == Stage(d, "check", head = OnMain /\ origin = want[d], "merge")

\* git merge --ff-only, and HEAD must then be the tested commit.
Merge(d) ==
    /\ pc[d] = "merge"
    /\ \/ main <= want[d] /\ main' = want[d] /\ Goto(d, "login")
       \/ Goto(d, "exit") /\ UNCHANGED main
    /\ UNCHANGED <<origin, head, lock, deployment, child, records, operation,
                   history>>

\* docker login, then `make image-deploy' with both locks declared held.
Login(d) == Stage(d, "login", TRUE, "validate")

(***************************************************************************)
(* deploy() of images.py.                                                  *)
(***************************************************************************)

\* Mutant: the manifest's revision is not compared with the checkout.
ValidateImagesOnly(d) == Stage(d, "validate", TRUE, "pull")

\* The manifest must be one of the revision checked out.  requested.json,
\* which nothing reads, is written.
Validate(d) == Stage(d, "validate", want[d] = Revision, "pull")

\* Every image is pulled before any service is touched.
Pull(d) == Stage(d, "pull", TRUE, "start")

\* make image-activate: deploy.sh is started.
StartChild(d) ==
    /\ pc[d] = "start"
    /\ SetChild(d, "generating")
    /\ ciLast' = IF kind[d] = "ci" THEN want[d] ELSE ciLast
    /\ Goto(d, "await")
    /\ UNCHANGED <<repository, lock, deployment, records, operation, succeeded,
                   last, cut>>

\* Mutant: the child's exit status is not looked at.
AwaitUnchecked(d) ==
    /\ pc[d] = "await"
    /\ child[d] \in {"ok", "failed"} /\ Goto(d, "previous")
    /\ SetChild(d, "none")
    /\ UNCHANGED <<repository, lock, deployment, records, operation, history>>

\* The result of the child: success goes on, failure raises.
Await(d) ==
    /\ pc[d] = "await"
    /\ \/ child[d] = "ok" /\ Goto(d, "previous")
       \/ child[d] = "failed" /\ Goto(d, "exit")
    /\ SetChild(d, "none")
    /\ UNCHANGED <<repository, lock, deployment, records, operation, history>>

SavePrevious(d) ==
    /\ pc[d] = "previous"
    /\ previous' = IF current # None THEN current ELSE previous
    /\ Goto(d, "current")
    /\ UNCHANGED <<repository, lock, deployment, child, current, composed,
                   operation, history>>

WriteCurrent(d) ==
    /\ pc[d] = "current"
    /\ current' = want[d]
    /\ Goto(d, "compose")
    /\ UNCHANGED <<repository, lock, deployment, child, previous, composed,
                   operation, history>>

\* Mutant: the override of the first release is kept.
WriteComposeOnce(d) ==
    /\ pc[d] = "compose"
    /\ composed' = IF composed = None THEN want[d] ELSE composed
    /\ Goto(d, "exit")
    /\ UNCHANGED <<repository, lock, deployment, child, current, previous,
                   operation, history>>

WriteCompose(d) ==
    /\ pc[d] = "compose"
    /\ composed' = want[d]
    /\ Goto(d, "exit")
    /\ UNCHANGED <<repository, lock, deployment, child, current, previous,
                   operation, history>>

\* The process ends, and the lock goes with its descriptor.
End(d) ==
    /\ Goto(d, "idle")
    /\ lock' = IF lock = d THEN Free ELSE lock

Exit(d) ==
    /\ pc[d] = "exit"
    /\ End(d)
    /\ UNCHANGED <<repository, deployment, child, records, operation, history>>

-----------------------------------------------------------------------------
(***************************************************************************)
(* The activation started by d, whose parent may be gone by now.           *)
(***************************************************************************)

\* The result is left for the parent; without one it is lost.
Finish(d, result) == SetChild(d, IF pc[d] = "await" THEN result ELSE "none")

\* The manager is replaced and the candidate generated: from here a failure
\* is undone by restore.
Generate(d) ==
    /\ child[d] = "generating"
    /\ SetChild(d, "activating") \/ Finish(d, "failed")
    /\ UNCHANGED <<repository, lock, pc, deployment, records, operation, history>>

Activate(d) ==
    /\ child[d] = "activating"
    /\ Finish(d, "ok")
    /\ succeeded' = succeeded \cup {want[d]}
    /\ last' = want[d]
    /\ cut' = (cut \/ pc[d] # "await")
    /\ UNCHANGED <<repository, lock, pc, deployment, records, operation, ciLast>>

\* The activation fails and is undone; restore always exits with status 1.
StartRestore(d) ==
    /\ child[d] = "activating"
    /\ SetChild(d, "restoring")
    /\ UNCHANGED <<repository, lock, pc, deployment, records, operation, history>>

Restore(d) ==
    /\ child[d] = "restoring"
    /\ Finish(d, "failed")
    /\ UNCHANGED <<repository, lock, pc, deployment, records, operation, history>>

-----------------------------------------------------------------------------
(***************************************************************************)
(* Deaths.                                                                 *)
(***************************************************************************)

\* A death after the activation and before its records are complete.
Cut(d) == cut' = (cut \/ pc[d] \in Recording \/ child[d] = "ok")

\* Control-C reaches the whole process group.  Python does not wait for
\* `make' to end; deploy.sh traps the signal, and restores if it was
\* activating.  A second one ends a restore.
Interrupt(d) ==
    /\ kind[d] = "manual" /\ pc[d] \in Locked \cup {"lock"}
    /\ End(d)
    /\ SetChild(d, IF child[d] = "activating" THEN "restoring" ELSE "none")
    /\ Cut(d)
    /\ UNCHANGED <<repository, deployment, records, operation, succeeded, last,
                   ciLast>>

\* The deploying process alone is killed.  A file is opened for writing
\* before it is written: what it held is gone.
Kill(d) ==
    /\ pc[d] \in Locked
    /\ End(d)
    /\ IF child[d] \in Running THEN UNCHANGED child ELSE SetChild(d, "none")
    /\ Cut(d)
    /\ \/ UNCHANGED records
       \/ /\ pc[d] = "previous" /\ current # None
          /\ previous' = Broken /\ UNCHANGED <<current, composed>>
       \/ pc[d] = "current" /\ current' = Broken /\ UNCHANGED <<previous, composed>>
       \/ pc[d] = "compose" /\ composed' = Broken /\ UNCHANGED <<current, previous>>
    /\ UNCHANGED <<repository, deployment, operation, succeeded, last, ciLast>>

-----------------------------------------------------------------------------
(***************************************************************************)
(* The developers, the operator, and `make image-compose'.                 *)
(***************************************************************************)

Push ==
    /\ origin < MaxRelease
    /\ origin' = origin + 1
    /\ UNCHANGED <<main, head, lock, pc, deployment, child, records, operation,
                   history>>

\* Before a rollback the operator checks out the manifest's revision, and
\* later main again.  Nobody does that under a deployment in progress.
Checkout ==
    /\ lock = Free
    /\ \E h \in {OnMain} \cup 1 .. main : head' = h
    /\ UNCHANGED <<origin, main, lock, pc, deployment, child, records, operation,
                   history>>

\* operate(): current.json is read and validated ...
OperateRead ==
    /\ op = None /\ current = Revision
    /\ op' = current /\ alone' = (lock = Free)
    /\ UNCHANGED <<repository, lock, pc, deployment, child, records, history>>

\* ... and docker compose runs the images of compose.json.
OperateRun ==
    /\ op # None
    /\ op' = None /\ alone' = FALSE
    /\ UNCHANGED <<repository, lock, pc, deployment, child, records, history>>

DeployStep(d) ==
    \/ Invoke(d) \/ Acquire(d) \/ Check(d) \/ Merge(d) \/ Login(d) \/ Validate(d)
    \/ Pull(d) \/ StartChild(d) \/ Await(d) \/ SavePrevious(d) \/ WriteCurrent(d)
    \/ WriteCompose(d) \/ Exit(d)
ChildStep(d) == Generate(d) \/ Activate(d) \/ StartRestore(d) \/ Restore(d)

Next ==
    \/ \E d \in Deployer : DeployStep(d) \/ ChildStep(d) \/ Interrupt(d) \/ Kill(d)
    \/ Push \/ Checkout \/ OperateRead \/ OperateRun

Spec == Init /\ [][Next]_vars

-----------------------------------------------------------------------------
(***************************************************************************)
(* Properties.                                                             *)
(***************************************************************************)

File == Release \cup {None, Broken}

\* Every variable has its type, and a deployment is past the lock exactly
\* when it holds it (images.py, locked_deploy; ci-deploy.mk, flock).
TypeOK ==
    /\ origin \in Release /\ main \in 1 .. origin /\ head \in {OnMain} \cup 1 .. main
    /\ lock \in Deployer \cup {Free}
    /\ pc \in [Deployer -> {"idle", "lock"} \cup Locked]
    /\ \A d \in Deployer : pc[d] \in Locked <=> lock = d
    /\ kind \in [Deployer -> {"ci", "manual"}]
    /\ want \in [Deployer -> 1 .. origin]
    /\ child \in [Deployer -> {"none", "ok", "failed"} \cup Running]
    /\ current \in File /\ previous \in File /\ composed \in File
    /\ op \in Release \cup {None} /\ alone \in BOOLEAN /\ cut \in BOOLEAN
    /\ succeeded \subseteq Release /\ last \in Release \cup {None}
    /\ ciLast \in Release

\* Whatever dies and whenever, every readable record of .images names a
\* release whose activation passed its smoke test: previous.json, current.json
\* and compose.json are never ahead of the activation (images.py, deploy).
RecordsWereActivated ==
    {current, previous, composed} \subseteq succeeded \cup {None, Broken}

\* From its validation to its last record a deployment works on the checkout
\* of its own revision: no other deployment moves HEAD under it, although only
\* CI does the merging and a manual deployment only the validating
\* (ci-deploy.mk, merge; images.py, validate).
ActivatesItsCheckout ==
    \A d \in Deployer :
        pc[d] \in {"pull", "start", "await"} \cup Recording => want[d] = Revision

\* Workflows finish in any order and wait for each other at the lock, but the
\* releases CI activates never go back (ci-deploy.mk, the stale workflow test).
CINeverGoesBack == [][ciLast' >= ciLast]_vars

\* Unless a deployment died between activation and record, the manifest that
\* `make image-compose' validates, the images it runs and the last successful
\* activation are of one release whenever the lock is free, whatever failed in
\* between (images.py, deploy and operate).
RecordsAgree ==
    lock = Free /\ ~cut => current = last /\ composed = last

\* "The router's existing activation shares this same host lock" (images.py):
\* an activation runs only while its deployment holds the lock.
ActivationHoldsLock ==
    \A d \in Deployer : child[d] \in Running => lock = d

\* "Use the active release for diagnostics and explicit one-shot commands"
\* (images.py, operate): the manifest is validated first and the override read
\* later, without the lock.  With no deployment in between, and none that died
\* before its last record, the images run are those of the release validated.
OperatesActiveRelease == op # None /\ alone /\ ~cut => composed = op

\* Whoever goes by the records, the next deployment or an operator's one-shot
\* command, works with the release that was activated last (images.py, deploy
\* and operate).
ReleaseIsOne == RecordsAgree /\ OperatesActiveRelease
=============================================================================
