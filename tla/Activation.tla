----------------------------- MODULE Activation -----------------------------
(***************************************************************************)
(* Activation of a generated configuration (src/scripts/deploy.sh): make   *)
(* deploy, refresh, add and rollback, run by any number of operators under *)
(* the host lock, against a router that bind-mounts runtime/active.json    *)
(* and a manager that replaces runtime/config.json whenever it likes.      *)
(* Commands are interrupted, killed, and lost with the host.               *)
(*                                                                         *)
(* The router reads its file when its container starts, so what it runs    *)
(* and what active.json holds are two things.  deploy, refresh and add     *)
(* differ only in what they ask of the manager and are one action here.    *)
(***************************************************************************)
EXTENDS Naturals

CONSTANTS
    Script,      \* commands that may be in flight at once
    Content,     \* contents of a configuration file
    Working,     \* those with which the router is healthy and passes the smoke test
    Missing,     \* no such file
    Down,        \* no router container runs
    Free         \* nobody holds .deploy.lock

ASSUME ContentAssumption == /\ Working \subseteq Content
                            /\ Missing \notin Content
                            /\ Down \notin Content
ASSUME ScriptAssumption  == Free \notin Script

VARIABLES
    lock,        \* the flock on .deploy.lock: its holder, or Free
    config,      \* runtime/config.json, the manager's output
    active,      \* runtime/active.json
    previous,    \* runtime/previous.json
    recovery,    \* each command's runtime/.rollback.* file
    router,      \* the content the running router has read
    pc,          \* where each command stands
    action,      \* what each command was asked to do
    result,      \* how each command ended
    held,        \* history: active and previous when the lock was last taken
    settled      \* history: the last activation ended with a verified router

vars == <<lock, config, active, previous, recovery, router, pc, action,
          result, held, settled>>

Actions == {"apply", "rollback"}
Results == {"none", "unchanged", "ok", "restored", "intervention", "died"}

Early      == {"lock", "start", "save"}
Armed      == {"activate", "recreate", "verify", "swap", "disarm"}
Restoring  == {"restore", "rerecreate", "reverify"}
Stages     == {"idle", "cleanup", "exit"} \cup Early \cup Armed \cup Restoring

Goto(s, stage) == pc' = [pc EXCEPT ![s] = stage]

\* The command ends: its message and exit code are decided, the lock is still
\* held.
End(s, outcome) ==
    /\ Goto(s, "exit")
    /\ result' = [result EXCEPT ![s] = outcome]

\* Mutant: an explicit rollback would restore the file it is rolling back to.
AlwaysPrevious(s) == previous

\* $recovery: the snapshot restore() goes back to.
RecoveryFile(s) == IF action[s] = "rollback" THEN recovery[s] ELSE previous

\* $candidate: the file that is activated.
Candidate(s) == IF action[s] = "rollback" THEN previous ELSE config

Init ==
    /\ lock = Free
    /\ config \in Content
    /\ active \in Content
    /\ previous \in Content \cup {Missing}
    /\ recovery = [s \in Script |-> Missing]
    /\ router \in {active, Down}
    /\ pc = [s \in Script |-> "idle"]
    /\ action = [s \in Script |-> "apply"]
    /\ result = [s \in Script |-> "none"]
    /\ held = [active |-> active, previous |-> previous]
    /\ settled = FALSE

-----------------------------------------------------------------------------
(***************************************************************************)
(* Before anything is activated: an error or a signal ends the command.    *)
(***************************************************************************)
Invoke(s) ==
    /\ pc[s] = "idle"
    /\ \E a \in Actions : action' = [action EXCEPT ![s] = a]
    /\ result' = [result EXCEPT ![s] = "none"]
    /\ Goto(s, "lock")
    /\ UNCHANGED <<lock, config, active, previous, recovery, router, held,
                   settled>>

LockFree == lock = Free

\* flock -x 9, then the script of the current checkout is executed.
Acquire(s) ==
    /\ pc[s] = "lock"
    /\ LockFree
    /\ lock' = s
    /\ held' = [active |-> active, previous |-> previous]
    /\ Goto(s, "start")
    /\ UNCHANGED <<config, active, previous, recovery, router, action, result,
                   settled>>

\* Seeding, manager start, its readiness and the POST.  The manager answers
\* once it has published a new generation; anything else ends the command.
Generate(s) ==
    /\ pc[s] = "start" /\ action[s] = "apply"
    /\ \/ config' \in Content /\ Goto(s, "save") /\ UNCHANGED result
       \/ End(s, "unchanged") /\ UNCHANGED config
    /\ UNCHANGED <<lock, active, previous, recovery, router, action, held,
                   settled>>

\* The active file becomes the rollback target.
SavePrevious(s) ==
    /\ pc[s] = "save"
    /\ \/ previous' = active /\ Goto(s, "activate") /\ UNCHANGED result
       \/ End(s, "unchanged") /\ UNCHANGED previous
    /\ UNCHANGED <<lock, config, active, recovery, router, action, held, settled>>

\* Mutant: a rollback is activated without a recovery copy.
PrepareNoCopy(s) ==
    /\ pc[s] = "start" /\ action[s] = "rollback"
    /\ previous # Missing
    /\ Goto(s, "activate")
    /\ UNCHANGED <<lock, config, active, previous, recovery, router, action,
                   result, held, settled>>

\* A rollback needs a previous snapshot and copies the active file aside.
PrepareRollback(s) ==
    /\ pc[s] = "start" /\ action[s] = "rollback"
    /\ \/ /\ previous # Missing
          /\ recovery' = [recovery EXCEPT ![s] = active]
          /\ Goto(s, "activate")
          /\ UNCHANGED result
       \/ End(s, "unchanged") /\ UNCHANGED recovery
    /\ UNCHANGED <<lock, config, active, previous, router, action, held, settled>>

(***************************************************************************)
(* From here on the EXIT trap restores: a failed command or a signal.      *)
(***************************************************************************)

\* The candidate is read and renamed over active.json; the router still runs
\* the old content.
Activate(s) ==
    /\ pc[s] = "activate"
    /\ \/ active' = Candidate(s) /\ settled' = FALSE /\ Goto(s, "recreate")
       \/ Goto(s, "restore") /\ UNCHANGED <<active, settled>>
    /\ UNCHANGED <<lock, config, previous, recovery, router, action, result, held>>

\* docker compose up --force-recreate: it may fail before the old container
\* is gone, after that, or once the new one runs.
RecreateTo(s, next, failed) ==
    \/ router' = active /\ next
    \/ router' \in {router, Down, active} /\ failed

\* Mutant: the container is brought up but not recreated.
RecreateLazily(s) ==
    /\ pc[s] = "recreate"
    /\ router' = IF router = Down THEN active ELSE router
    /\ Goto(s, "verify")
    /\ UNCHANGED <<lock, config, active, previous, recovery, action, result, held,
                   settled>>

Recreate(s) ==
    /\ pc[s] = "recreate"
    /\ RecreateTo(s, Goto(s, "verify"), Goto(s, "restore"))
    /\ UNCHANGED <<lock, config, active, previous, recovery, action, result, held,
                   settled>>

\* router_ready: container health and an HTTPS request, up to 30 times.
Verify(s) ==
    /\ pc[s] = "verify"
    /\ \/ /\ router \in Working
          /\ settled' = TRUE
          /\ Goto(s, IF action[s] = "rollback" THEN "swap" ELSE "disarm")
       \/ Goto(s, "restore") /\ UNCHANGED settled
    /\ UNCHANGED <<lock, config, active, previous, recovery, router, action,
                   result, held>>

\* A successful rollback makes the original config the previous one.
SwapPrevious(s) ==
    /\ pc[s] = "swap"
    /\ \/ previous' = recovery[s] /\ Goto(s, "disarm")
       \/ Goto(s, "restore") /\ UNCHANGED previous
    /\ UNCHANGED <<lock, config, active, recovery, router, action, result, held,
                   settled>>

\* trap - EXIT INT TERM.
Disarm(s) ==
    /\ pc[s] = "disarm"
    /\ Goto(s, "cleanup")
    /\ UNCHANGED <<lock, config, active, previous, recovery, router, action,
                   result, held, settled>>

\* The recovery copy is removed and success reported.
Cleanup(s) ==
    /\ pc[s] = "cleanup"
    /\ recovery' = [recovery EXCEPT ![s] = Missing]
    /\ End(s, "ok")
    /\ UNCHANGED <<lock, config, active, previous, router, action, held, settled>>

(***************************************************************************)
(* restore(): it clears the traps first, so a second signal ends it.       *)
(***************************************************************************)
RestoreActive(s) ==
    /\ pc[s] = "restore"
    /\ \/ /\ active' = RecoveryFile(s)
          /\ settled' = FALSE
          /\ Goto(s, "rerecreate")
          /\ UNCHANGED result
       \/ End(s, "intervention") /\ UNCHANGED <<active, settled>>
    /\ UNCHANGED <<lock, config, previous, recovery, router, action, held>>

RestoreRecreate(s) ==
    /\ pc[s] = "rerecreate"
    /\ RecreateTo(s, Goto(s, "reverify") /\ UNCHANGED result,
                  End(s, "intervention"))
    /\ UNCHANGED <<lock, config, active, previous, recovery, action, held, settled>>

RestoreVerify(s) ==
    /\ pc[s] = "reverify"
    /\ \/ /\ router \in Working
          /\ settled' = TRUE
          /\ recovery' = [recovery EXCEPT ![s] = Missing]
          /\ End(s, "restored")
       \/ End(s, "intervention") /\ UNCHANGED <<recovery, settled>>
    /\ UNCHANGED <<lock, config, active, previous, router, action, held>>

\* Mutant: only a command that succeeded gives the lock back.
ReleaseOnSuccess(s) ==
    lock' = IF lock = s /\ result[s] = "ok" THEN Free ELSE lock

\* The process ends and with it its lock.
Release(s) == lock' = IF lock = s THEN Free ELSE lock

Exit(s) ==
    /\ pc[s] = "exit"
    /\ Goto(s, "idle")
    /\ Release(s)
    /\ UNCHANGED <<config, active, previous, recovery, router, action, result,
                   held, settled>>

-----------------------------------------------------------------------------
(***************************************************************************)
(* The environment.                                                        *)
(***************************************************************************)

\* INT or TERM.  Bash acts on it once the command it waits for has ended.
Interrupt(s) ==
    /\ \/ pc[s] \in Armed /\ Goto(s, "restore") /\ UNCHANGED result
       \/ pc[s] \in Early \cup Restoring \cup {"cleanup"} /\ End(s, "died")
    /\ UNCHANGED <<lock, config, active, previous, recovery, router, action, held,
                   settled>>

\* SIGKILL: no trap runs.
Kill(s) ==
    /\ pc[s] # "idle"
    /\ Goto(s, "idle")
    /\ result' = [result EXCEPT ![s] = "died"]
    /\ Release(s)
    /\ UNCHANGED <<config, active, previous, recovery, router, action, held,
                   settled>>

\* The host goes down and comes back: files stay, restart: unless-stopped.
PowerLoss ==
    /\ pc' = [s \in Script |-> "idle"]
    /\ result' = [s \in Script |-> IF pc[s] = "idle" THEN result[s] ELSE "died"]
    /\ lock' = Free
    /\ router' = IF router = Down THEN Down ELSE active
    /\ UNCHANGED <<config, active, previous, recovery, action, held, settled>>

\* The container restarts by itself and mounts the file of that moment.
RouterRestart ==
    /\ router # Down
    /\ router' = active
    /\ UNCHANGED <<lock, config, active, previous, recovery, pc, action, result,
                   held, settled>>

\* A background refresh of the manager, or a POST whose client gave up.
BackgroundRefresh ==
    /\ config' \in Content
    /\ UNCHANGED <<lock, active, previous, recovery, router, pc, action, result,
                   held, settled>>

Step(s) == \/ Acquire(s) \/ Generate(s) \/ SavePrevious(s) \/ PrepareRollback(s)
           \/ Activate(s) \/ Recreate(s) \/ Verify(s) \/ SwapPrevious(s)
           \/ Disarm(s) \/ Cleanup(s) \/ RestoreActive(s) \/ RestoreRecreate(s)
           \/ RestoreVerify(s) \/ Exit(s)

Next ==
    \/ \E s \in Script : Invoke(s) \/ Step(s) \/ Interrupt(s) \/ Kill(s)
    \/ PowerLoss \/ RouterRestart \/ BackgroundRefresh

Spec == Init /\ [][Next]_vars

(***************************************************************************)
(* A command that holds the lock goes on: every request it makes has a     *)
(* limit and every wait is a counted loop.  docker itself is trusted to    *)
(* return.  Nothing is assumed about who gets the lock next.               *)
(***************************************************************************)
FairSpec == Spec /\ \A s \in Script : WF_vars(lock = s /\ Step(s))

-----------------------------------------------------------------------------
\* Types; in particular active.json is always there once seeded.
TypeOK ==
    /\ lock \in Script \cup {Free}
    /\ config \in Content /\ active \in Content
    /\ previous \in Content \cup {Missing}
    /\ recovery \in [Script -> Content \cup {Missing}]
    /\ router \in Content \cup {Down}
    /\ pc \in [Script -> Stages]
    /\ action \in [Script -> Actions]
    /\ result \in [Script -> Results]
    /\ held \in [active : Content, previous : Content \cup {Missing}]
    /\ settled \in BOOLEAN

\* A command that reports success leaves the router running exactly the
\* active file, verified, with the config that ran before one rollback away;
\* a rollback has exchanged the two (deploy.sh:87-89, 103-113).
SuccessIsLive ==
    \A s \in Script :
        pc[s] = "exit" /\ result[s] = "ok" =>
            /\ router = active /\ active \in Working
            /\ previous = held.active
            /\ action[s] = "rollback" => active = held.previous

\* A failed activation that reports nothing worse ends where it began: the
\* active file and the running router are the originals, verified again
\* (deploy.sh:91-100).
FailureIsUndone ==
    \A s \in Script :
        pc[s] = "exit" /\ result[s] = "restored" =>
            /\ active = held.active
            /\ router = active /\ active \in Working

\* A command that fails before activation changed neither snapshot
\* (deploy.sh:23-29, 54-86).
EarlyFailureIsHarmless ==
    \A s \in Script :
        pc[s] = "exit" /\ result[s] = "unchanged" =>
            active = held.active /\ previous = held.previous

\* A command that fails leaves the host as it found it, wherever it failed,
\* unless it says that even the restore has (deploy.sh:23-29, 54-100).
FailureRestores == FailureIsUndone /\ EarlyFailureIsHarmless

\* As long as a restore may still run, the file it would restore from holds
\* the original active config, whatever the manager and other commands do
\* meanwhile (deploy.sh:54-58, 87-101).
RestoreHasTheOriginal ==
    \A s \in Script :
        pc[s] \in Armed \cup {"restore"} => RecoveryFile(s) = held.active

\* The config that was active when a command took the lock is in one of the
\* files until the next command does, through signals, SIGKILL and power
\* loss (deploy.sh:54-58, 87-112).
OriginalIsOnDisk ==
    held.active \in {active, previous} \cup {recovery[s] : s \in Script}

\* The config that was active is where it is needed: where a restore looks for
\* it, and somewhere on the disk when no restore can run (deploy.sh:54-112).
OriginalIsSafe == RestoreHasTheOriginal /\ OriginalIsOnDisk

\* Once an activation has been verified, the router runs the active file and
\* keeps doing so until the next activation, restarts and background
\* refreshes included (deploy.sh:39-53, 103-105).
VerifiedRouterStays == settled => router = active /\ active \in Working

\* A command that has the lock gives it back (deploy.sh:42-52, 73-85, 91-113).
LockIsReturned == \A s \in Script : lock = s ~> lock # s

\* README.md:103-105 and deploy-smoke.sh:117-121: only a successful rollback
\* swaps the previous snapshot; a failed one leaves it.
FailedRollbackKeepsPrevious ==
    \A s \in Script :
        pc[s] = "exit" /\ action[s] = "rollback" /\ result[s] = "restored" =>
            previous = held.previous
=============================================================================
