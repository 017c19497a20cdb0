------------------------------ MODULE HostInit ------------------------------
(***************************************************************************)
(* Host initialisation (src/scripts/init.sh): every command of deploy.sh   *)
(* runs it as root, under the deployment lock, before anything else.  It   *)
(* seeds what is missing, migrates the state of older checkouts and gives  *)
(* everything to the uid the containers run as.  It may end anywhere: a    *)
(* full disk, a signal, a power loss; the next command runs it again.      *)
(*                                                                         *)
(* Meanwhile a manager may be running, possibly under the uid of an        *)
(* earlier deployment.                                                     *)
(*                                                                         *)
(* A uid stands for uid and gid, an owner for owner and mode: each install *)
(* and chown of a file comes with its chmod.                               *)
(***************************************************************************)
CONSTANTS
    Uid,         \* the uids a command may be given
    Root         \* root, which sudo runs the script as

ASSUME RootAssumption == Root \notin Uid

VARIABLES
    file,        \* what each path holds
    owner,       \* who each file belongs to
    dirOwner,    \* who state/ and runtime/ belong to, Root before the first run
    pc,          \* the statement the script is at; "done": it succeeded
    uid,         \* the uid of the command that runs, or ran last
    manager      \* the uid the manager's container runs as, Root when there is none

vars == <<file, owner, dirOwner, pc, uid, manager>>

Dir   == {"state", "runtime"}
Path  == {"base", "state", "new", "legacy", "output", "active", "previous"}

\* Whole files: the two examples, the base as edited, the subscriptions of an
\* older checkout, and what the manager has written.
Whole == {"example", "edited", "empty", "legacy", "subscribed", "generated"}

\* A file cut off while it was written, nothing, a directory or a symlink.
Cut     == "cut"
Missing == "missing"
Strange == "strange"
Holding == Whole \cup {Cut, Missing, Strange}

Seeded == {"base", "state", "output", "active"}

Stages == {"idle", "state dir", "runtime dir", "check", "base", "base copy", "state",
           "state copy", "state move", "own state", "output", "output copy", "active",
           "active copy", "own runtime", "done"}

\* A fresh checkout, one of an older version with its subscriptions and its
\* generated configuration, or a deployment that already runs.
Init ==
    /\ file \in [Path -> Holding]
    /\ file["base"]   \in {"edited", Missing}
    /\ file["legacy"] \in {"legacy", Missing, Strange}
    /\ file["output"] \in {"generated", Missing}
    /\ \/ file["state"] = Missing /\ file["active"] = Missing
       \/ /\ file["state"] \in {"subscribed", "legacy"} /\ file["active"] = "generated"
          /\ file["base"] # Missing /\ file["output"] # Missing
    /\ file["new"] = Missing /\ file["previous"] = Missing
    /\ owner \in {[p \in Path |-> u] : u \in Uid \cup {Root}}
    /\ dirOwner = [d \in Dir |-> owner["output"]]
    /\ pc = "idle" /\ uid \in Uid
    /\ manager \in {Root, owner["output"]}

Goto(stage) == pc' = stage

\* set -e: the script ends where it is.
Fail == Goto("idle") /\ UNCHANGED <<file, owner>>

-----------------------------------------------------------------------------
\* deploy.sh has the lock.
Invoke ==
    /\ pc \in {"idle", "done"}
    /\ Goto("state dir")
    /\ uid' \in Uid
    /\ UNCHANGED <<file, owner, dirOwner, manager>>

\* Mutant: a directory that exists keeps its owner.
OwnDirOnce(d) == dirOwner' = [dirOwner EXCEPT ![d] = IF @ = Root THEN uid ELSE @]

\* install -d, on a directory that exists too.
OwnDir(d) == dirOwner' = [dirOwner EXCEPT ![d] = uid]

MakeDirs ==
    /\ \/ pc = "state dir"   /\ OwnDir("state")   /\ Goto("runtime dir")
       \/ pc = "runtime dir" /\ OwnDir("runtime") /\ Goto("check")
    /\ UNCHANGED <<file, owner, uid, manager>>

Checked == {"base", "state", "output", "active", "previous"}

CheckFiles ==
    /\ pc = "check"
    /\ IF \E p \in Checked : file[p] = Strange
       THEN Fail
       ELSE Goto("base") /\ UNCHANGED <<file, owner>>
    /\ UNCHANGED <<dirOwner, uid, manager>>

\* install src dst: the file is there, empty, before it is written; the write
\* may fail.
Create(p, u, stage) ==
    /\ file' = [file EXCEPT ![p] = Cut]
    /\ owner' = [owner EXCEPT ![p] = u]
    /\ Goto(stage)

Fill(p, content, stage) ==
    \/ /\ file' = [file EXCEPT ![p] = content]
       /\ Goto(stage)
       /\ UNCHANGED owner
    \/ Fail

ToSeed(p) == file[p] = Missing

\* [[ -f dst ]] || install src dst
Seed(p, stage, copy, content, next) ==
    \/ /\ pc = stage
       /\ IF ToSeed(p)
          THEN Create(p, Root, copy)
          ELSE Goto(next) /\ UNCHANGED <<file, owner>>
    \/ pc = copy /\ Fill(p, content, next)

SeedBase ==
    /\ Seed("base", "base", "base copy", "example", "state")
    /\ UNCHANGED <<dirOwner, uid, manager>>

\* Mutant: what an earlier run has left is good enough.
NewState == IF file["new"] = Missing THEN Create("new", uid, "state copy")
                                     ELSE Goto("state move") /\ UNCHANGED <<file, owner>>

CreateNew == Create("new", uid, "state copy")

\* Mutant: the state is seeded on every run.
AlwaysSeed == TRUE

StateMissing == file["state"] = Missing

\* The state is written beside its place and moved there.  The subscriptions
\* of an older checkout come before the empty example.
SeedState ==
    /\ \/ /\ pc = "state"
          /\ IF ~StateMissing
             THEN Goto("own state") /\ UNCHANGED <<file, owner>>
             ELSE IF file["legacy"] = Strange
             THEN Fail
             ELSE CreateNew
       \/ /\ pc = "state copy"
          /\ Fill("new", IF file["legacy"] = Missing THEN "empty" ELSE file["legacy"],
                  "state move")
       \/ /\ pc = "state move"
          /\ \/ /\ file' = [file EXCEPT !["state"] = file["new"], !["new"] = Missing]
                /\ owner' = [owner EXCEPT !["state"] = owner["new"]]
                /\ Goto("own state")
             \/ Fail
    /\ UNCHANGED <<dirOwner, uid, manager>>

SeedOutput ==
    /\ Seed("output", "output", "output copy", file["base"], "active")
    /\ UNCHANGED <<dirOwner, uid, manager>>

\* An older checkout's generated configuration is the first active one.
FirstActive == file["output"]

SeedActive ==
    /\ Seed("active", "active", "active copy", FirstActive, "own runtime")
    /\ UNCHANGED <<dirOwner, uid, manager>>

\* chown and chmod; they fail when a path is gone.
Own(stage, paths, next) ==
    /\ pc = stage
    /\ IF \E p \in paths : file[p] = Missing
       THEN Fail
       ELSE /\ owner' = [p \in Path |-> IF p \in paths THEN uid ELSE owner[p]]
            /\ Goto(next)
            /\ UNCHANGED file
    /\ UNCHANGED <<dirOwner, uid, manager>>

OwnFiles ==
    \/ Own("own state", {"base", "state"}, "output")
    \/ Own("own runtime", {"output", "active"}, "done")

\* A signal, a power loss, or any command that fails.
Stop ==
    /\ pc \notin {"idle", "done"}
    /\ Fail
    /\ UNCHANGED <<dirOwner, uid, manager>>

-----------------------------------------------------------------------------
\* What follows a successful run: the manager is started for its uid, and the
\* generated configuration becomes the active one.
StartManager ==
    /\ pc = "done"
    /\ manager' = uid
    /\ UNCHANGED <<file, owner, dirOwner, pc, uid>>

Activate ==
    /\ pc = "done"
    /\ file' = [file EXCEPT !["previous"] = file["active"], !["active"] = file["output"]]
    /\ owner' = [owner EXCEPT !["previous"] = uid, !["active"] = uid]
    /\ UNCHANGED <<dirOwner, pc, uid, manager>>

\* The manager replaces a file by renaming over it, if it may write to the
\* directory then.  What it has read, it has read earlier.
Replace(p, d, content) ==
    /\ manager # Root /\ dirOwner[d] = manager
    /\ file' = [file EXCEPT ![p] = content]
    /\ owner' = [owner EXCEPT ![p] = manager]
    /\ UNCHANGED <<dirOwner, pc, uid, manager>>

Publish ==
    /\ file["base"] # Missing
    /\ Replace("output", "runtime", "generated")

AddSubscription ==
    /\ file["state"] # Missing
    /\ Replace("state", "state", "subscribed")

\* sudoedit config.json, at any time.
Edit ==
    /\ file["base"] \in Whole
    /\ file' = [file EXCEPT !["base"] = "edited"]
    /\ UNCHANGED <<owner, dirOwner, pc, uid, manager>>

\* docker compose up by hand makes a directory of a missing file it mounts.
ComposeUp ==
    /\ pc = "idle"
    /\ \E p \in {"base", "active"} :
          file[p] = Missing /\ file' = [file EXCEPT ![p] = Strange]
    /\ UNCHANGED <<owner, dirOwner, pc, uid, manager>>

Script == \/ MakeDirs \/ CheckFiles \/ SeedBase \/ SeedState \/ SeedOutput \/ SeedActive
          \/ OwnFiles

Next == \/ Invoke \/ Script \/ Stop
        \/ StartManager \/ Activate \/ Publish \/ AddSubscription \/ Edit \/ ComposeUp

Spec == Init /\ [][Next]_vars

-----------------------------------------------------------------------------
\* Types; and what is in state/ is never a file cut off, although runs end
\* while they write it (init.sh:24-25).
TypeOK ==
    /\ file \in [Path -> Holding]
    /\ owner \in [Path -> Uid \cup {Root}]
    /\ dirOwner \in [Dir -> Uid \cup {Root}]
    /\ pc \in Stages /\ uid \in Uid /\ manager \in Uid \cup {Root}
    /\ file["state"] \notin {Cut, Strange}

\* After a successful run every file is a regular one of the uid asked for,
\* in a directory of that uid, also when another uid was deployed before and
\* its manager still runs and replaces files (init.sh:8-16, 27-32).
SuccessIsOwned ==
    pc = "done" =>
        /\ \A p \in Seeded : file[p] \notin {Missing, Strange} /\ owner[p] = uid
        /\ \A d \in Dir : dirOwner[d] = uid

\* Subscriptions are never lost: a state that is there is replaced by the
\* manager only, and the first one is that of the older checkout if there is
\* one, however often a run is cut off and started again (init.sh:18-26;
\* README.md:52-57).
SubscriptionsSurvive ==
    [][/\ file["state"] # Missing /\ file'["state"] # file["state"] => AddSubscription
       /\ file["state"] = Missing /\ file'["state"] # Missing =>
             file'["state"] = IF file["legacy"] = Missing THEN "empty" ELSE "legacy"]_vars

\* A snapshot that is active is not seeded again; it changes only when a
\* command activates another, and first holds what was generated before
\* (init.sh:30; README.md:44-51).
ActiveIsKept ==
    [][/\ file["active"] \in Whole /\ file'["active"] # file["active"] => pc = "done"
       /\ file["active"] = Cut /\ file'["active"] # Cut => file'["active"] = file["output"]]_vars

\* Runs of the script, cut off and repeated, take nothing away that the
\* service has come to hold (init.sh:18-30).
NothingIsLost == SubscriptionsSurvive /\ ActiveIsKept
=============================================================================
