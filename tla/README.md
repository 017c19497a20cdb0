# Formal model of the egress router

TLA+ specifications of the egress router's control software, the TLC runs that
check them on small instances, and TLAPS proofs of their main theorems. File and
line numbers refer to `src/`; "main.go" is `subscription-manager/main.go` and
"deploy.sh" is `scripts/deploy.sh`.

## 1. The system

A host runs two containers. **egress-router** is sing-box, a proxy that reads
`runtime/active.json` once, when its container starts. **subscription-manager**
is a Go service on localhost:19091 that owns `state/subscriptions.json` and
generates `runtime/config.json` from it. Commands run by operators and by CI copy
the generated configuration into the active one, recreate the router, verify it,
and undo the change when it does not work. All commands share one `flock` on
`.deploy.lock`; the manager's background refreshes and direct API callers do not
take it.

```
 providers --HTTPS--> subscription-manager --rename--> runtime/config.json
                       ^ POST /refresh, /subscriptions        |
 make add/refresh/     |                                      | deploy.sh: copy
 deploy/rollback --> deploy.sh (flock) ----------------> runtime/active.json
 images.py, CI   ------^        \--- docker recreate --> egress-router (reads it)
```

### Inventory

| component | state | operations | what is hard | what makes it correct |
|---|---|---|---|---|
| manager: transactions (main.go:406-711) | `subscriptions.json`, `config.json`, the mutex `mu`, the health record, the refresh timer | GET /health, GET /subscriptions, POST /subscriptions, POST /refresh, background refresh, shutdown | long transactions of concurrent goroutines; two files committed by two renames; rollback that fails; kill at any stage; health read without the transaction lock | no lost add, no half-seen add, nothing unvalidated published, health tells the truth, refreshes recur, a crash is repaired |
| manager: generation (main.go:136-370, 489-548) | none | decode, parse, tag, deduplicate, extend selectors | tags built from names that contain the separator; deduplication against tag registration; one URI spelled in many ways | tags unique, every selector member exists, nothing a URI asks for is dropped |
| activation (deploy.sh) | `active.json`, `previous.json`, `.rollback.*`, lock, the router's running content | deploy, refresh, add, rollback | EXIT/INT/TERM traps, a restore that fails or is signalled, SIGKILL, power loss, router restarts, background refreshes | success is what runs; failure restores; the original is never lost; the lock is returned |
| router (docker-compose.yaml) | content it has read | start, restart, recreate | reads its file later than the file changes | runs the active file |
| host initialisation (init.sh) | the files above before anybody has made them, their owner | init | a run that ends anywhere and is started again; a manager of another uid that still runs | subscriptions survive, everything has its owner, nothing is seeded twice |
| image releases (images.py) | `.images/{requested,current,previous,compose}.json` | build, publish, deploy, compose | lock held by a parent of the activating process; several files updated after the services | records name what runs |
| CI deployment (ci-deploy.mk) | checkout, lock | ci-deploy | main moves while pulling; nested lock | only the tested head of main is deployed |
| router snapshots (snapshot-router.py) | backup directory, the manager's paused state | snapshot | a signal between pause and unpause | the manager is unpaused; COMPLETE only after verification |
| catalog shadow client (shadow.go) | `catalog-shadow.json`, a temporary file | one run, possibly beside others | expiry during validation; the output path relinked meanwhile; signals | only a fresh, validated candidate is published, never a live file |
| node URI parser (parse.go) | none | parse | the manager's parser, copied | the same outbounds as the manager's |
| gRPC bindings | none | generated | - | - |
| Telegram redirect (telemt-egress-tproxy.sh and .service) | nftables table, the unit | ready, start, restart, stop | the listener goes after it was seen; a reload that fails | atomic replacement, no rules that cut telemt off |

Interactions: deploy.sh calls the manager over HTTP and reads the file it
renames; images.py and ci-deploy.mk run deploy.sh under a lock they already
hold; snapshot-router.py takes the same lock and pauses the manager's process;
the router reads the file that deploy.sh renames; init.sh is run by deploy.sh under
the same lock, before the manager is started; the catalog client reads the base
configuration and writes a file of its own; the Telegram redirect only asks whether
the router listens.

The hazards of this code, each at its line and with the properties that watch it, are
listed in `PROJECT.json` under `hazards`; what no property can reach is in section 6.

## 2. Modules

| module | models |
|---|---|
| `SubscriptionManager` | the manager as a concurrent transaction system |
| `Subscriptions` | states, configurations and the pure operators on them |
| `SubscriptionStore` | abstract specification: what the manager promises |
| `SubscriptionManagerRefinement` | the mapping from the manager to the store |
| `MCSubscriptionManager` | constants of its runs |
| `SubscriptionManagerProofs` | theorems about the manager and about the mapping |
| `Activation` | deploy.sh and the router, with the manager as an environment |
| `MCActivation` | constants of its runs |
| `ConfigBuild` | the loops of buildState that make a configuration of the providers' answers |
| `ConfigBuildReference` | what they should make of them, stated without loops |
| `MCConfigBuild` | constants of its run |
| `ConfigBuildProofs` | theorems about it |
| `ImageDeploy` | `make ci-deploy`, `image-deploy` and `image-compose` around an activation |
| `MCImageDeploy` | constants of its runs |
| `ImageDeployProofs` | theorems about it |
| `SnapshotRouter` | snapshot-router.py: a backup beside deployments and refreshes |
| `MCSnapshotRouter` | constants of its runs |
| `SnapshotRouterProofs` | theorems about it |
| `EgressRouter` | composition: the commands of deploy.sh as clients of the manager's store |
| `MCEgressRouter` | constants of its runs |
| `EgressRouterProofs` | theorems about Activation and about the composition |
| `NodeUri` | parseURI: which outbound a URI stands for, if any (operators only) |
| `CatalogCandidate` | the loop of the catalog client that makes a candidate |
| `NodeParsing` | what the parser's results have to do with the URIs of the nodes |
| `CatalogComparison` | the candidate beside the manager's configuration of the same nodes |
| `MCCatalogCandidate` | constants of the run of these three |
| `CatalogCandidateProofs` | theorems about the parser and the client's loop |
| `CatalogShadow` | whole runs of the catalog client under a clock |
| `MCCatalogShadow` | constants of its runs |
| `CatalogShadowProofs` | theorems about it |
| `HostInit`, `MCHostInit` | init.sh, ended anywhere and run again |
| `TelemtRedirect`, `MCTelemtRedirect` | the tproxy script and its systemd unit |
| `HostProofs` | theorems about these two |

### SubscriptionManager

One process variable (`proc`: up, draining, down), the mutex `mu`, one program
counter and one record of local variables per goroutine (`pc`, `tx`), the fields
`healthMu` guards (`health`) and the two files (`stateFile`, `output`).
`visible` is a history variable: the names a client has been told are subscribed,
by the 200 of its add or in a listing.

A stage of `update()` is an action: `Begin` (main.go:408), `ReadState` (435-448),
`Build` (453-571), `Validate` (572), `Persist` (575-581), `Publish` (582),
`Rollback` (584), `Record` (the deferred closure, 413-434), `Unlock` (409). The
file operations and the mutex are the points other goroutines and a crash can
tell apart; what lies between two of them touches locals only. Every stage that
can return an error has a disjunct that does. `Request`, `ListSubscriptions` and
`Reply` are the HTTP routes; a refused body (400 before `update`) changes nothing
and is no action, and GET /health is the operator `Ready`, a single read under
`healthMu`. `Rearm`, `Fire`, `Shutdown` and `Start` are the cases of `run()`'s
select and its beginning; `Halt` is the end of the process in any way, between
any two steps of any goroutine.

Abstractions: a state is the *set* of its subscriptions (their order decides only
which of two equal nodes keeps its tag); a configuration is the subscriptions it
was built from, its node count and whether sing-box accepts it; time stamps are
absent (health needs only whether one was set); `skippedNodes` travels with
`nodes` in the same two assignments and is not a variable of its own. Errors are
none, "failed" and the one message that differs in meaning, that of a failed
rollback. The number of nodes is capped by `MaxNodes`. Renames are durable: the
code never syncs, and a power loss that loses a completed rename is outside the
model. `lastError` cleared by a restart is modelled (`Halt` resets `health`).

### Activation

`active`, `previous`, `recovery[s]` and `config` are the contents of the four
kinds of file; `router` is the content the running container has read. `pc`
follows the script's commands; `held` (history) is what `active` and `previous`
were when the lock was taken, and `settled` (history) whether the last activation
ended verified. `Generate` is init, manager start, readiness loop and POST; the
three actions that generate differ only in the request and are one. Signals are
`Interrupt`: before the traps are set and while `restore()` runs they end the
script, in between they lead to `restore()`. `Kill` is SIGKILL, `PowerLoss` takes
every process, `RouterRestart` is Docker's restart policy and
`BackgroundRefresh` the manager replacing `config.json` whenever it likes, which
includes a POST whose client gave up after 300 s.

Contents are members of `Content`; those in `Working` make the router healthy and
may pass the smoke test. Every command of the script may fail. `snapshot` is
atomic in its effect on its target (install to `.new`, then `mv`); `.new` is
always rewritten before it is used and is left out.

### SubscriptionStore and the refinement

`SubscriptionStore` is the manager as its clients may think of it: the
subscriptions that count, the configuration published, and the names clients know.
`Commit` changes subscriptions and configuration together, `Tell` informs clients;
`StoreOnly` is the one admitted exception, an add that was cut off after its
subscription was stored. `SubscriptionManagerRefinement` maps the manager to it: the
subscriptions that count are those on disk, except that while the holder of `mu`
is between its two renames (`publish`, `rollback`) they are the ones it found.
The rename of the configuration (main.go:582) is therefore the point at which an
add takes effect; a successful rollback is a stutter; a death between the renames
and a rollback that fails are `StoreOnly`. Listings, replies, failures and health
change nothing the store can see, except `visible`.

### ConfigBuild

`SubscriptionManager` takes the making of a configuration as one step (`Build`); this
module is what happens inside it, main.go:452-548. It is a sequential computation with
its inputs chosen at the start (the base configuration, the subscriptions' names) and
on the way (each provider's answer). Each turn of a loop is an action: `ReadBase`
(453-477), `CheckNames` (482-488), `Fetch` (489-493), `ReadLine` and `EndText`
(decodeBody, 136-161, and the check of its result, 494-497), `Node` with its two
alternatives `SkipNode` and `AcceptNode` (499-527), `EndProvider` (528-531) and
`Assemble` (532-549). An error return is `pc = "refused"`.

A tag is the sequence of its pieces between hyphens, since what can go wrong is that
two subscriptions and nodes are joined to one tag; replacing unsafe characters and
cutting node names is in the constants `Norm` and `Label`. `Parsed` says which
outbound a URI stands for; two outbounds are the same item exactly if their
fingerprints (514-522) are equal. The text of warnings is left out, their place is
kept.

`ConfigBuildReference` states the result without the loops: `Acceptable` says which
inputs a configuration can be built from, in terms that do not depend on the order of
subscriptions, and `IsConfiguration` what it then is: base outbounds, the first of every
class of equal nodes in the order of their places, and their tags in front of the two
groups' members. A place is a pair of a subscription and a line; lists are described by
what they have and in which order (`Enumerates`), and what a body means by the number its
lines have without the comments (`Keeps`).

### ImageDeploy

A deployment `d` is one `make ci-deploy` or `make image-deploy`: `pc[d]` follows the
commands of ci-deploy.mk:15-26 and then those of `deploy()`, images.py:217-253; a
manual deployment starts at `validate`. `lock` is `.deploy.lock`; `child[d]` is the
deploy.sh it started, with three stages (before its traps are set, activating,
restoring), which outlives its parent. `origin`, `main` and `head` are the commits
that `git fetch`, `git merge` and `git rev-parse HEAD` see; a release is the number
of its commit. `current`, `previous` and `composed` are the files of `.images/`.
`Interrupt` is Control-C to the process group: Python's `subprocess.run` waits a
quarter of a second for make and leaves, the descriptor and with it the lock are
gone, deploy.sh's traps run `restore()`. `Kill` takes the deploying process alone,
at any stage, possibly between opening a record (which truncates it) and writing
it. `OperateRead` and `OperateRun` are the two reads of `operate()`, which takes
no lock. `succeeded`, `last`, `ciLast`, `cut` and `alone` are history variables.

Left out: the content of manifests (service lists, digests, aliases: `validate`
either passes or fails, except for the revision, which is compared),
`requested.json` (nothing reads it), Docker's registry login. An operator is
assumed not to check out another commit under a deployment in progress.

The theorems about Activation are about commands that hold the lock. An orphaned
activation, which ImageDeploy shows to be possible, is outside them.

### SnapshotRouter

A run `s` of the script follows `pc[s]`: the lock, the inspections (`Inspect`
decides, line 197, whether the manager will be paused), the try block (`pause`,
`copy`, `tree`), the finally clause, and the stages after it. `raising[s]` is the
exception that is unwinding through the finally clause. `manager` is the
manager's container. `host` keeps four of the host's files apart by version
numbers: the manager's state and generated configuration, the active
configuration and the one mounted into the running router; `captured[s]` is what a
run has copied of them, and `moments` (history) every state `host` has had since
a backup last took the lock. The worktree is archived file by file
(`CopyTree`), in any order, since `os.walk` promises none. `Fail` ends a stage
by an exception, `Interrupt` is one of the three signals whose handler raises,
`Kill` is SIGKILL or power loss. `stuck` (history) holds the runs whose unpause
failed, be it docker's failure or that of the file its output goes to, or was skipped
by a signal in the finally clause.

The writers are those of the other modules reduced to what a backup can see:
`ManagerWrites` changes state and configuration without any lock, unless the
manager is paused;
`Deployment` holds the lock while it replaces files. Left out: formats, hashes,
free space, images, host files and nft rules (`SaveImages` and `Verify` either
pass or fail). The operator is assumed to leave the manager alone while somebody
holds the lock; an orphaned activation (see `activation_lock`) would break
`SnapshotIsOneMoment` and is excluded.

### EgressRouter

The commands of `Activation` and the manager of `SubscriptionStore` share
`config.json`; the store's `published` is Activation's `config`. What Activation
takes as one action, `Generate`, is here a request and an answer: `Post` (deploy.sh:70-83),
`Serve` (the manager commits), `Answer`, and `NoAnswer` for an error, a timeout or a
manager that does not start. A request whose client gave up may be served later
(`ManagerAlone`), and one that was served may never be heard of. All other steps of
a command are Activation's own (`Proceed`). `ManagerAlone` also has the background
refreshes and the clients that use the API without deploy.sh. `heard` (history) is what
clients had been told when a request was made.

The files of `runtime/` hold `Seed`, the base configuration that init.sh installs, or
what sing-box has accepted (`ContentIsValid`). The two refinements of the composition
need no mapping beyond that substitution: `ImplementsActivation` is the specification of
deploy.sh with an arbitrary environment, `ImplementsStore` that of the manager.

### NodeUri, NodeParsing

`ParseURI` is main.go:163-368 from the URI that `net/url` returns: `WellFormed` has the
checks made of every URI, `Supported` those of one protocol, and the result is the
outbound without its tag. A URI is a record of the parts the code reads, with the query
parameters it asks for. User, password and the decoded form of base64 are sequences of
the pieces between colons, since joining and splitting at colons is all the code does
with them. JSON field names, the splitting of `alpn` and the text of errors are left
out. `Piece` is the set of those pieces. `catalog-client/internal/nodeuri/parse.go` is a
frozen copy and maps to the same operators.

`NodeParsing` speaks of the nodes that the client's loop (`CatalogCandidate`) has given
to the parser. Its properties do not repeat the parser's conditions but compare input
and output: `Demands` lists what a URI asks of a connection, `Offers` what an outbound
has; `Respelled` are other spellings of a node. `MergedMeansSame` is what both callers
rely on when they drop a node whose outbound they have seen.

### CatalogCandidate, CatalogComparison

The part of `Run` between snapshot and candidate, shadow.go:185-238: `ReadBase`, `Node`
for each turn of the loop, `Assemble`. It is a second implementation of what
`ConfigBuild` models, with other rules: one list of nodes, all or nothing, tags by
position. `CatalogComparison` instantiates `ConfigBuildReference` with the snapshot as
the body of a single subscription, gives the client's outbounds the tags the manager would
(`RenamedCandidate`) and asks whether this is the configuration the reference describes
(`MirrorsManager`). The manager takes its tags from subscription and node, so it refuses
snapshots that the client, whose tags name a place, accepts; about those it says nothing.

### CatalogShadow

A run `r` follows `pc[r]` through `run()` (main.go of the client) and `Run()`: flags,
output path, token and connection at `Invoke`; `Guard`; the RPC (`Request`, `Answer`);
`CheckSnapshot`; `Build`, in which CatalogCandidate happens; `Create` and `Write` of the
temporary file; `Validate` by sing-box; `Recheck`, `GuardAgain`, `Chmod`, `Publish` and
the deferred `Cleanup`. Any of them may fail. `GiveUp` is the context's 15 s limit,
`Cancel` a signal that cancels it, `Kill` the death of the process. The clock counts
`Ticks` per second and the code's comparisons truncate, so that second boundaries fall
between the steps. `Relink` is the operator making something else of the output path.
`path` says what that path is (nothing, a file, a link, a directory); `live` is the file
a link would lead to. `passed`, `vouched` and `published` are history.

Left out: the bytes of token and URL (good or bad), the details of a snapshot's
identity and schema (`wellFormed`).

### HostInit

The statements of init.sh in their order. `file[p]` is the kind and origin of what a
path holds, `Cut` a file whose writer ended in the middle, `Strange` something that is
no regular file. `install SRC DST` is two steps, the creation and the filling, between
which the script may end; `Stop` ends it anywhere. `StartManager`, `Activate` and the
manager's own renames (`Publish`, `AddSubscription`) are what the rest of the system
does to these files meanwhile, reduced to that. A run for one uid may meet the manager
of another, which may replace files as long as the directory is its own. One run at a
time is assumed, since deploy.sh calls init.sh under its lock, and that a manager is
started only after a run that succeeded.

### TelemtRedirect

`unit` is the systemd unit, `command` the one that runs, `at` its place in the script:
`Validate`, `Ready` (the loop, with `left` attempts), `Nft`. A unit's start is the
command `ready` followed by `start`. systemd reads the overrides again for each command
(`given`). An `nft -f` is one transaction (`Transaction`); `Kill` may come before or
after its commit. `Router`, `EditDefaults` and `Reboot` are the surroundings. The
overrides are members of `Settings`, of which validate() accepts `Valid`. Its names
differ from HostInit's, since `HostProofs` extends both; the two share no state.

## 3. Runs

| run | module, configuration | properties | what it shows |
|---|---|---|---|
| `manager` | `MCSubscriptionManager`, `MCSubscriptionManager.cfg` | `TypeOK`, `ReadyMeansCurrent`, `VisibleNamesStay`, `FilesAreSound`, `FailedUpdateRestores`, `ImplementsStore`, `NothingStarves`, `CrashRepaired` | Two HTTP clients and the background refresher add, list and refresh while every stage may fail and the process may stop, be killed and restart: the two-file transactions implement an atomic store, files, health and answers stay consistent, and under the fairness of a sync.Mutex and of bounded fetches everything accepted is answered and repaired. |
| `activation` | `MCActivation`, `MCActivation.cfg` | `SuccessIsLive`, `FailureRestores`, `OriginalIsSafe`, `VerifiedRouterStays`, `LockIsReturned` | Two commands contend for the host lock and fail, are signalled or are killed anywhere: what a command reports is what the router runs and what the snapshots hold, and the lock comes back. |
| `rollback_swap` | `MCActivation`, `MCActivationSwap.cfg` | `FailedRollbackKeepsPrevious` | A signal between the swap of the previous snapshot and the removal of the traps makes a rollback fail and yet exchange the previous snapshot. |
| `image_deploy` | `MCImageDeploy`, `MCImageDeploy.cfg` | `TypeOK`, `RecordsWereActivated`, `ActivatesItsCheckout`, `ReleaseIsOne`, `CINeverGoesBack` | Workflows and manual deployments contend for the host lock, fail, are interrupted or killed anywhere while main moves on: checkout, activation and the records of .images stay in step. |
| `activation_lock` | `MCImageDeploy`, `MCImageDeployLock.cfg` | `ActivationHoldsLock` | When the deploying process is interrupted or killed, the activation it started goes on after the host lock is free. |
| `snapshot` | `MCSnapshotRouter`, `MCSnapshotRouter.cfg` | `SnapshotIsOneMoment`, `ManagerIsPutBack` | Two backups, a deployment and the manager's refreshes run together while any stage fails, is signalled or killed: a complete backup is one moment of the host, and the manager is put back as it was found. |
| `config_build` | `MCConfigBuild`, `MCConfigBuild.cfg` | `ConfigurationIsWhole`, `BuildsTheReference` | For every state of two names, answer of its providers and base configuration of small sets, the loops of buildState accept what the reference accepts and build what it describes. |
| `catalog_candidate` | `MCCatalogCandidate`, `MCCatalogCandidate.cfg` | `MirrorsManager`, `CandidateIsWhole`, `AsAsked`, `MergedIffSame` | For every snapshot of up to four URIs, every base of a small set and every URI of five families over all protocols: the catalog client's candidate is the manager's configuration with other tags, or nothing; an accepted URI has all it asks for, equal outbounds are equal nodes, and spellings do not matter. |
| `catalog_shadow` | `MCCatalogShadow`, `MCCatalogShadow.cfg` | `PublicationIsEarned`, `OutcomeIsTrue`, `OutputIsSafe`, `RunEnds` | Two overlapping runs fail, are cancelled or killed anywhere while time passes, snapshots expire and the operator relinks the output: what is published is whole, fresh and accepted, nothing else is touched, a run publishes exactly when it says so, and every run ends. |
| `egress_router` | `MCEgressRouter`, `MCEgressRouter.cfg` | `SuccessIsCurrent`, `RouterRunsChecked`, `ImplementsParts` | A deploy, refresh, add or rollback against a manager that refreshes by itself and serves other clients: a success means the router serves what was asked for, the router only ever runs what sing-box accepted, and each of the two still behaves as specified alone. |
| `host_init` | `MCHostInit`, `MCHostInit.cfg` | `TypeOK`, `SuccessIsOwned`, `NothingIsLost` | A fresh, an older and a deployed host, initialised for changing uids by runs that end anywhere: subscriptions and active snapshots are kept, and a success leaves everything to the uid asked for. |
| `telemt_redirect` | `MCTelemtRedirect`, `MCTelemtRedirect.cfg` | `RedirectTypeOK`, `RulesFollowUnit`, `RulesNeedListener`, `UnitSettles` | The unit is started, reloaded, stopped, killed and edited under a router that comes and goes: an active unit intercepts by valid rules, rules follow a listener, and every command ends. |

Some properties are the conjunction of parts that have a definition, and where they are
proved a theorem, of their own: `FilesAreSound` is `PublishedSound` and
`OwnStateBuilds`, `NothingStarves` is `RefreshRecurs` and `RequestAnswered`,
`FailureRestores` is `FailureIsUndone` and `EarlyFailureIsHarmless`, `OriginalIsSafe` is
`RestoreHasTheOriginal` and `OriginalIsOnDisk`, `ReleaseIsOne` is `RecordsAgree` and
`OperatesActiveRelease`, `ManagerIsPutBack` is `CompleteLeavesManager` and
`FailureLeavesManager`, `ConfigurationIsWhole` is `UniqueTags`, `GroupsResolve` and
`NothingLost`, `CandidateIsWhole` is `AllOrNothing` and `CandidateResolves`,
`MergedIffSame` is `MergedMeansSame` and `SpellingsMerge`, `OutcomeIsTrue` is
`ResultIsTrue` and `NothingLeftBehind`, `OutputIsSafe` is `OutputIsWhole` and
`LiveUntouched`, `ImplementsParts` is `ImplementsActivation` and `ImplementsStore`,
`NothingIsLost` is `SubscriptionsSurvive` and `ActiveIsKept`, `RulesFollowUnit` is
`ActiveIntercepts` and `InactiveIsClean`.

Proved only, and not in a run: `PublishMatchesState`, `NamesAccumulate` and `OutputLags`
of the manager, `TokenIsGuarded` of the catalog client, `RouterTypeOK`, and `TypeOK` of
`Activation`, `SnapshotRouter`, `ConfigBuild` and `CatalogShadow`.

Bounds and why they are enough. *manager*: two handlers and the refresher are the
fewest with which two adds and a refresh contend; two names that normalise alike give
legal adds and collisions, and a second URL, in what the service starts with, lets an
add replace a subscription. It starts with nothing, with one subscription or with a
colliding pair; one node is counted (`MaxNodes`). Safety, the refinement and liveness
are checked on this one instance, without symmetry, which liveness does not allow.
*activation*: two commands are the fewest that contend for the lock; three contents,
one not working, are the fewest for which original, previous and candidate all differ.
*image_deploy* and the run after it: two deployments, the fewest that contend, and two
releases (`MaxRelease` caps the pushes), so that a record can be one behind and a
workflow one too late.
*snapshot*: two backups contend with each other and with a
deployment, and with three versions of a file (`MaxVersion`) two writes of one file can fall
between the copies of two others.
*egress_router*: one command, beside a manager that
commits, forgets to answer and refreshes at any time, and the clients of
`ManagerAlone`; two names and one URL are the fewest with which the configuration
asked for and the one copied differ. What two commands do to each other is in
*activation*; the theorems cover any number of both. Configurations that serve a
subscription work, the empty ones do not.
*catalog_candidate*: five families of URIs, each the product of the values of the
parameters that one part of the parser looks at together, over every scheme and one
that is unknown (parameters of different families are never read by one condition), as
snapshots of one node; and every list of two to four nodes out of four, of which two are
spellings of one node and one is unusable; six base configurations, among them
one that has taken a tag of the client and one that has taken one of the manager.
*catalog_shadow*: two runs that overlap, under a clock of four ticks, two to the second
(`Start`, `End`, `Ticks`); of the four snapshots one expires and one grows too old on the
way, so that the comparisons of time are met on both sides of their bounds, one is refused
by sing-box and one by the client. Four sets of flags: TLS, plaintext asked for once only,
contradicting flags and two tokens.
*host_init*: two uids, the fewest with which an old manager
and a new owner differ; every run of the script may end anywhere and runs are
unbounded. *telemt_redirect*: two valid overrides, so that a reload changes the rules, and
one that is invalid; three attempts (`Attempts`, 30 in the script).
Process crashes, restarts, signals and refreshes are unbounded in every run.

*config_build*: two providers, the fewest that can repeat or collide with each other;
the names `a`, `a-b`, `a.b` (which normalises like `a-b`) and the empty one; nodes called `x` and
`b-x`, so that the two ways to read `sub-a-b-x-1` both occur, one of them also in the
base configuration; two outbounds, so that nodes can be equal, and one URI that does
not parse; bodies of at most two lines; one warning kept (`MaxWarnings`, 20 in the
code), so that the limit is passed.

Deadlock checking is on in every run except *config_build* and *catalog_candidate*, whose
computations end, and *catalog_shadow*, whose clock and runs are finite.

### The violated properties

`rollback_swap` shows a divergence between deploy.sh and its documentation. A
rollback that has verified the router exchanges `previous.json` (line 107) and
then removes its traps (line 109). A signal that arrives during line 107 is acted
on after it: `restore()` puts the original configuration back, reports the
failure and removes the recovery copy. `active` and `previous` are then both the
original, and the configuration the operator was rolling back to is gone. README
lines 103-105 say that the previous snapshot is exchanged on success, and
`deploy-smoke.sh` line 121 asserts that a failed rollback leaves it alone.

`activation_lock`: the comment at images.py:212 and README lines 182-183 have the
activation share the host lock until it ends. The lock belongs to the Python
process (images.py:202-206) or to the shell of ci-deploy.mk:14; `subprocess.run`
closes descriptors in children and deploy.sh is told not to take the lock itself. An
interrupt or the death of the Python process frees it while deploy.sh goes on, in
particular with its `restore()`.

Three other places where code and documentation differ are not runs of their own; the
property that holds names the exception instead.

- `image-compose` is documented to use the active release (images.py:257). It validates
  `current.json` and runs the images of `compose.json`; a deployment that dies between
  writing the two (lines 251-252) leaves them naming different releases until the next
  successful deployment. `OperatesActiveRelease` and `RecordsAgree` hold as long as no
  deployment has died there (`cut`). The first speaks only of moments when no deployment
  is under way, since README lines 329-330 ask operators not to mix the two.
- The handler of SIGINT, SIGTERM and SIGHUP in snapshot-router.py raises (lines
  288-289), and signals are blocked only by the first call inside the finally clause
  (225). One that arrives when the clause has been entered, at the latest while that
  call returns, leaves it before the inner `try`: `docker unpause` is not run. README
  lines 229-232 have every failure unpause the manager, SIGKILL, power loss and a
  failed Docker daemon excepted. `FailureLeavesManager` holds for every other moment.
- init.sh installs `config.json`, `runtime/config.json` and `runtime/active.json` in
  place (lines 17, 29, 30). A run that ends between the creation and the end of the
  copy leaves an empty or partial file (`Cut` in HostInit), which the next run finds,
  keeps and copies on, and then reports success. README lines 43-44 say that a missing
  `runtime/config.json` is seeded with the base, "not an empty file". The state is safe
  from this, being installed beside its place and renamed (`TypeOK` of HostInit and
  `SubscriptionsSurvive`), and so is an active snapshot once it is whole (`ActiveIsKept`).

## 4. Fairness

`SubscriptionManager`: weak fairness of each stage between lock and unlock,
because fetches are limited by the client's 30 s timeout (main.go:76), validation
by a 15 s context (393), and file operations return; strong fairness of `Begin`,
because `sync.Mutex` hands itself to a goroutine that has waited for a
millisecond, so that a waiter is not passed over for ever; weak fairness of
`Reply`, `Rearm` and `Fire` (a timer fires). Nothing is assumed of clients,
signals, crashes or restarts: the liveness properties say "while the process
stays up" or accept that the request ends with the process.

`CatalogShadow`: weak fairness of the run's own steps and of `GiveUp`, since both waits
have a context of 15 s (shadow.go:175, 255). Nothing is assumed of catalog, sing-box,
clock or operator. `TelemtRedirect`: weak fairness of the script's steps: ss, sleep and
nft return, and the loop is counted.

`ImageDeploy`, `SnapshotRouter`, `ConfigBuild`, `EgressRouter`, `HostInit`
and `CatalogCandidate` have no liveness property and state no fairness.

`Activation`: weak fairness of the steps of the command that holds the lock: its
loops are counted and its requests have limits (deploy.sh:43-50, 70-74, 79, 83).
docker itself is trusted to return. Who gets the lock next is not assumed.

## 5. Proofs

`SubscriptionManagerProofs` proves, for every set of names, URLs and handlers, every
`Norm`, every set of legacy states and every `MaxNodes`, six invariants and the
action property `PublishMatchesState`, from the assumptions named in the module
(the distinguished values are distinct, accepted bodies are subscriptions with a
name). The inductive invariant is built in layers:

1. `TypeInv`: `TypeOK` and that a candidate exists from `validate` on. `TypeOK`
   alone is not inductive, since `Publish` assigns the candidate to `output`.
2. `LockInv`: a goroutine in a critical stage holds `mu`, and nothing runs in a
   process that is down. It makes every other goroutine's facts about the files
   stable.
3. `KnowsInv`: what a transaction knows at each stage: which of the files it found
   are still there, that its prospective state is the upsert of the one it found,
   that its candidate was generated from that state, that it was validated. It
   gives `FailedUpdateRestores` and `PublishMatchesState`.
4. `DiskInv`: a state found by a critical transaction is legacy or buildable;
   gives `OwnStateBuilds` and `PublishedSound`.
5. Readiness: outside the committing stages, no error and one success mean that the
   files agree; gives `ReadyMeansCurrent`.
6. `PromiseInv`: a visible name is in the persisted state and in the state any open
   transaction would go back to, and the name of a successful add that has not
   answered yet is too; gives `VisibleNamesStay`.

The second part of the module proves that the manager implements the store
(`Implementation`), and from it that names only accumulate and that the published
configuration lags by whole adds. Initial states map to initial states; for the
steps the proof has one lemma per kind: `QuietStep` (nothing the store sees
changes), `PersistStep` (the mapping hides the new state), `PublishStep` (`Commit`,
for which `KnowsInv` supplies that the candidate is a valid one generated from the
upsert of what counts), `RollbackStep` and `HaltStep` (a stutter or `StoreOnly`) and
`TellStep` (`PromiseInv` supplies that clients are told of subscribed names only).

The first part of `EgressRouterProofs` is about `Activation` alone: `TypeOK` and every
safety property of the run *activation*, for any set of commands, contents and working
contents. None is inductive alone; the invariant adds `LockInv` (a command past the lock
holds it, so other commands leave its facts alone) and, for each stage, what the command
knows: which file `restore()` would read and that it holds the original, what the two
snapshots are, whether the router has read the active file and was verified, and what
its result says. A signal handled after the swap of a rollback is why `FailureIsUndone`
says nothing of `previous`.

`ImageDeployProofs` proves every property of the run *image_deploy* for any number of
deployments and releases. That exactly the holder is past the lock is part of
`TypeOK`. `InOrder` adds that a deployment by CI past the merge is at the tip of the
host's main, and that CI has activated nothing newer: with the lock this makes the
stale-workflow test, made once, hold until the activation. `Earned` says that a
result waits for its parent only and is about a release that succeeded; `Recorded`
that the last activation is the one of the holder until its three records are
written. `RecordsAgree` is not inductive without them, since it says nothing while
the lock is held. `OperatesActiveRelease` follows from it and from what a one-shot
command knows as long as nobody takes the lock (`Untouched`).

`ConfigBuildProofs` proves `TypeOK`, `UniqueTags`, `GroupsResolve` and `NothingLost`
for any subscriptions, answers and base configurations. The invariant adds that the
base's tags are taken (`BaseKnown`), that generated tags differ from each other and
from the base's (`TagsApart`; `tags` alone does not say so, since it also holds the
tags of merged nodes), and that every fingerprint seen belongs to an outbound
(`Progress`). `NothingLost` is then inductive: a merged node is
represented by the outbound its fingerprint came from.

The second part of the module proves `BuildsTheReference`, that the loops do what the
reference says. Its invariant, `RInv`, says of every state what the reference says of
the places come past so far (`Done`): bodies decoded up to this line have these lines
without the comments (`Decoded`); every subscription that was left has a node, and no two
tags met so far are equal, nor is one of them the base's (`Passed`); the outbounds
enumerate the first nodes of their classes among those met (`Collected`); the counter
and the warnings are those of the lines that were no nodes (`Listed`). None of it is about
the future, so each action has to be related to one more place only, with the
exception of what a refusal means: that no continuation is acceptable. The argument is that
`Acceptable` speaks of the answers, which do not change once they are there, and that
the two places, or the subscription without nodes, that made the loop refuse violate
it. The list lemmas `EnumerationGrows` (the next place comes behind all others) and
`KeepsStep` replace induction over sequences. TLC finds `RInv` true in the states of
*config_build*.

`SnapshotRouterProofs` proves `TypeOK` and every property of the run *snapshot* for any
number of backups and versions. The invariant ties each captured version to a moment:
the versions copied so far are in `moments` together with what the host holds of the
files not copied yet, which stays true because the lock keeps deployments and the pause
keeps the manager from changing them; and it says, stage by stage, whether the manager
is paused and by whom.

`CatalogShadowProofs` proves `TypeOK`, `TokenIsGuarded` and every safety property of
*catalog_shadow* for any number of runs, snapshots, clock and `MaxAge`. `FreshInReality`
follows from the truncated comparisons by the lemmas about `Seconds`, the only
arithmetic of the project; the invariant then carries `vouched` from `Recheck` to
`Publish` and beyond. The clock may move on between the two: what is proved is freshness
at the recheck.

The second part of `EgressRouterProofs` proves that the composition implements
`Activation` and `SubscriptionStore`, and every property of *egress_router*, for any
number of commands and every set of names, URLs and configurations. The first refinement
(`StepMaps`) is what carries the invariant of the first part over. `RouterInv` adds to
it what relates the two parts: everything in `runtime/` or in the router serves names
the manager still has (`Current`, kept because names only grow and copies only come from
copies); a request that was answered is kept by whatever is published after it
(`Answered`); from the answer to the activation the command knows it was answered
(`Stage`); and from then on the active file serves what was promised (`Activated`, kept
because only the holder of the lock changes it). `SuccessIsCurrent` then needs that a
verified router runs the active file.

`HostProofs` proves for any set of uids that init.sh keeps its types, that success
leaves everything to the uid asked for, and that nothing is lost. `TypeOK` says of the
state that it is never a part of a file; that is not inductive, since it depends on what
is being moved there. The invariant says, statement by statement, which uid owns the
directories and which files are there and its own (`Prepared`, `Established`), and what
a file in the making holds (`InTheMaking`: what is moved to the state is whole, an
active file being filled is cut). Two facts carry it through the steps of others: once
the directories have changed hands a manager of another uid replaces nothing any more,
and only the script creates files. The two action properties of `NothingIsLost` follow
from it with one case per action that writes the file.

The second part of `HostProofs` proves `RedirectTypeOK`, `RulesFollowUnit` and
`RulesNeedListener` of `TelemtRedirect`, for any overrides and number of attempts.
`RulesFollowUnit` needs to know that a stop reaches its transaction directly and that a
start or reload that gets there was given valid overrides; `Under` adds both, and which
command runs in which state of the unit.

`CatalogCandidateProofs` proves `AsAsked`, `MergedIffSame`, `CandidateIsWhole` and `MirrorsManager` for any
URIs, snapshots and base configurations, of which the run can only take families. Its first half is
about the parser. `OfferedAsDemanded` compares, feature by feature, what a URI asks
for with what its outbound has; `CredentialsIdentify` says that the credentials an outbound
holds tell one node from another; `EqualOutbounds` follows from the two. `SpellingsAlike`
has a lemma for each way to spell a node. Proving it showed that encoding
credentials that are base64 already gives no other spelling of them, because the code
decodes once (main.go:332-338): `Respelled` encodes credentials in the clear only. The
second half is the invariant of the loop: which place and node each outbound comes from
(`FromNodes`), that every node looked at and everything seen has one
(`Represented`), which tags are taken (`Taken`), why a snapshot is refused
(`Refusal`), and what the candidate is made of (`Finished`). TLC finds it true in the states of
*catalog_candidate*. `CandidateIsWhole` needs them all: tags of the client
are pairs that name a place, so that they differ from each other, and `Taken` has them
differ from the base's. `MirrorsManager` needs one more, `InOrder`: outbounds are in the
order of their places and each is the first of its kind. So the places of the client's
outbounds are `Firsts` of the instanced reference (`ManagerFirsts`), renaming takes the tag of a
place to the manager's tag of that place and leaves the base's tags alone
(`RenamedKnown`, from `Taken`), and group members follow position by position
(`RenamedLeads`).

The theorems rest on the named ASSUMEs of `Subscriptions`, `SubscriptionManager`,
`Activation`, `ImageDeploy`, `ConfigBuild`, `SnapshotRouter`, `CatalogShadow`,
`EgressRouter`, `HostInit`, `TelemtRedirect`, `CatalogCandidate` and `NodeParsing` only
(distinct distinguished values; accepted bodies are subscriptions with a name; inputs
have their types; files in `runtime/` hold the seed or valid configurations), which TLC
evaluates in the runs.

With this every invariant and every action property of the passing runs is a theorem.
Left to TLC is liveness under fairness, which needs ENABLED and which the prover does not
support (`NothingStarves`, `CrashRepaired`, `LockIsReturned`, `RunEnds`, `UnitSettles`),
and the two runs that expect a violation, which are counterexamples and need no proof. No
module uses RECURSIVE operators.

## 6. Not modelled

- sing-box, docker, systemd, nft and the kernel are external. What the project says of
  them is what the scripts rely on: a container reads its file when it starts, `nft -f`
  is a transaction, a rename is atomic.
- The generated gRPC code and its schema: no state, no decisions of its own. The RPC
  is a step of `CatalogShadow`.
- `build` and `publish` of images.py: sequential programs of a CI machine that is used
  once. `ImageDeploy` starts from the manifest they produce.
- validate() of the tproxy script is a set of accepted overrides. Which texts are
  addresses, users and interfaces is a matter of regular expressions without state.
- Durability: no file is synced before it is renamed. Renames are taken as durable and
  ordered; what a file system may lose is not in the repository.
- Files that a killed process leaves behind (candidates, recovery copies) cost space
  only; nothing opens them again.
- Makefiles, workflow syntax, smoke tests: read for what they say, not modelled.

What might come next: liveness of the composition (a published configuration is served
once somebody deploys), and a model of the file system in which unsynced renames may be
lost.
