--------------------------- MODULE CatalogShadow ---------------------------
(***************************************************************************)
(* Runs of the catalog shadow client, src/catalog-client: main.go (run)    *)
(* and internal/shadow/shadow.go.  A run asks the catalog for a snapshot,  *)
(* makes a candidate of it, has sing-box check the candidate and renames   *)
(* it over catalog-shadow.json.  Runs may overlap; the operator may relink *)
(* the output path; the catalog may answer anything, at any time, or not.  *)
(*                                                                         *)
(* The clock counts ticks, the code's comparisons whole seconds.  Making   *)
(* the candidate is one step here; CatalogCandidate is what happens in it. *)
(***************************************************************************)
EXTENDS Integers

CONSTANTS
    Run,        \* invocations of the client
    Options,    \* what it may be invoked with
    Snapshots,  \* what the catalog may answer
    Ticks,      \* ticks in a second
    MaxAge,     \* --max-age, in ticks
    Start, End, \* the clock's first and last tick
    None,       \* no snapshot, no file
    Partial,    \* a file that is not written to its end
    Previous    \* what an earlier run has published

\* A snapshot says when it was made, until when it counts, and when its nodes
\* were last seen working.  What else the code and sing-box ask of it is fixed
\* by its contents.
ASSUME SnapshotAssumption ==
    Snapshots \subseteq [id : Int, created : Int, validUntil : Int, checks : SUBSET Int,
                         wellFormed : BOOLEAN, usable : BOOLEAN, sound : BOOLEAN]
ASSUME OptionAssumption ==
    Options \subseteq [value  : {"", "good", "bad"}, file : {"", "good", "bad"},
                       host   : {"local", "remote", "malformed"},
                       plain  : BOOLEAN, trusted : BOOLEAN]
ASSUME TimeAssumption ==
    /\ Ticks \in Nat \ {0} /\ MaxAge \in Nat /\ Start \in Nat /\ End \in Nat /\ Start <= End
ASSUME ValueAssumption ==
    /\ None \notin Snapshots \cup {Partial, Previous}
    /\ Partial \notin Snapshots \cup {Previous}
    /\ Previous \notin Snapshots

VARIABLES
    clock,      \* the time, in ticks
    path,       \* what catalog-shadow.json is, and holds
    live,       \* what the base, which a live router may read, holds
    pc,         \* the stage each run is in
    opts,       \* what it was invoked with
    asked,      \* whether it has sent its token
    snapshot,   \* what the catalog has answered
    temp,       \* its temporary file
    cancelled,  \* whether it has received SIGINT or SIGTERM
    result,     \* what it will report
    passed,     \* history: whether sing-box has accepted its candidate
    vouched,    \* history: whether its snapshot was fresh after that
    published   \* history: whether it has renamed its candidate

local == <<opts, asked, snapshot, temp, cancelled, result, passed, vouched, published>>
vars  == <<clock, path, live, pc, local>>

Kinds  == {"nothing", "file", "symlink", "hardlink", "directory"}
Stages == {"idle", "guard", "request", "waiting", "check", "build", "create", "write",
           "validate", "recheck", "guard again", "chmod", "publish", "cleanup", "done", "dead"}
Going  == Stages \ {"idle", "done", "dead"}

Init ==
    /\ clock = Start
    /\ path = [kind |-> "file", content |-> Previous]
    /\ live = Previous
    /\ pc = [r \in Run |-> "idle"]
    /\ opts \in [Run -> Options]
    /\ asked = [r \in Run |-> FALSE]
    /\ snapshot = [r \in Run |-> None] /\ temp = [r \in Run |-> None]
    /\ cancelled = [r \in Run |-> FALSE]
    /\ result = [r \in Run |-> "none"]
    /\ passed = [r \in Run |-> FALSE] /\ vouched = [r \in Run |-> FALSE]
    /\ published = [r \in Run |-> FALSE]

-----------------------------------------------------------------------------
Goto(r, stage) == pc' = [pc EXCEPT ![r] = stage]

\* An error return: the deferred calls are next.
Fail(r) == Goto(r, "cleanup") /\ result' = [result EXCEPT ![r] = "failed"]

Seconds(ticks) == ticks \div Ticks

\* Mutant: a snapshot counts until the end of the second named.
FreshToTheEnd(s) ==
    LET n == Seconds(clock)
    IN /\ s.created \in 1 .. n /\ s.created >= n - Seconds(MaxAge)
       /\ s.validUntil >= n /\ s.validUntil > s.created
       /\ \A c \in s.checks : c \in 1 .. n /\ c >= n - Seconds(MaxAge)

\* The comparisons of validSnapshot(), in whole seconds.
Fresh(s) ==
    LET n == Seconds(clock)
    IN /\ s.created \in 1 .. n /\ s.created >= n - Seconds(MaxAge)
       /\ s.validUntil > n /\ s.validUntil > s.created
       /\ \A c \in s.checks : c \in 1 .. n /\ c >= n - Seconds(MaxAge)

\* MaxAge is a second or more; identity, profile, count and schema are right.
ValidSnapshot(s) == MaxAge >= Ticks /\ s.wellFormed /\ Fresh(s)

\* What snapshots and freshness are about: the time, not its whole seconds.
FreshInReality(s) ==
    /\ s.created * Ticks <= clock /\ clock < s.validUntil * Ticks
    /\ \A t \in s.checks \cup {s.created} :
          t * Ticks <= clock /\ clock - t * Ticks < MaxAge + Ticks

CheckOutput == path.kind \in {"nothing", "file"}

\* Exactly one source, and a token that can be sent.
TokenGiven(o) ==
    /\ o.value = "" \/ o.file = ""
    /\ (IF o.file # "" THEN o.file ELSE o.value) = "good"

\* TLS, or plaintext that was asked for: twice, unless it stays on the host.
DialAllowed(o) ==
    /\ o.host # "malformed"
    /\ IF o.plain THEN o.host = "local" \/ o.trusted ELSE ~o.trusted

-----------------------------------------------------------------------------
\* run(): flags, output path, token, connection.
Invoke(r) ==
    /\ pc[r] = "idle"
    /\ IF CheckOutput /\ TokenGiven(opts[r]) /\ DialAllowed(opts[r])
       THEN Goto(r, "guard") /\ UNCHANGED result
       ELSE Fail(r)
    /\ UNCHANGED <<clock, path, live, opts, asked, snapshot, temp, cancelled, passed, vouched,
                   published>>

Guard(r) ==
    /\ pc[r] = "guard"
    /\ IF CheckOutput /\ MaxAge >= Ticks
       THEN Goto(r, "request") /\ UNCHANGED result ELSE Fail(r)
    /\ UNCHANGED <<clock, path, live, opts, asked, snapshot, temp, cancelled, passed, vouched,
                   published>>

\* GetSnapshot: the request carries the token.  It may fail before it is sent.
Request(r) ==
    /\ pc[r] = "request"
    /\ \/ /\ ~cancelled[r]
          /\ Goto(r, "waiting") /\ asked' = [asked EXCEPT ![r] = TRUE]
          /\ UNCHANGED result
       \/ Fail(r) /\ UNCHANGED asked
    /\ UNCHANGED <<clock, path, live, opts, snapshot, temp, cancelled, passed, vouched, published>>

\* The catalog answers, with a snapshot or an error.
Answer(r) ==
    /\ pc[r] = "waiting"
    /\ \/ /\ \E s \in Snapshots : snapshot' = [snapshot EXCEPT ![r] = s]
          /\ Goto(r, "check") /\ UNCHANGED result
       \/ Fail(r) /\ UNCHANGED snapshot
    /\ UNCHANGED <<clock, path, live, opts, asked, temp, cancelled, passed, vouched, published>>

CheckSnapshot(r) ==
    /\ pc[r] = "check"
    /\ IF ValidSnapshot(snapshot[r]) THEN Goto(r, "build") /\ UNCHANGED result ELSE Fail(r)
    /\ UNCHANGED <<clock, path, live, opts, asked, snapshot, temp, cancelled, passed, vouched,
                   published>>

\* The base is read and the candidate made of it; either may be impossible.
Build(r) ==
    /\ pc[r] = "build"
    /\ \/ snapshot[r].usable /\ Goto(r, "create") /\ UNCHANGED result
       \/ Fail(r)
    /\ UNCHANGED <<clock, path, live, opts, asked, snapshot, temp, cancelled, passed, vouched,
                   published>>

Create(r) ==
    /\ pc[r] = "create"
    /\ \/ temp' = [temp EXCEPT ![r] = Partial] /\ Goto(r, "write") /\ UNCHANGED result
       \/ Fail(r) /\ UNCHANGED temp
    /\ UNCHANGED <<clock, path, live, opts, asked, snapshot, cancelled, passed, vouched, published>>

\* Write, sync and close.
Write(r) ==
    /\ pc[r] = "write"
    /\ \/ /\ temp' = [temp EXCEPT ![r] = snapshot[r]]
          /\ Goto(r, "validate") /\ UNCHANGED result
       \/ Fail(r) /\ UNCHANGED temp
    /\ UNCHANGED <<clock, path, live, opts, asked, snapshot, cancelled, passed, vouched, published>>

\* What becomes of a run whose sing-box has ended: accepted, and not cancelled.
Verdict(r) ==
    \/ /\ snapshot[r].sound /\ ~cancelled[r]
       /\ passed' = [passed EXCEPT ![r] = TRUE]
       /\ Goto(r, "recheck") /\ UNCHANGED result
    \/ Fail(r) /\ UNCHANGED passed

\* sing-box ends.
Validate(r) ==
    /\ pc[r] = "validate"
    /\ Verdict(r)
    /\ UNCHANGED <<clock, path, live, opts, asked, snapshot, temp, cancelled, vouched, published>>

\* Mutant: nothing limits the time the catalog and sing-box may take.
NoLimit(r) == FALSE

\* The catalog and sing-box have 15 seconds each, less if the run is cancelled.
Limited(r) == pc[r] \in {"waiting", "validate"}

GiveUp(r) ==
    /\ Limited(r)
    /\ Fail(r)
    /\ UNCHANGED <<clock, path, live, opts, asked, snapshot, temp, cancelled, passed, vouched,
                   published>>

\* Validation has taken its time: is the snapshot still fresh?
Recheck(r) ==
    /\ pc[r] = "recheck"
    /\ IF ~cancelled[r] /\ ValidSnapshot(snapshot[r])
       THEN Goto(r, "guard again") /\ UNCHANGED result
       ELSE Fail(r)
    /\ vouched' = [vouched EXCEPT ![r] = passed[r] /\ FreshInReality(snapshot[r])]
    /\ UNCHANGED <<clock, path, live, opts, asked, snapshot, temp, cancelled, passed, published>>

GuardAgain(r) ==
    /\ pc[r] = "guard again"
    /\ IF CheckOutput THEN Goto(r, "chmod") /\ UNCHANGED result ELSE Fail(r)
    /\ UNCHANGED <<clock, path, live, opts, asked, snapshot, temp, cancelled, passed, vouched,
                   published>>

Chmod(r) ==
    /\ pc[r] = "chmod"
    /\ \/ Goto(r, "publish") /\ UNCHANGED result
       \/ Fail(r)
    /\ UNCHANGED <<clock, path, live, opts, asked, snapshot, temp, cancelled, passed, vouched,
                   published>>

\* Mutant: the candidate is written to the output, and may be cut off.
WriteInPlace(r) ==
    /\ \/ /\ path' = [kind |-> "file", content |-> temp[r]]
          /\ published' = [published EXCEPT ![r] = TRUE]
          /\ Goto(r, "cleanup") /\ result' = [result EXCEPT ![r] = "ok"]
       \/ /\ path' = [kind |-> "file", content |-> Partial]
          /\ Fail(r) /\ UNCHANGED published
    /\ UNCHANGED <<live, temp>>

\* Mutant: permissions are set after the rename, and may not be.
RenameThenChmod(r) ==
    /\ path' = [kind |-> "file", content |-> temp[r]]
    /\ temp' = [temp EXCEPT ![r] = None]
    /\ published' = [published EXCEPT ![r] = TRUE]
    /\ \/ Goto(r, "cleanup") /\ result' = [result EXCEPT ![r] = "ok"]
       \/ Fail(r)
    /\ UNCHANGED live

\* A rename replaces whatever the path names, except a directory.
Rename(r) ==
    \/ /\ path.kind # "directory"
       /\ path' = [kind |-> "file", content |-> temp[r]]
       /\ temp' = [temp EXCEPT ![r] = None]
       /\ published' = [published EXCEPT ![r] = TRUE]
       /\ Goto(r, "cleanup") /\ result' = [result EXCEPT ![r] = "ok"]
       /\ UNCHANGED live
    \/ Fail(r) /\ UNCHANGED <<path, live, temp, published>>

Publish(r) ==
    /\ pc[r] = "publish"
    /\ Rename(r)
    /\ UNCHANGED <<clock, opts, asked, snapshot, cancelled, passed, vouched>>

Remove(r) == None

\* The deferred calls, and the end of the process.
Cleanup(r) ==
    /\ pc[r] = "cleanup"
    /\ temp' = [temp EXCEPT ![r] = Remove(r)]
    /\ Goto(r, "done")
    /\ UNCHANGED <<clock, path, live, opts, asked, snapshot, cancelled, result, passed, vouched,
                   published>>

Step(r) ==
    \/ Guard(r) \/ Request(r) \/ CheckSnapshot(r) \/ Build(r) \/ Create(r) \/ Write(r)
    \/ Recheck(r) \/ GuardAgain(r) \/ Chmod(r) \/ Publish(r) \/ Cleanup(r)

-----------------------------------------------------------------------------
\* SIGINT or SIGTERM: the context is cancelled, the run goes on to notice.
Cancel(r) ==
    /\ pc[r] \in Going /\ ~cancelled[r]
    /\ cancelled' = [cancelled EXCEPT ![r] = TRUE]
    /\ UNCHANGED <<clock, path, live, pc, opts, asked, snapshot, temp, result, passed, vouched,
                   published>>

Kill(r) ==
    /\ pc[r] \in Going
    /\ Goto(r, "dead")
    /\ UNCHANGED <<clock, path, live, local>>

\* The operator makes something else of the output path.
Relink ==
    /\ \E kind \in Kinds :
          path' = [kind |-> kind, content |-> IF kind = "file" THEN Previous ELSE None]
    /\ UNCHANGED <<clock, live, pc, local>>

Tick == clock < End /\ clock' = clock + 1 /\ UNCHANGED <<path, live, pc, local>>

Next ==
    \/ \E r \in Run :
          Invoke(r) \/ Step(r) \/ Answer(r) \/ Validate(r) \/ GiveUp(r) \/ Cancel(r) \/ Kill(r)
    \/ Relink \/ Tick

\* The client's own steps are taken, and its two waits are limited; nothing is
\* assumed of the catalog and of sing-box.
Fairness == \A r \in Run : WF_vars(Step(r)) /\ WF_vars(GiveUp(r))

Spec     == Init /\ [][Next]_vars
FairSpec == Spec /\ Fairness

-----------------------------------------------------------------------------
Judged == {"recheck", "guard again", "chmod", "publish"}

\* Every variable has its type, and a stage tells what the run has: an answer,
\* the complete candidate, sing-box's verdict (shadow.go:178-262).
TypeOK ==
    /\ clock \in Start .. End
    /\ path \in [kind : Kinds, content : Snapshots \cup {None, Partial, Previous}]
    /\ live \in Snapshots \cup {Partial, Previous}
    /\ pc \in [Run -> Stages] /\ opts \in [Run -> Options]
    /\ asked \in [Run -> BOOLEAN] /\ cancelled \in [Run -> BOOLEAN]
    /\ passed \in [Run -> BOOLEAN] /\ vouched \in [Run -> BOOLEAN]
    /\ published \in [Run -> BOOLEAN]
    /\ snapshot \in [Run -> Snapshots \cup {None}]
    /\ temp \in [Run -> Snapshots \cup {None, Partial}]
    /\ result \in [Run -> {"none", "ok", "failed"}]
    /\ \A r \in Run :
        /\ pc[r] \in {"check", "build", "create", "write", "validate"} \cup Judged =>
              snapshot[r] # None
        /\ pc[r] \in {"validate"} \cup Judged => temp[r] = snapshot[r]
        /\ pc[r] \in Judged => passed[r]

\* What is published has been validated, and was fresh after that: not yet
\* expired at that moment, and neither the snapshot nor any node's check older
\* than max-age by a second or more.  The code compares truncated seconds; the
\* property speaks of the time itself, and of snapshots that expire or grow old
\* while sing-box runs (shadow.go:97-112, 255-262; README of the client, lines
\* 67-68, 76-77).
PublicationIsEarned ==
    \A r \in Run :
        published[r] =>
            /\ passed[r] /\ vouched[r]
            /\ snapshot[r].wellFormed /\ snapshot[r].usable /\ snapshot[r].sound

\* A run has published its candidate exactly if that is what it reports: a
\* failure, a cancelled run and one that is killed have left the output alone
\* (shadow.go:243-274; README of the client, lines 77-78).
ResultIsTrue == \A r \in Run : result[r] = "ok" <=> published[r]

\* Whoever reads the output finds a complete candidate, at any moment, whatever
\* fails or dies and however runs overlap (shadow.go:243-271).
OutputIsWhole ==
    path.kind = "file" =>
        path.content \in {Previous} \cup {snapshot[r] : r \in {q \in Run : published[q]}}

\* No run changes the file the base was read from, even if the output path is
\* made a link to it after it was checked (shadow.go:114-156, 263-271).
LiveUntouched == live = Previous

\* Overlapping runs and a path that moves under them harm neither a reader of
\* the output nor the live configuration (shadow.go:114-156, 243-271).
OutputIsSafe == OutputIsWhole /\ LiveUntouched

\* A run that ends leaves no temporary file behind, however it ends, unless it
\* is killed (shadow.go:247-248).
NothingLeftBehind == \A r \in Run : pc[r] = "done" => temp[r] = None

\* What a run has left on the disk when it ends is what it reports: its
\* candidate under the output's name, or nothing at all (shadow.go:243-274).
OutcomeIsTrue == ResultIsTrue /\ NothingLeftBehind

\* A token is sent in the clear only to the host itself or where the operator
\* has said twice that he wants it; a token of unclear origin is not sent
\* (shadow.go:33-85, cmd/catalog-shadow/main.go:36-43).
TokenIsGuarded ==
    \A r \in Run :
        LET o == opts[r]
        IN asked[r] =>
            /\ {o.value, o.file} = {"", "good"}
            /\ o.plain => o.host = "local" \/ o.trusted

\* A run ends although the catalog or sing-box never do (shadow.go:159, 175,
\* 255).
RunEnds == \A r \in Run : pc[r] \in Going ~> pc[r] \in {"done", "dead"}
=============================================================================
