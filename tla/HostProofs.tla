----------------------------- MODULE HostProofs -----------------------------
(***************************************************************************)
(* Proofs about the two scripts that prepare the host, init.sh (HostInit)  *)
(* and telemt-egress-tproxy.sh (TelemtRedirect).                           *)
(*                                                                         *)
(* For init.sh and any set of uids: what is at each path keeps to its      *)
(* type, a run that succeeds owns what it leaves, and no run takes         *)
(* subscriptions or an active snapshot away.  The invariant says what the  *)
(* script has established when it comes to a statement, and that nothing   *)
(* which happens meanwhile undoes it: a manager of another uid cannot      *)
(* write to the directories any more, and nobody but the script makes the  *)
(* files it has found missing.                                             *)
(*                                                                         *)
(* For the redirection and any set of overrides and number of attempts:    *)
(* the rules are there as long as the unit is, and none are installed      *)
(* before their listener was seen.  The invariant says which command runs  *)
(* in which state of the unit, and what it has found before it changes a   *)
(* rule.                                                                   *)
(***************************************************************************)
EXTENDS HostInit, TelemtRedirect, TLAPS

\* The statements from one on.
FromCheck  == Stages \ {"idle", "state dir", "runtime dir"}
FromBase   == FromCheck \ {"check"}
FromState  == FromBase \ {"base", "base copy"}
FromOwn    == FromState \ {"state", "state copy", "state move"}
FromOutput == FromOwn \ {"own state"}
FromActive == FromOutput \ {"output", "output copy"}
FromLast   == FromActive \ {"active", "active copy"}

There(p)  == file[p] # Missing
Mine(p)   == owner[p] = uid

\* What the directories and files are once the script has passed a statement.
Prepared ==
    /\ pc = "runtime dir" => dirOwner["state"] = uid
    /\ pc \in FromCheck => \A d \in Dir : dirOwner[d] = uid
    /\ pc \in FromBase => \A p \in Seeded : file[p] # Strange

Established ==
    /\ pc \in FromState  => There("base")
    /\ pc \in FromOwn    => There("state")
    /\ pc \in FromOutput => Mine("base") /\ Mine("state")
    /\ pc \in FromActive => There("output")
    /\ pc \in FromLast   => There("active")
    /\ pc = "done"       => Mine("output") /\ Mine("active")

\* What the first state is made of.
FirstState == IF file["legacy"] = Missing THEN "empty" ELSE "legacy"

\* While a file is being made, what there is of it.
InTheMaking ==
    /\ file["legacy"] \in {"legacy", Missing, Strange}
    /\ pc \in {"state copy", "state move"} =>
          file["state"] = Missing /\ file["legacy"] # Strange
    /\ pc = "state move" => file["new"] = FirstState
    /\ pc = "active copy" => file["active"] = Cut

Inv == TypeOK /\ Prepared /\ Established /\ InTheMaking

-----------------------------------------------------------------------------
\* Before the first run nothing is there that the script would have made.
LEMMA InitInv == Init => Inv
  <1> SUFFICES ASSUME Init PROVE Inv
    OBVIOUS
  <1>1. PICK u \in Uid \cup {Root} : owner = [p \in Path |-> u]
    BY DEF Init
  <1>2. TypeOK
    BY <1>1 DEF Init, TypeOK, Path, Stages, Cut, Missing, Strange
  <1>3. Prepared /\ Established
    BY DEF Init, Prepared, Established, FromCheck, FromBase, FromState, FromOwn, FromOutput,
           FromActive, FromLast
  <1>4. InTheMaking
    BY DEF Init, InTheMaking
  <1> QED
    BY <1>2, <1>3, <1>4 DEF Inv

\* What a file may hold, and which paths there are.
LEMMA Kinds ==
    /\ Whole \subseteq Holding /\ {Cut, Missing, Strange} \subseteq Holding
    /\ {"example", "edited", "empty", "legacy", "subscribed", "generated"} \subseteq Whole
    /\ {"base", "state", "new", "legacy", "output", "active", "previous"} \subseteq Path
  BY DEF Holding, Whole, Path

\* A run has established nothing yet (init.sh:1-7).
LEMMA InvokeStep == Inv /\ Invoke => Inv'
  <1> SUFFICES ASSUME Inv, Invoke PROVE Inv'
    OBVIOUS
  <1>1. TypeOK'
    BY DEF Inv, TypeOK, Stages, Invoke, Goto
  <1>2. Prepared'
    BY DEF Prepared, FromCheck, FromBase, Invoke, Goto
  <1>3. Established'
    BY DEF Established, FromCheck, FromBase, FromState, FromOwn, FromOutput, FromActive,
           FromLast, Invoke, Goto
  <1>4. InTheMaking'
    BY DEF Inv, InTheMaking, Invoke, Goto
  <1> QED
    BY <1>1, <1>2, <1>3, <1>4 DEF Inv

\* Its uid owns the directories from now on (init.sh:8-11).
LEMMA MakeDirsStep == Inv /\ MakeDirs => Inv'
  <1> SUFFICES ASSUME Inv, MakeDirs PROVE Inv'
    OBVIOUS
  <1>1. TypeOK'
    BY DEF Inv, TypeOK, Stages, MakeDirs, OwnDir, Goto
  <1>2. Prepared'
    BY DEF Inv, TypeOK, Prepared, FromCheck, FromBase, Dir, MakeDirs, OwnDir, Goto
  <1>3. Established'
    BY DEF Established, FromCheck, FromBase, FromState, FromOwn, FromOutput, FromActive,
           FromLast, MakeDirs, Goto
  <1>4. InTheMaking'
    BY DEF Inv, InTheMaking, MakeDirs, Goto
  <1> QED
    BY <1>1, <1>2, <1>3, <1>4 DEF Inv

\* What is there and is no file ends the run (init.sh:12-16).
LEMMA CheckFilesStep == Inv /\ CheckFiles => Inv'
  <1> SUFFICES ASSUME Inv, CheckFiles PROVE Inv'
    OBVIOUS
  <1>1. TypeOK'
    BY DEF Inv, TypeOK, Stages, CheckFiles, Fail, Goto
  <1>2. Prepared'
    BY DEF Inv, Prepared, Stages, FromCheck, FromBase, Seeded, CheckFiles, Checked, Fail,
           Goto
  <1>3. Established'
    BY DEF Established, FromCheck, FromBase, FromState, FromOwn, FromOutput, FromActive,
           FromLast, CheckFiles, Fail, Goto
  <1>4. InTheMaking'
    BY DEF Inv, InTheMaking, CheckFiles, Fail, Goto
  <1> QED
    BY <1>1, <1>2, <1>3, <1>4 DEF Inv

\* There is a base configuration (init.sh:17).
LEMMA SeedBaseStep == Inv /\ SeedBase => Inv'
  <1> SUFFICES ASSUME Inv, SeedBase PROVE Inv'
    OBVIOUS
  <1>1. TypeOK'
    <2>1. file' \in [Path -> Holding] /\ owner' \in [Path -> Uid \cup {Root}]
      BY Kinds DEF Inv, TypeOK, SeedBase, Seed, Create, Fill, Fail
    <2>2. pc' \in Stages /\ UNCHANGED <<dirOwner, uid>> /\ manager' \in Uid \cup {Root}
      BY DEF Inv, TypeOK, Stages, SeedBase, Seed, Create, Fill, Fail, Goto
    <2>3. file'["state"] \notin {Cut, Strange}
      BY DEF Inv, TypeOK, Path, SeedBase, Seed, Create, Fill, Fail
    <2> QED
      BY <2>1, <2>2, <2>3 DEF Inv, TypeOK
  <1>2. Prepared'
    BY DEF Inv, TypeOK, Prepared, FromCheck, FromBase, Path, Dir, Seeded, Cut, Strange,
           SeedBase, Seed, Create, Fill, Fail
  <1>3. Established'
    BY DEF Inv, TypeOK, Established, There, FromCheck, FromBase, FromState, FromOwn,
           FromOutput, FromActive, FromLast, Path, Missing, SeedBase, Seed, ToSeed, Create,
           Fill, Fail, Goto
  <1>4. InTheMaking'
    BY DEF Inv, TypeOK, InTheMaking, Path, SeedBase, Seed, Create, Fill, Fail, Goto
  <1> QED
    BY <1>1, <1>2, <1>3, <1>4 DEF Inv

\* There is a state, moved there when it was whole (init.sh:18-26).
LEMMA SeedStateStep == Inv /\ SeedState => Inv'
  <1> SUFFICES ASSUME Inv, SeedState PROVE Inv'
    OBVIOUS
  <1>1. TypeOK'
    <2>1. file' \in [Path -> Holding] /\ owner' \in [Path -> Uid \cup {Root}]
      BY Kinds DEF Inv, TypeOK, SeedState, CreateNew, Create, Fill, Fail
    <2>2. pc' \in Stages /\ UNCHANGED <<dirOwner, uid>> /\ manager' \in Uid \cup {Root}
      BY DEF Inv, TypeOK, Stages, SeedState, CreateNew, Create, Fill, Fail, Goto
    <2>3. file'["state"] \notin {Cut, Strange}
      BY DEF Inv, InTheMaking, FirstState, TypeOK, Path, Cut, Strange, SeedState, CreateNew,
             Create, Fill, Fail
    <2> QED
      BY <2>1, <2>2, <2>3 DEF Inv, TypeOK
  <1>2. Prepared'
    <2>1. /\ pc \in FromBase /\ pc' \in FromBase \cup {"idle"} /\ pc' # "runtime dir"
          /\ UNCHANGED <<dirOwner, uid>>
      BY DEF SeedState, CreateNew, Create, Fill, Fail, Goto, Stages, FromCheck, FromBase
    <2>2. ASSUME NEW p \in Seeded PROVE file'[p] # Strange
      <3>1. file[p] # Strange /\ p \in Path /\ p # "new"
        BY <2>1, <2>2 DEF Inv, Prepared, Seeded, Path
      <3>2. pc = "state move" => file["new"] # Strange
        BY DEF Inv, InTheMaking, FirstState, Strange
      <3> QED
        BY <3>1, <3>2 DEF SeedState, CreateNew, Create, Fill, Fail, Inv, TypeOK
    <2> QED
      BY <2>1, <2>2 DEF Inv, Prepared, FromBase
  <1>3. Established'
    BY DEF Inv, InTheMaking, FirstState, TypeOK, Established, There, FromCheck, FromBase,
           FromState, FromOwn, FromOutput, FromActive, FromLast, Path, Missing, SeedState,
           StateMissing, CreateNew, Create, Fill, Fail, Goto
  <1>4. InTheMaking'
    BY DEF Inv, TypeOK, InTheMaking, FirstState, Path, SeedState, StateMissing, CreateNew,
           Create, Fill, Fail, Goto
  <1> QED
    BY <1>1, <1>2, <1>3, <1>4 DEF Inv

\* There is a generated configuration (init.sh:29).
LEMMA SeedOutputStep == Inv /\ SeedOutput => Inv'
  <1> SUFFICES ASSUME Inv, SeedOutput PROVE Inv'
    OBVIOUS
  <1>1. TypeOK'
    <2>1. file' \in [Path -> Holding] /\ owner' \in [Path -> Uid \cup {Root}]
      BY Kinds DEF Inv, TypeOK, SeedOutput, Seed, Create, Fill, Fail
    <2>2. pc' \in Stages /\ UNCHANGED <<dirOwner, uid>> /\ manager' \in Uid \cup {Root}
      BY DEF Inv, TypeOK, Stages, SeedOutput, Seed, Create, Fill, Fail, Goto
    <2>3. file'["state"] \notin {Cut, Strange}
      BY DEF Inv, TypeOK, Path, SeedOutput, Seed, Create, Fill, Fail
    <2> QED
      BY <2>1, <2>2, <2>3 DEF Inv, TypeOK
  <1>2. Prepared'
    BY DEF Inv, TypeOK, Prepared, FromCheck, FromBase, Path, Dir, Seeded, Cut, Strange,
           SeedOutput, Seed, Create, Fill, Fail
  <1>3. Established'
    BY DEF Inv, TypeOK, Established, There, Mine, FromCheck, FromBase, FromState, FromOwn,
           FromOutput, FromActive, FromLast, Path, SeedOutput, Seed, ToSeed, Create, Fill,
           Fail, Goto
  <1>4. InTheMaking'
    BY DEF Inv, TypeOK, InTheMaking, Path, SeedOutput, Seed, Create, Fill, Fail, Goto
  <1> QED
    BY <1>1, <1>2, <1>3, <1>4 DEF Inv

\* There is an active snapshot (init.sh:30).
LEMMA SeedActiveStep == Inv /\ SeedActive => Inv'
  <1> SUFFICES ASSUME Inv, SeedActive PROVE Inv'
    OBVIOUS
  <1>1. TypeOK'
    <2>1. file' \in [Path -> Holding] /\ owner' \in [Path -> Uid \cup {Root}]
      BY Kinds DEF Inv, TypeOK, SeedActive, FirstActive, Seed, Create, Fill, Fail
    <2>2. pc' \in Stages /\ UNCHANGED <<dirOwner, uid>> /\ manager' \in Uid \cup {Root}
      BY DEF Inv, TypeOK, Stages, SeedActive, Seed, Create, Fill, Fail, Goto
    <2>3. file'["state"] \notin {Cut, Strange}
      BY DEF Inv, TypeOK, Path, SeedActive, Seed, Create, Fill, Fail
    <2> QED
      BY <2>1, <2>2, <2>3 DEF Inv, TypeOK
  <1>2. Prepared'
    BY DEF Inv, TypeOK, Prepared, FromCheck, FromBase, Path, Dir, Seeded, Cut, Strange,
           SeedActive, FirstActive, Seed, Create, Fill, Fail
  <1>3. Established'
    BY DEF Inv, TypeOK, Established, There, Mine, FromCheck, FromBase, FromState, FromOwn,
           FromOutput, FromActive, FromLast, Path, SeedActive, FirstActive, Seed, ToSeed,
           Create, Fill, Fail, Goto
  <1>4. InTheMaking'
    BY DEF Inv, TypeOK, InTheMaking, Path, SeedActive, Seed, Create, Fill, Fail, Goto
  <1> QED
    BY <1>1, <1>2, <1>3, <1>4 DEF Inv

\* The files made so far are given to the uid (init.sh:27-32).
LEMMA OwnFilesStep == Inv /\ OwnFiles => Inv'
  <1> SUFFICES ASSUME Inv, OwnFiles PROVE Inv'
    OBVIOUS
  <1>1. TypeOK'
    <2>1. file' \in [Path -> Holding] /\ owner' \in [Path -> Uid \cup {Root}]
      BY Kinds DEF Inv, TypeOK, OwnFiles, Own, Fail
    <2>2. pc' \in Stages /\ UNCHANGED <<dirOwner, uid>> /\ manager' \in Uid \cup {Root}
      BY DEF Inv, TypeOK, Stages, OwnFiles, Own, Fail, Goto
    <2>3. file'["state"] \notin {Cut, Strange}
      BY DEF Inv, TypeOK, OwnFiles, Own, Fail
    <2> QED
      BY <2>1, <2>2, <2>3 DEF Inv, TypeOK
  <1>2. Prepared'
    BY DEF Inv, Prepared, Stages, FromCheck, FromBase, OwnFiles, Own, Fail, Goto
  <1>3. Established'
    BY DEF Inv, InTheMaking, FirstState, TypeOK, Prepared, Established, There, Mine, Stages,
           FromCheck, FromBase, FromState, FromOwn, FromOutput, FromActive, FromLast, Path,
           Dir, Seeded, Whole, Cut, Missing, Strange, OwnFiles, Own, Fail, Goto
  <1>4. InTheMaking'
    BY DEF Inv, InTheMaking, OwnFiles, Own, Fail, Goto
  <1> QED
    BY <1>1, <1>2, <1>3, <1>4 DEF Inv

\* A run that ends leaves what it has made, whole or not.
LEMMA StopStep == Inv /\ Stop => Inv'
  <1> SUFFICES ASSUME Inv, Stop PROVE Inv'
    OBVIOUS
  <1>1. TypeOK'
    BY DEF Inv, TypeOK, Stages, Stop, Fail, Goto
  <1>2. Prepared'
    BY DEF Prepared, FromCheck, FromBase, Stop, Fail, Goto
  <1>3. Established'
    BY DEF Established, FromCheck, FromBase, FromState, FromOwn, FromOutput, FromActive,
           FromLast, Stop, Fail, Goto
  <1>4. InTheMaking'
    BY DEF Inv, InTheMaking, Stop, Fail, Goto
  <1> QED
    BY <1>1, <1>2, <1>3, <1>4 DEF Inv

\* Commands that come after a run start the manager and activate.
LEMMA ServiceStep == Inv /\ (StartManager \/ Activate) => Inv'
  <1> SUFFICES ASSUME Inv, StartManager \/ Activate PROVE Inv'
    OBVIOUS
  <1>1. TypeOK'
    <2>1. file' \in [Path -> Holding] /\ owner' \in [Path -> Uid \cup {Root}]
      BY Kinds DEF Inv, TypeOK, StartManager, Activate
    <2>2. pc' \in Stages /\ UNCHANGED <<dirOwner, uid>> /\ manager' \in Uid \cup {Root}
      BY DEF Inv, TypeOK, StartManager, Activate
    <2>3. file'["state"] \notin {Cut, Strange}
      BY DEF Inv, TypeOK, Path, StartManager, Activate
    <2> QED
      BY <2>1, <2>2, <2>3 DEF Inv, TypeOK
  <1>2. Prepared'
    BY DEF Inv, TypeOK, Prepared, Path, Seeded, StartManager, Activate
  <1>3. Established'
    BY DEF Inv, TypeOK, Established, There, Mine, FromLast, Path, StartManager, Activate
  <1>4. InTheMaking'
    BY DEF Inv, TypeOK, InTheMaking, Path, StartManager, Activate
  <1> QED
    BY <1>1, <1>2, <1>3, <1>4 DEF Inv

\* The manager writes files of its own uid, where it owns the directory.
LEMMA ManagerStep == Inv /\ (Publish \/ AddSubscription) => Inv'
  <1> SUFFICES ASSUME Inv, Publish \/ AddSubscription PROVE Inv'
    OBVIOUS
  <1>1. TypeOK'
    <2>1. file' \in [Path -> Holding] /\ owner' \in [Path -> Uid \cup {Root}]
      BY Kinds DEF Inv, TypeOK, Publish, AddSubscription, Replace
    <2>2. pc' \in Stages /\ UNCHANGED <<dirOwner, uid>> /\ manager' \in Uid \cup {Root}
      BY DEF Inv, TypeOK, Publish, AddSubscription, Replace
    <2>3. file'["state"] \notin {Cut, Strange}
      BY DEF Inv, TypeOK, Path, Cut, Strange, Publish, AddSubscription, Replace
    <2> QED
      BY <2>1, <2>2, <2>3 DEF Inv, TypeOK
  <1>2. Prepared'
    BY DEF Inv, InTheMaking, FirstState, TypeOK, Prepared, Established, There, Stages,
           FromCheck, FromBase, FromState, FromOwn, FromOutput, FromActive, Path, Dir,
           Seeded, Cut, Missing, Strange, Publish, AddSubscription, Replace
  <1>3. Established'
    BY DEF Inv, TypeOK, Prepared, Established, There, Mine, FromCheck, FromBase, FromState,
           FromOwn, FromOutput, Path, Dir, Missing, Publish, AddSubscription, Replace
  <1>4. InTheMaking'
    BY DEF Inv, TypeOK, InTheMaking, FirstState, Path, Publish, AddSubscription, Replace
  <1> QED
    BY <1>1, <1>2, <1>3, <1>4 DEF Inv

\* The operator edits what is there; compose makes directories of what is not.
LEMMA OperatorStep == Inv /\ (Edit \/ ComposeUp) => Inv'
  <1> SUFFICES ASSUME Inv, Edit \/ ComposeUp PROVE Inv'
    OBVIOUS
  <1>1. TypeOK'
    <2>1. file' \in [Path -> Holding] /\ owner' \in [Path -> Uid \cup {Root}]
      BY Kinds DEF Inv, TypeOK, Edit, ComposeUp
    <2>2. pc' \in Stages /\ UNCHANGED <<dirOwner, uid>> /\ manager' \in Uid \cup {Root}
      BY DEF Inv, TypeOK, Edit, ComposeUp
    <2>3. file'["state"] \notin {Cut, Strange}
      BY DEF Inv, TypeOK, Path, Edit, ComposeUp
    <2> QED
      BY <2>1, <2>2, <2>3 DEF Inv, TypeOK
  <1>2. Prepared'
    BY DEF Inv, TypeOK, Prepared, FromCheck, FromBase, Path, Seeded, Strange, Edit,
           ComposeUp
  <1>3. Established'
    BY DEF Inv, TypeOK, Established, There, Mine, Path, Missing, Edit, ComposeUp
  <1>4. InTheMaking'
    BY DEF Inv, TypeOK, InTheMaking, FirstState, Path, Edit, ComposeUp
  <1> QED
    BY <1>1, <1>2, <1>3, <1>4 DEF Inv

\* Steps of others change nothing here.
LEMMA StutterStep == Inv /\ UNCHANGED vars => Inv'
  <1> SUFFICES ASSUME Inv, UNCHANGED vars PROVE Inv'
    OBVIOUS
  <1>1. TypeOK'
    BY DEF Inv, TypeOK, vars
  <1>2. Prepared'
    BY DEF Inv, Prepared, vars
  <1>3. Established'
    BY DEF Inv, Established, There, Mine, vars
  <1>4. InTheMaking'
    BY DEF Inv, InTheMaking, FirstState, vars
  <1> QED
    BY <1>1, <1>2, <1>3, <1>4 DEF Inv

\* What the script has established at a statement holds whenever it is there,
\* whatever ended an earlier run and whoever else is at work (init.sh:8-32).
THEOREM Invariance == Spec => []Inv
  <1>1. Inv /\ [Next]_vars => Inv'
    BY InvokeStep, MakeDirsStep, CheckFilesStep, SeedBaseStep, SeedStateStep,
       SeedOutputStep, SeedActiveStep, OwnFilesStep, StopStep, ServiceStep, ManagerStep,
       OperatorStep, StutterStep
       DEF Next, Script
  <1> QED
    BY InitInv, <1>1, PTL DEF Spec

-----------------------------------------------------------------------------
\* Every variable keeps its type, and the state is never a file cut off
\* (init.sh:24-25).
THEOREM TypeCorrect == Spec => []TypeOK
  <1>1. Inv => TypeOK
    BY DEF Inv
  <1> QED
    BY Invariance, <1>1, PTL

\* A run that succeeds leaves every file to the uid it was given, although a
\* manager of another uid goes on replacing files until its directories are
\* taken from it (init.sh:8-16, 27-32).
THEOREM SuccessOwnsAll == Spec => []SuccessIsOwned
  <1>1. Inv => SuccessIsOwned
    BY DEF Inv, Prepared, Established, There, Mine, SuccessIsOwned, Seeded, Stages,
           FromCheck, FromBase, FromState, FromOwn, FromOutput, FromActive, FromLast
  <1> QED
    BY Invariance, <1>1, PTL

\* Only the manager replaces a state that is there, and the first one is the
\* older checkout's, if it has one (init.sh:18-26).
THEOREM SubscriptionsStay == Spec => SubscriptionsSurvive
  <1> DEFINE Kept ==
          /\ file["state"] # Missing /\ file'["state"] # file["state"] => AddSubscription
          /\ file["state"] = Missing /\ file'["state"] # Missing => file'["state"] = FirstState
  <1>1. Inv /\ [Next]_vars => [Kept]_vars
    <2> SUFFICES ASSUME Inv, Next, ~AddSubscription PROVE Kept
      BY DEF AddSubscription
    <2>1. CASE SeedState
      BY <2>1 DEF SeedState, CreateNew, Create, Fill, Fail, Inv, TypeOK, InTheMaking, Path
    <2>2. CASE ~SeedState
      <3>1. file'["state"] = file["state"]
        BY <2>2
           DEF Next, Script, Invoke, MakeDirs, CheckFiles, SeedBase, SeedOutput, SeedActive,
               OwnFiles, Own, Stop, StartManager, Activate, Publish, Replace, Edit,
               ComposeUp, Seed, Create, Fill, Fail, Inv, TypeOK, Path
      <3> QED
        BY <3>1
    <2> QED
      BY <2>1, <2>2
  <1> QED
    BY Invariance, <1>1, PTL DEF Spec, SubscriptionsSurvive, FirstState

\* An active snapshot changes by activation only, and one that was cut off is
\* completed with what had been generated (init.sh:30).
THEOREM ActiveStays == Spec => ActiveIsKept
  <1> DEFINE Kept ==
          /\ file["active"] \in Whole /\ file'["active"] # file["active"] => pc = "done"
          /\ file["active"] = Cut /\ file'["active"] # Cut => file'["active"] = file["output"]
  <1>1. Inv /\ [Next]_vars => [Kept]_vars
    <2> SUFFICES ASSUME Inv, Next PROVE Kept
      OBVIOUS
    <2>1. CASE SeedActive
      BY <2>1
         DEF SeedActive, FirstActive, Seed, ToSeed, Fill, Fail, Inv, TypeOK, InTheMaking,
             Whole, Cut, Missing
    <2>2. CASE Activate
      BY <2>2 DEF Activate, Inv, TypeOK, Path
    <2>3. CASE ComposeUp
      BY <2>3 DEF ComposeUp, Whole, Cut, Missing
    <2>4. CASE ~SeedActive /\ ~Activate /\ ~ComposeUp
      <3>1. file'["active"] = file["active"]
        BY <2>4
           DEF Next, Script, Invoke, MakeDirs, CheckFiles, SeedBase, SeedState, CreateNew,
               SeedOutput, OwnFiles, Own, Stop, StartManager, Publish, AddSubscription,
               Replace, Edit, Seed, Create, Fill, Fail, Inv, TypeOK, Path
      <3> QED
        BY <3>1
    <2> QED
      BY <2>1, <2>2, <2>3, <2>4
  <1> QED
    BY Invariance, <1>1, PTL DEF Spec, ActiveIsKept

\* However often the script is cut off and run again, it takes neither
\* subscriptions nor an active snapshot away (init.sh:18-30).
THEOREM NothingLost == Spec => NothingIsLost
  BY SubscriptionsStay, ActiveStays DEF NothingIsLost

-----------------------------------------------------------------------------
\* Which command runs in which state of the unit, and what it has found when
\* it comes to the transaction.
Under ==
    /\ unit = "starting"  => command \in {"ready", "start"}
    /\ unit = "reloading" => command = "restart"
    /\ unit = "stopping"  => command = "stop" /\ at = "nft"
    /\ at \in {"ready", "nft"} /\ command # "stop" => given \in Valid
    /\ at = "nft" => command # "ready"
    /\ at = "nft" /\ command # "stop" => seen

RedirectInv == RedirectTypeOK /\ RulesFollowUnit /\ Under

\* The unit is inactive, no command runs and there is no table.
LEMMA RedirectBegins == RedirectInit => RedirectInv
  <1> SUFFICES ASSUME RedirectInit PROVE RedirectInv
    OBVIOUS
  <1> USE AttemptsAssumption DEF RedirectInit
  <1>1. RedirectTypeOK
    <2>1. left \in 0 .. Attempts
      OBVIOUS
    <2> QED
      BY <2>1 DEF RedirectTypeOK, Units, Commands
  <1>2. RulesFollowUnit
    BY DEF RulesFollowUnit, ActiveIntercepts, InactiveIsClean
  <1>3. Under
    BY DEF Under
  <1> QED
    BY <1>1, <1>2, <1>3 DEF RedirectInv

\* A command changes the rules in its transaction only, which it reaches with
\* valid overrides and a listener; a unit that fails takes nothing away.
LEMMA RedirectStep == RedirectInv /\ [RedirectNext]_redirectVars => RedirectInv'
  <1> SUFFICES ASSUME RedirectInv, [RedirectNext]_redirectVars PROVE RedirectInv'
    OBVIOUS
  <1>1. RedirectTypeOK /\ RulesFollowUnit /\ Under
    BY DEF RedirectInv
  <1>2. Valid \subseteq Settings /\ None \notin Settings /\ Attempts \in Nat \ {0}
    BY SettingsAssumption, AttemptsAssumption
  <1> USE <1>1, <1>2
          DEF RedirectTypeOK, RulesFollowUnit, ActiveIntercepts,
              InactiveIsClean, Under
  <1>3. CASE StartUnit
    <2> USE <1>3 DEF StartUnit, Exec, host
    <2>1. left' \in 0 .. Attempts
      OBVIOUS
    <2>2. RedirectTypeOK'
      BY <2>1 DEF Units, Commands
    <2>3. RulesFollowUnit'
      OBVIOUS
    <2>4. Under'
      OBVIOUS
    <2> QED
      BY <2>2, <2>3, <2>4 DEF RedirectInv
  <1>4. CASE ReloadUnit
    <2> USE <1>4 DEF ReloadUnit, Exec, host
    <2>1. left' \in 0 .. Attempts
      OBVIOUS
    <2>2. RedirectTypeOK'
      BY <2>1 DEF Units, Commands
    <2>3. RulesFollowUnit'
      OBVIOUS
    <2>4. Under'
      OBVIOUS
    <2> QED
      BY <2>2, <2>3, <2>4 DEF RedirectInv
  <1>5. CASE StopUnit
    <2> USE <1>5 DEF StopUnit, Exec, host
    <2>1. left' \in 0 .. Attempts
      OBVIOUS
    <2>2. RedirectTypeOK'
      BY <2>1 DEF Units, Commands
    <2>3. RulesFollowUnit'
      OBVIOUS
    <2>4. Under'
      OBVIOUS
    <2> QED
      BY <2>2, <2>3, <2>4 DEF RedirectInv
  <1>6. CASE Validate
    <2> USE <1>6 DEF Validate, Failed, Step, host
    <2>1. left' \in 0 .. Attempts
      OBVIOUS
    <2>2. RedirectTypeOK'
      BY <2>1 DEF Units, Commands
    <2>3. RulesFollowUnit'
      OBVIOUS
    <2>4. Under'
      OBVIOUS
    <2> QED
      BY <2>2, <2>3, <2>4 DEF RedirectInv
  <1>7. CASE Ready
    <2> USE <1>7 DEF Ready, Remains, Look, Succeeded, Failed, NotReady, Exec,
                     host
    <2>1. left' \in 0 .. Attempts
      OBVIOUS
    <2>2. RedirectTypeOK'
      BY <2>1 DEF Units, Commands
    <2>3. RulesFollowUnit'
      OBVIOUS
    <2>4. Under'
      OBVIOUS
    <2> QED
      BY <2>2, <2>3, <2>4 DEF RedirectInv
  <1>8. CASE Nft
    <2> USE <1>8 DEF Nft, Transaction, Succeeded, Failed, Exec
    <2>1. left' \in 0 .. Attempts
      OBVIOUS
    <2>2. RedirectTypeOK'
      BY <2>1 DEF Units, Commands
    <2>3. RulesFollowUnit'
      OBVIOUS
    <2>4. Under'
      OBVIOUS
    <2> QED
      BY <2>2, <2>3, <2>4 DEF RedirectInv
  <1>9. CASE Blind
    <2> USE <1>9 DEF Blind, Failed, host
    <2>1. left' \in 0 .. Attempts
      OBVIOUS
    <2>2. RedirectTypeOK'
      BY <2>1 DEF Units, Commands
    <2>3. RulesFollowUnit'
      OBVIOUS
    <2>4. Under'
      OBVIOUS
    <2> QED
      BY <2>2, <2>3, <2>4 DEF RedirectInv
  <1>10. CASE Kill
    <2> USE <1>10 DEF Kill, Failed
    <2>1. left' \in 0 .. Attempts
      OBVIOUS
    <2>2. RedirectTypeOK'
      BY <2>1 DEF Units, Commands
    <2>3. RulesFollowUnit'
      OBVIOUS
    <2>4. Under'
      OBVIOUS
    <2> QED
      BY <2>2, <2>3, <2>4 DEF RedirectInv
  <1>11. CASE Router
    <2> USE <1>11 DEF Router
    <2>1. left' \in 0 .. Attempts
      OBVIOUS
    <2>2. RedirectTypeOK'
      BY <2>1 DEF Units, Commands
    <2>3. RulesFollowUnit'
      OBVIOUS
    <2>4. Under'
      OBVIOUS
    <2> QED
      BY <2>2, <2>3, <2>4 DEF RedirectInv
  <1>12. CASE EditDefaults
    <2> USE <1>12 DEF EditDefaults
    <2>1. left' \in 0 .. Attempts
      OBVIOUS
    <2>2. RedirectTypeOK'
      BY <2>1 DEF Units, Commands
    <2>3. RulesFollowUnit'
      OBVIOUS
    <2>4. Under'
      OBVIOUS
    <2> QED
      BY <2>2, <2>3, <2>4 DEF RedirectInv
  <1>13. CASE Reboot
    <2> USE <1>13 DEF Reboot
    <2>1. left' \in 0 .. Attempts
      OBVIOUS
    <2>2. RedirectTypeOK'
      BY <2>1 DEF Units, Commands
    <2>3. RulesFollowUnit'
      OBVIOUS
    <2>4. Under'
      OBVIOUS
    <2> QED
      BY <2>2, <2>3, <2>4 DEF RedirectInv
  <1>14. CASE UNCHANGED redirectVars
    BY <1>14 DEF redirectVars, RedirectInv
  <1> QED
    BY <1>3, <1>4, <1>5, <1>6, <1>7, <1>8, <1>9, <1>10, <1>11, <1>12, <1>13,
       <1>14
       DEF RedirectNext, Statement

\* The invariant of the redirection holds, whatever the router does.
THEOREM RedirectInvariance == RedirectSpec => []RedirectInv
  BY RedirectBegins, RedirectStep, PTL DEF RedirectSpec

\* A command has its stage only while the unit is in a transition, and never
\* more attempts left than the script counts (telemt-egress-tproxy.sh:41-58).
THEOREM RedirectTypeCorrect == RedirectSpec => []RedirectTypeOK
  <1>1. RedirectInv => RedirectTypeOK
    BY DEF RedirectInv
  <1> QED
    BY <1>1, RedirectInvariance, PTL

\* The rules are there as long as the unit is active, and made from overrides
\* that were found valid; nothing is left of a unit that was stopped
\* (telemt-egress-tproxy.sh:60-89).
THEOREM RulesFollow == RedirectSpec => []RulesFollowUnit
  <1>1. RedirectInv => RulesFollowUnit
    BY DEF RedirectInv
  <1> QED
    BY <1>1, RedirectInvariance, PTL

\* Rules are changed to others only by a command that has seen the listener
\* (telemt-egress-tproxy.sh:41-64).
THEOREM RulesNeedTheListener == RedirectSpec => RulesNeedListener
  <1>1. RedirectInv /\ [RedirectNext]_redirectVars
        => [rules' \notin {None, rules} => seen]_redirectVars
    BY DEF RedirectInv, RedirectNext, Statement, StartUnit, ReloadUnit,
           StopUnit, Validate, Ready, Nft, Transaction, Blind, Kill, Router,
           EditDefaults, Reboot, redirectVars, host, Under
  <1> QED
    BY <1>1, RedirectInvariance, PTL DEF RedirectSpec, RulesNeedListener

=============================================================================
