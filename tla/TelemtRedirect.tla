--------------------------- MODULE TelemtRedirect ---------------------------
(***************************************************************************)
(* Interception of telemt's traffic (src/telemt-egress-tproxy.sh and its   *)
(* systemd unit).  The rules redirect the Telegram connections of one      *)
(* address and one user to a port of sing-box and close that port to the   *)
(* network; a redirect to a port where nobody listens cuts telemt off.     *)
(*                                                                         *)
(* systemd runs one command of the unit at a time and may kill it; the     *)
(* router comes and goes; overrides are edited; the host reboots.          *)
(***************************************************************************)
EXTENDS Naturals

CONSTANTS
    Settings,    \* what /etc/default/telemt-egress-tproxy may say
    Valid,       \* those that validate() accepts
    None,        \* no table in the kernel
    Attempts     \* how often ready() looks for the listener

ASSUME SettingsAssumption == Valid \subseteq Settings /\ None \notin Settings
ASSUME AttemptsAssumption == Attempts \in Nat \ {0}

VARIABLES
    listener,    \* sing-box listens on 0.0.0.0:12345
    rules,       \* the settings the installed table was made from, or None
    defaults,    \* the overrides, which systemd reads for every command
    unit,        \* the state of the systemd unit
    command,     \* the command of the unit that runs
    at,          \* where it stands
    given,       \* the overrides it was started with
    left,        \* attempts it has left
    seen         \* history: it has seen the listener

redirectVars == <<listener, rules, defaults, unit, command, at, given, left, seen>>
host == <<listener, rules, defaults>>

Units    == {"inactive", "starting", "active", "reloading", "stopping", "failed"}
Commands == {"ready", "start", "restart", "stop"}

RedirectInit ==
    /\ listener \in BOOLEAN
    /\ rules = None
    /\ defaults \in Settings
    /\ unit = "inactive"
    /\ command = "stop" /\ at = "none" /\ given = defaults
    /\ left = 0 /\ seen = FALSE

\* systemd starts a command with the overrides of this moment.
Exec(c) ==
    /\ command' = c
    /\ given' = defaults
    /\ left' = Attempts
    /\ seen' = FALSE
    /\ at' = IF c = "stop" THEN "nft" ELSE "validate"

StartUnit ==
    /\ unit \in {"inactive", "failed"}
    /\ unit' = "starting" /\ Exec("ready")
    /\ UNCHANGED host

ReloadUnit ==
    /\ unit = "active"
    /\ unit' = "reloading" /\ Exec("restart")
    /\ UNCHANGED host

StopUnit ==
    /\ unit = "active"
    /\ unit' = "stopping" /\ Exec("stop")
    /\ UNCHANGED host

-----------------------------------------------------------------------------
\* A command that fails fails its unit; only a failed reload leaves it active.
Failed ==
    /\ at' = "none"
    /\ unit' = IF unit = "reloading" THEN "active" ELSE "failed"
    /\ UNCHANGED <<command, given, left, seen>>

\* ready is followed by start; start, restart and stop are the last ones.
Succeeded ==
    IF command = "ready"
    THEN unit' = unit /\ Exec("start")
    ELSE /\ at' = "none"
         /\ unit' = IF command = "stop" THEN "inactive" ELSE "active"
         /\ UNCHANGED <<command, given, left, seen>>

Step(stage) == at' = stage /\ UNCHANGED <<unit, command, given, left, seen>>

Validate ==
    /\ at = "validate"
    /\ IF given \in Valid THEN Step("ready") ELSE Failed
    /\ UNCHANGED host

\* Mutant: what ready() found does not end the script.
GoOn == IF command = "ready" THEN Succeeded ELSE Step("nft")

NotReady == Failed

\* Mutant: the attempts are not counted.
LookForever == left' = left

Look == left' = left - 1

\* Mutant: one attempt too many.
OneMore == left >= 0

Remains == left > 0

\* ready(): look for the listener, sleep, look again.
Ready ==
    /\ at = "ready"
    /\ \/ /\ listener /\ Remains
          /\ IF command = "ready"
             THEN Succeeded
             ELSE /\ at' = "nft" /\ seen' = TRUE
                  /\ UNCHANGED <<unit, command, given, left>>
       \/ /\ ~listener /\ Remains
          /\ Look
          /\ UNCHANGED <<unit, command, at, given, seen>>
       \/ ~Remains /\ NotReady
    /\ UNCHANGED host

\* ss cannot be asked.
Blind ==
    /\ at = "ready"
    /\ Failed
    /\ UNCHANGED host

\* Mutant: the old table is deleted by a command of its own.
DeleteThenAdd ==
    \/ rules' = None /\ Failed
    \/ rules' = (IF command = "stop" THEN None ELSE given) /\ Succeeded

\* One nft -f: the table is replaced, or removed, or nothing has happened.
Transaction ==
    \/ rules' = (IF command = "stop" THEN None ELSE given) /\ Succeeded
    \/ Failed /\ UNCHANGED rules

Nft ==
    /\ at = "nft"
    /\ Transaction
    /\ UNCHANGED <<listener, defaults>>

\* systemd's time is up, or an operator cancels the job: the transaction may
\* already have been committed.
Kill ==
    /\ at # "none"
    /\ \/ UNCHANGED rules
       \/ at = "nft" /\ rules' = (IF command = "stop" THEN None ELSE given)
    /\ Failed
    /\ UNCHANGED <<listener, defaults>>

-----------------------------------------------------------------------------
Router ==
    /\ listener' = ~listener
    /\ UNCHANGED <<rules, defaults, unit, command, at, given, left, seen>>

EditDefaults ==
    /\ defaults' \in Settings
    /\ UNCHANGED <<listener, rules, unit, command, at, given, left, seen>>

Reboot ==
    /\ rules' = None /\ listener' = FALSE
    /\ unit' = "inactive" /\ at' = "none"
    /\ UNCHANGED <<defaults, command, given, left, seen>>

Statement == Validate \/ Ready \/ Nft

RedirectNext == \/ StartUnit \/ ReloadUnit \/ StopUnit \/ Statement \/ Blind \/ Kill
                \/ Router \/ EditDefaults \/ Reboot

RedirectSpec == RedirectInit /\ [][RedirectNext]_redirectVars

\* A command that runs goes on: ss, sleep and nft return.
RedirectFairSpec == RedirectSpec /\ WF_redirectVars(Statement)

-----------------------------------------------------------------------------
\* Types; a command has its stage only while the unit is in a transition.
RedirectTypeOK ==
    /\ listener \in BOOLEAN
    /\ rules \in Settings \cup {None} /\ defaults \in Settings /\ given \in Settings
    /\ unit \in Units /\ command \in Commands
    /\ at \in {"none", "validate", "ready", "nft"}
    /\ left \in 0 .. Attempts /\ seen \in BOOLEAN
    /\ at = "none" <=> unit \notin {"starting", "reloading", "stopping"}

\* While the unit is active telemt is intercepted, by rules made from valid
\* overrides; a reload that fails, at whatever point and with whatever
\* overrides, leaves the rules it found (telemt-egress-tproxy.sh:60-82).
ActiveIntercepts == unit \in {"active", "reloading"} => rules \in Valid

\* When the unit was stopped there is nothing left of it
\* (telemt-egress-tproxy.sh:84-89).
InactiveIsClean == unit = "inactive" => rules = None

\* The rules are there as long as the unit is, through reloads and stops that
\* fail or are killed (telemt-egress-tproxy.sh:60-89).
RulesFollowUnit == ActiveIntercepts /\ InactiveIsClean

\* Nothing is redirected unless the very command that installs the rules has
\* seen the listener.  (It may be gone again when they take effect.)
\* (telemt-egress-tproxy.sh:41-64)
RulesNeedListener == [][rules' \notin {None, rules} => seen]_redirectVars

\* The unit comes to rest, whether the router ever listens or not
\* (telemt-egress-tproxy.sh:43-57).
UnitSettles == at # "none" ~> at = "none"
=============================================================================
