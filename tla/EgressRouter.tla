---------------------------- MODULE EgressRouter ----------------------------
(***************************************************************************)
(* The whole path from a subscription to the running router: deploy.sh     *)
(* (Activation) asks the manager (SubscriptionStore) for a generation over *)
(* HTTP, copies what the manager has published and recreates the router.   *)
(* Meanwhile the manager refreshes by itself, serves clients that take no  *)
(* lock, and finishes requests whose client gave up.                       *)
(*                                                                         *)
(* The contents of the configuration files are the manager's: the base     *)
(* configuration that init.sh seeds, and what sing-box has accepted.       *)
(***************************************************************************)
EXTENDS Activation, Subscriptions

VARIABLES
    subscriptions,  \* the manager's subscriptions
    known,          \* names that clients were told are subscribed
    post,           \* each command's request to the manager
    add,            \* what it asks for: a subscription, or NoAdd for a refresh
    heard           \* history: known when the request was made

manager == <<subscriptions, known>>
request == <<post, add, heard>>
all     == <<vars, manager, request>>

Store == INSTANCE SubscriptionStore WITH published <- config

\* What a file in runtime/ may hold.
Valid == {Seed} \cup {c \in Config : c.valid}

ASSUME ContentIsValid == Content = Valid

RouterInit ==
    /\ Init
    /\ Store!StoreInit
    /\ active = Seed /\ previous = Missing
    /\ post = [s \in Script |-> "none"]
    /\ add = [s \in Script |-> NoAdd]
    /\ heard = [s \in Script |-> {}]

-----------------------------------------------------------------------------
\* The manager is up and answers GET /health; the request is posted.
Post(s) ==
    /\ pc[s] = "start" /\ action[s] = "apply" /\ post[s] = "none"
    /\ post' = [post EXCEPT ![s] = "sent"]
    /\ \E a \in Accepted \cup {NoAdd} : add' = [add EXCEPT ![s] = a]
    /\ heard' = [heard EXCEPT ![s] = known]
    /\ UNCHANGED <<vars, manager>>

\* Mutant: the manager answers before it has published.
CommitLater(s) ==
    \/ Store!Commit(add[s])
    \/ add[s] # NoAdd /\ Store!StoreOnly(add[s])

\* The manager generates and publishes what is asked for.
CommitFor(s) == Store!Commit(add[s])

Serve(s) ==
    /\ post[s] = "sent"
    /\ CommitFor(s)
    /\ post' = [post EXCEPT ![s] = "done"]
    /\ UNCHANGED <<lock, active, previous, recovery, router, pc, action, result, held, settled,
                   add, heard>>

Succeeded(s) == post[s] = "done"

\* The answer arrives; the client knows of its subscription.
Answer(s) ==
    /\ pc[s] = "start" /\ Succeeded(s)
    /\ Goto(s, "save")
    /\ known' = IF add[s] = NoAdd THEN known ELSE known \cup {add[s].name}
    /\ UNCHANGED <<lock, config, active, previous, recovery, router, action, result, held,
                   settled, subscriptions, request>>

\* No success is heard of: an error, a timeout, a manager that does not start.
\* Whether the request takes effect is another matter.
NoAnswer(s) ==
    /\ pc[s] = "start" /\ action[s] = "apply"
    /\ End(s, "unchanged")
    /\ UNCHANGED <<lock, config, active, previous, recovery, router, action, held, settled,
                   manager, request>>

\* A command begins with no request.
Begin(s) ==
    /\ Acquire(s)
    /\ post' = [post EXCEPT ![s] = "none"]
    /\ UNCHANGED <<manager, add, heard>>

\* Everything else the command does concerns the files and the router.
Proceed(s) ==
    /\ \/ Invoke(s) \/ SavePrevious(s) \/ PrepareRollback(s) \/ Activate(s) \/ Recreate(s)
       \/ Verify(s) \/ SwapPrevious(s) \/ Disarm(s) \/ Cleanup(s) \/ RestoreActive(s)
       \/ RestoreRecreate(s) \/ RestoreVerify(s) \/ Exit(s) \/ Interrupt(s) \/ Kill(s)
    /\ UNCHANGED <<manager, request>>

\* The host and the router.
Host ==
    /\ PowerLoss \/ RouterRestart
    /\ UNCHANGED <<manager, request>>

\* Mutant: the manager's output is the file the router mounts.
ManagerMounted ==
    /\ Store!StoreNext
    /\ active' = config'
    /\ UNCHANGED <<lock, previous, recovery, router, pc, action, result, held, settled,
                   request>>

\* Background refreshes, other clients, and requests nobody waits for.
ManagerAlone ==
    /\ Store!StoreNext
    /\ UNCHANGED <<lock, active, previous, recovery, router, pc, action, result, held, settled,
                   request>>

RouterNext ==
    \/ \E s \in Script :
          Post(s) \/ Serve(s) \/ Answer(s) \/ NoAnswer(s) \/ Begin(s) \/ Proceed(s)
    \/ Host
    \/ ManagerAlone

RouterSpec == RouterInit /\ [][RouterNext]_all

-----------------------------------------------------------------------------
Served(content) == IF content \in Config THEN Names(content.subs) ELSE {}

\* What a command may expect of a configuration generated for it: the name it
\* adds, and every name its operator could know.
Promised(s) == heard[s] \cup (IF add[s] = NoAdd THEN {} ELSE {add[s].name})

\* Requests have their type, and only an "apply" that has the lock waits for
\* one (deploy.sh:67-86).
RouterTypeOK ==
    /\ TypeOK
    /\ subscriptions \subseteq Sub /\ known \subseteq Name \cup {EmptyName}
    /\ post \in [Script -> {"none", "sent", "done"}]
    /\ add \in [Script -> Accepted \cup {NoAdd}]
    /\ heard \in [Script -> SUBSET (Name \cup {EmptyName})]
    /\ \A s \in Script : pc[s] = "save" => post[s] = "done"

\* After a successful deploy, refresh or add the running router serves the name
\* added and every name anybody had been told of when the request was made,
\* although the manager goes on publishing between its answer and the copy, and
\* others add and refresh without the lock (deploy.sh:76-104, main.go:575-590,
\* 647-665).
SuccessIsCurrent ==
    \A s \in Script :
        pc[s] = "exit" /\ result[s] = "ok" /\ action[s] = "apply" =>
            Promised(s) \subseteq Served(router)

\* Through every copy, restore, rollback and restart, the router runs nothing
\* but the seed or a configuration sing-box has accepted, generated from
\* subscriptions that do not collide and that the manager still has
\* (main.go:481-488, 572-582, deploy.sh:35-38, 91-108).
RouterRunsChecked ==
    router \notin {Seed, Down} =>
        /\ router.valid /\ CollisionFree(router.subs)
        /\ Names(router.subs) \subseteq Names(subscriptions)

\* The composition does not change what either part promises: to the commands
\* the manager is Activation's environment, and to its clients it is the store.
ImplementsActivation == Spec
ImplementsStore      == Store!StoreSpec

\* A command sees no other manager, and a client no other store, for the other
\* part being there (deploy.sh:10-113, main.go:406-450).
ImplementsParts == ImplementsActivation /\ ImplementsStore
=============================================================================
