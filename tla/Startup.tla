-------------------------------- MODULE Startup --------------------------------
(***************************************************************************)
(* The configuration is loaded (config.rs), and spawn_with in runtime.rs   *)
(* runs: the script's handlers are read, the router is built, every        *)
(* servers[] entry is bound, the http.startup hooks run to completion, and *)
(* only then does each bound listener listen and serve, in a task of its   *)
(* own. Routes may be restricted to listeners, which they ask for by name. *)
(*                                                                         *)
(* A listen value stands for a port, or with port 0 for one that the       *)
(* kernel picks. A socket is bound with SO_REUSEADDR, so the kernel gives  *)
(* a port to several sockets that ask for it as long as none of them       *)
(* listens; the second one to listen fails. Strangers are other processes  *)
(* that listen the same way.                                               *)
(***************************************************************************)
EXTENDS Naturals

CONSTANTS
    Servers,        \* how many servers[] entries there are
    Addresses,      \* listen values that parse
    Ports,          \* the sockets' addresses of the host
    Means,          \* the ports each listen value may come to be bound to
    Names,          \* names an entry may have, listen values among them
    Hooks           \* how many http.startup handlers there are

ASSUME ServersAssumption == Servers \in Nat
ASSUME HooksAssumption == Hooks \in Nat
ASSUME MeansAssumption == Means \in [Addresses -> (SUBSET Ports) \ {{}}]

Listeners == 1..Servers

Unnamed == "unnamed"        \* an entry without a name
ASSUME UnnamedAssumption == Unnamed \notin Names \cup Addresses

Nowhere == "nowhere"        \* where a socket is that is not bound
ASSUME NowhereAssumption == Nowhere \notin Ports

VARIABLES
    address,    \* where each listener is to be
    name,       \* its name option
    faulty,     \* listeners whose TLS files or options cannot be used
    routes,     \* whether the script registered a route
    wanted,     \* the listener names its routes are restricted to
    phase,
    next,       \* the listener to bind next
    failures,   \* how many could not be bound
    hook,       \* how many hooks ended
    sock,       \* the socket of each listener
    at,         \* the port it was bound to
    strangers   \* the ports other processes listen on

config == <<address, name, faulty, routes, wanted>>
vars   == <<config, phase, next, failures, hook, sock, at, strangers>>

TypeOK ==
    /\ address \in [Listeners -> Addresses]
    /\ name \in [Listeners -> Names \cup {Unnamed}]
    /\ faulty \subseteq Listeners
    /\ routes \in BOOLEAN
    /\ wanted \subseteq Names \cup Addresses
    /\ phase \in {"load", "read", "bind", "hooks", "serving", "exited"}
    /\ next \in 1..(Servers + 1)
    /\ failures \in 0..Servers
    /\ hook \in 0..Hooks
    /\ sock \in [Listeners -> {"none", "failed", "bound", "listening", "down"}]
    /\ at \in [Listeners -> Ports \cup {Nowhere}]
    /\ strangers \subseteq Ports

Init ==
    /\ address \in [Listeners -> Addresses]
    /\ name \in [Listeners -> Names \cup {Unnamed}]
    /\ faulty \in SUBSET Listeners
    /\ routes \in BOOLEAN
    /\ wanted \in IF routes THEN SUBSET (Names \cup Addresses) ELSE {{}}
    /\ phase = "load"
    /\ next = 1
    /\ failures = 0
    /\ hook = 0
    /\ sock = [s \in Listeners |-> "none"]
    /\ at = [s \in Listeners |-> Nowhere]
    /\ strangers \in SUBSET Ports

Taken(p) ==
    \/ p \in strangers
    \/ \E s \in Listeners : at[s] = p /\ sock[s] = "listening"

\* The listen value has a port of its own, not port 0.
HasPort(a) == \A p, q \in Means[a] : p = q

\* What a socket may be bound to: a port that was asked for is shared with
\* sockets that do not listen, one that the kernel picks is nobody's.
Free(a) ==
    {p \in Means[a] : ~Taken(p) /\ (HasPort(a) \/ \A s \in Listeners : at[s] # p)}

-----------------------------------------------------------------------------
(* The process.                                                             *)

ListenerName(s) == IF name[s] = Unnamed THEN address[s] ELSE name[s]

\* Mutant: a name is compared with other names only, not with an address
\* that stands for one.
SameName_NamesOnly(e, s) ==
    name[s] # Unnamed /\ name[e] # Unnamed /\ ListenerName(e) = ListenerName(s)

\* Two unnamed entries of one address pass, left to fail at bind. They do not:
\* see TwinsFailAtBind.
SameName(e, s) ==
    (name[s] # Unnamed \/ name[e] # Unnamed) /\ ListenerName(e) = ListenerName(s)

LoadConfig ==
    /\ phase = "load"
    /\ \A s \in Listeners : \A e \in 1..(s - 1) : ~SameName(e, s)
    /\ phase' = "read"
    /\ UNCHANGED <<config, next, failures, hook, sock, at, strangers>>

\* Two entries of one name; or the file or a listen value does not parse.
LoadFails ==
    /\ phase = "load"
    /\ phase' = "exited"
    /\ UNCHANGED <<config, next, failures, hook, sock, at, strangers>>

\* Mutant: one known name among those asked for is enough.
UnknownListeners_SomeKnown ==
    IF \E s \in Listeners : ListenerName(s) \in wanted THEN {} ELSE wanted

\* Names routes ask for that no entry has.
UnknownListeners == wanted \ {ListenerName(s) : s \in Listeners}

ReadScript ==
    /\ phase = "read"
    /\ UnknownListeners = {}
    /\ phase' = "bind"
    /\ UNCHANGED <<config, next, failures, hook, sock, at, strangers>>

\* A route names a listener that no entry has; or a middleware cannot be
\* read, or the routes do not make a router.
ReadFails ==
    /\ phase = "read"
    /\ phase' = "exited"
    /\ UNCHANGED <<config, next, failures, hook, sock, at, strangers>>

Bind(s) ==
    /\ phase = "bind"
    /\ next = s
    /\ next' = next + 1
    /\ IF s \in faulty \/ Free(address[s]) = {}
       THEN /\ sock' = [sock EXCEPT ![s] = "failed"]
            /\ failures' = failures + 1
            /\ UNCHANGED at
       ELSE /\ sock' = [sock EXCEPT ![s] = "bound"]
            /\ \E p \in Free(address[s]) : at' = [at EXCEPT ![s] = p]
            /\ UNCHANGED failures
    /\ UNCHANGED <<config, phase, hook, strangers>>

\* Mutant: only the loss of every listener is fatal.
Fatal_WhenAllFail == routes /\ failures = Servers

Fatal == routes /\ failures > 0

AllBound ==
    /\ phase = "bind"
    /\ next > Servers
    /\ phase' = IF Fatal THEN "exited" ELSE "hooks"
    /\ UNCHANGED <<config, next, failures, hook, sock, at, strangers>>

\* Mutants: a hook that raises ends the task; one hook too many is run.
HookEnds_RaiseStops ==
    /\ phase = "hooks"
    /\ hook < Hooks
    /\ hook' = hook + 1
    /\ phase' \in {"hooks", "exited"}
    /\ UNCHANGED <<config, next, failures, sock, at, strangers>>
HookEnds_OneMore ==
    /\ phase = "hooks"
    /\ hook <= Hooks
    /\ hook' = hook + 1
    /\ UNCHANGED <<config, phase, next, failures, sock, at, strangers>>

\* A hook returned or raised; either way the next one runs.
HookEnds ==
    /\ phase = "hooks"
    /\ hook < Hooks
    /\ hook' = hook + 1
    /\ UNCHANGED <<config, phase, next, failures, sock, at, strangers>>

\* Mutant: the listeners are served beside the hooks.
SpawnListeners_Early ==
    /\ phase = "hooks"
    /\ phase' = "serving"
    /\ UNCHANGED <<config, next, failures, hook, sock, at, strangers>>

SpawnListeners ==
    /\ phase = "hooks"
    /\ hook = Hooks
    /\ phase' = "serving"
    /\ UNCHANGED <<config, next, failures, hook, sock, at, strangers>>

\* A listener that cannot listen is logged; its task ends and the others go on.
Listen(s) ==
    /\ phase = "serving"
    /\ sock[s] = "bound"
    /\ sock' = [sock EXCEPT ![s] = IF Taken(at[s]) THEN "down" ELSE "listening"]
    /\ UNCHANGED <<config, phase, next, failures, hook, at, strangers>>

-----------------------------------------------------------------------------
(* Other processes.                                                         *)

StrangerListens(p) ==
    /\ ~Taken(p)
    /\ strangers' = strangers \cup {p}
    /\ UNCHANGED <<config, phase, next, failures, hook, sock, at>>

StrangerStops(p) ==
    /\ p \in strangers
    /\ strangers' = strangers \ {p}
    /\ UNCHANGED <<config, phase, next, failures, hook, sock, at>>

-----------------------------------------------------------------------------
Process ==
    \/ LoadConfig \/ LoadFails \/ ReadScript \/ ReadFails
    \/ AllBound \/ HookEnds \/ SpawnListeners
    \/ \E s \in Listeners : Bind(s) \/ Listen(s)

Next == Process \/ \E p \in Ports : StrangerListens(p) \/ StrangerStops(p)

\* The process runs on, and every hook ends.
Spec == Init /\ [][Next]_vars /\ WF_vars(Process)

-----------------------------------------------------------------------------
(* Properties.                                                              *)

\* No connection is taken before every startup hook ended.
HooksBeforeConnections ==
    \A s \in Listeners : sock[s] = "listening" => hook = Hooks

\* A process with routes that got past its binds has bound every listener, and
\* to a port its listen value stands for. That is what bind_listener sees to,
\* and no more: a listener may yet find its port taken when it comes to listen,
\* by a stranger or by another entry (see TwinsFailAtBind), and be down while
\* the process serves.
RoutesHoldEveryBind ==
    routes /\ phase \in {"hooks", "serving"} =>
        \A s \in Listeners :
            /\ sock[s] \in {"bound", "listening", "down"}
            /\ at[s] \in Means[address[s]]

\* A listener name means one socket that takes connections, so a route that is
\* restricted to a name is served through that socket alone: because names
\* are unique but for unnamed entries of one address, and those cannot both
\* listen on a port of their own. With port 0 they can, and their name means
\* both of them.
NameIsOneListener ==
    \A s, t \in Listeners :
        /\ s # t
        /\ sock[s] = "listening" /\ sock[t] = "listening"
        /\ ListenerName(s) = ListenerName(t)
        => /\ name[s] = Unnamed /\ name[t] = Unnamed
           /\ ~HasPort(address[s])
           /\ at[s] # at[t]

\* A process that got past its binds holds a listener for every name its
\* routes ask for: no restricted route is bound to be served nowhere.
WantedListenersAreHeld ==
    phase \in {"hooks", "serving"} =>
        \A n \in wanted : \E s \in Listeners :
            ListenerName(s) = n /\ sock[s] \in {"bound", "listening", "down"}

\* A process that starts serving settles: each listener that was bound comes
\* up, or found its address taken; a hook that raises stops none of them, and
\* one that lost its address does not stop the others.
ListenersSettle ==
    \A s \in Listeners :
        (phase = "hooks" /\ sock[s] = "bound") ~> sock[s] \in {"listening", "down"}

\* config.rs: "Two unnamed entries with one address are left to fail at bind,
\* as they always did". Both are bound, and the second finds out when it comes
\* to listen, after the hooks, when that no longer stops a process with routes.
TwinsFailAtBind ==
    phase \in {"hooks", "serving"} =>
        \A s, t \in Listeners :
            /\ s # t
            /\ name[s] = Unnamed /\ name[t] = Unnamed
            /\ address[s] = address[t]
            => "failed" \in {sock[s], sock[t]}
=============================================================================
