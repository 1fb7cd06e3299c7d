------------------------------- MODULE Routing -------------------------------
(***************************************************************************)
(* From @http.route to the function that serves a request. The script      *)
(* calls the decorator (python/http.py); once it is loaded, spawn_with     *)
(* reads what was registered and builds the router, and refuses to start   *)
(* when a route asks for a listener there is none of (runtime.rs). Then a  *)
(* request is matched to a template, by matchit, and to one of its         *)
(* handlers, by RouteMatch's loop. Requests share nothing but the router,  *)
(* which no longer changes: one stands for all.                            *)
(***************************************************************************)
EXTENDS RouteMatch, Functions

CONSTANTS
    Calls,          \* calls of http.route; at most MaxRoutes are made
    Words,          \* what a script may write for a method
    Upper,          \* str.upper on words
    Tokens,         \* the words Method::from_bytes takes
    Configured,     \* the names of the servers[] entries
    Templates,
    Covering        \* for each path, the templates that match it, the most
                    \* specific one first

NotText   == "not text"     \* a value no String can be extracted from
NoPath    == ""             \* path=""
NoRequest == "no request"

\* The arguments as the script writes them. `spelled` says whether methods=
\* is given, and `form` whether listeners= is missing, a list or a bare string.
CallArguments ==
    [path : Templates \cup {NoPath, NotText},
     spelled : BOOLEAN, methods : Seq(Words \cup {NotText}),
     form : {"none", "string", "list"}, listeners : Seq(Names \cup {NotText})]

ASSUME CallsAssumption == Calls \subseteq CallArguments
ASSUME WordsAssumption ==
    /\ Upper \in [Words \cup {NotText} -> Words \cup {NotText}]
    /\ \A w \in Words \cup {NotText} : Upper[w] = NotText <=> w = NotText
    /\ Tokens \subseteq Words
    /\ Tokens \subseteq Methods
    /\ NotText \notin Words
    /\ "GET" \in Tokens
ASSUME ConfiguredAssumption == Configured \subseteq Names /\ NotText \notin Names
ASSUME TemplatesAssumption ==
    /\ NoPath \notin Templates /\ NotText \notin Templates /\ NoPath # NotText
    /\ Covering \in [DOMAIN Covering -> Seq(Templates)]
    /\ NoRequest \notin DOMAIN Covering

Paths == DOMAIN Covering

VARIABLES
    registered,     \* the options of the calls so far, in order
    phase,
    next,           \* the registration to read next
    router,         \* for each template its handlers, in order
    path,           \* the request's path
    template        \* the template it was matched to

startup    == <<registered, phase, next, router>>
routingVars == <<vars, startup, path, template>>

Entries == [at : Nat, scope : Scopes]

RoutingTypeOK ==
    /\ TypeOK
    /\ registered \in Seq(Calls)
    /\ phase \in {"script", "build", "serving", "exited", "matching", "unrouted"}
    /\ next \in 1..(Len(registered) + 1)
    /\ router \in [Templates -> Seq(Entries)]
    /\ path \in Paths \cup {NoRequest}
    /\ template \in Templates \cup {NoPath}

RoutingInit ==
    /\ registered = <<>>
    /\ phase = "script"
    /\ next = 1
    /\ router = [t \in Templates |-> <<>>]
    /\ path = NoRequest
    /\ template = NoPath
    /\ scopes = <<>> /\ method = "GET" /\ listener = Unknown
    /\ index = 1 /\ onThis = FALSE /\ result = Looking

-----------------------------------------------------------------------------
(* The decorator, and what spawn_with reads of it.                          *)

Register(call) ==
    /\ phase = "script"
    /\ Len(registered) < MaxRoutes
    /\ registered' = Append(registered, call)
    /\ UNCHANGED <<vars, phase, next, router, path, template>>

ScriptLoaded ==
    /\ phase = "script"
    /\ phase' = "build"
    /\ UNCHANGED <<vars, registered, next, router, path, template>>

\* route(): the default, or the words in upper case.
MethodsOf(call) ==
    IF call.spelled THEN {Upper[w] : w \in Range(call.methods)} ELSE {"GET"}

\* Every option can be extracted.
Readable(call) ==
    /\ call.path # NotText
    /\ NotText \notin MethodsOf(call)
    /\ call.form # "none" => NotText \notin Range(call.listeners)

\* Mutant: an empty list of listeners is no restriction.
Restricted_ByNames(call) == call.form # "none" /\ call.listeners # <<>>

\* A list restricts the route, an empty one too; a string is a list of one.
Restricted(call) == call.form # "none"

\* What is no method is left out.
ScopeOf(call) ==
    [methods    |-> MethodsOf(call) \cap Tokens,
     restricted |-> Restricted(call),
     listeners  |-> IF Restricted(call) THEN Range(call.listeners) ELSE {}]

\* read_routes skips malformed options, build_router an empty path.
SkipRoute ==
    /\ phase = "build"
    /\ next <= Len(registered)
    /\ ~Readable(registered[next]) \/ registered[next].path = NoPath
    /\ next' = next + 1
    /\ UNCHANGED <<vars, registered, phase, router, path, template>>

AddRoute ==
    /\ phase = "build"
    /\ next <= Len(registered)
    /\ Readable(registered[next])
    /\ registered[next].path # NoPath
    /\ router' = [router EXCEPT ![registered[next].path] =
                     Append(@, [at |-> next, scope |-> ScopeOf(registered[next])])]
    /\ next' = next + 1
    /\ UNCHANGED <<vars, registered, phase, path, template>>

\* Mutant: a route is fine as long as one of its listeners exists.
UnknownListeners_AllUnknown ==
    UNION {entry.scope.listeners :
              entry \in {e \in UNION {Range(router[t]) : t \in Templates} :
                            e.scope.listeners \cap Configured = {}}}

\* unknown_route_listeners: names no servers[] entry has.
UnknownListeners ==
    (UNION {entry.scope.listeners : entry \in UNION {Range(router[t]) : t \in Templates}})
        \ Configured

Built ==
    /\ phase = "build"
    /\ next > Len(registered)
    /\ phase' = IF UnknownListeners = {} THEN "serving" ELSE "exited"
    /\ UNCHANGED <<vars, registered, next, router, path, template>>

-----------------------------------------------------------------------------
(* One request.                                                             *)

\* matchit: the most specific template the router has routes of, if any.
Best(p, t) ==
    \E i \in DOMAIN Covering[p] :
        /\ Covering[p][i] = t
        /\ router[t] # <<>>
        /\ \A j \in 1..(i - 1) : router[Covering[p][j]] = <<>>

\* dispatch and route_gate: the method, and the listener if it is known.
Arrive(p, m, l) ==
    /\ phase = "serving"
    /\ path' = p /\ method' = m /\ listener' = l
    /\ \E t \in Templates :
          /\ Best(p, t)
          /\ template' = t
          /\ scopes' = [i \in DOMAIN router[t] |-> router[t][i].scope]
    /\ phase' = "matching"
    /\ UNCHANGED <<registered, next, router, index, onThis, result>>

\* axum's fallback: 404.
Unrouted(p, m, l) ==
    /\ phase = "serving"
    /\ path' = p /\ method' = m /\ listener' = l
    /\ \A i \in DOMAIN Covering[p] : router[Covering[p][i]] = <<>>
    /\ phase' = "unrouted"
    /\ result' = NotOnThisListener
    /\ UNCHANGED <<registered, next, router, template, scopes, index, onThis>>

\* match_route's loop.
Match ==
    /\ phase = "matching"
    /\ Next
    /\ UNCHANGED <<startup, path, template>>

RoutingNext ==
    \/ \E call \in Calls : Register(call)
    \/ ScriptLoaded \/ SkipRoute \/ AddRoute \/ Built \/ Match
    \/ \E p \in Paths, m \in Methods, l \in Configured \cup {Unknown} :
          Arrive(p, m, l) \/ Unrouted(p, m, l)

RoutingSpec == RoutingInit /\ [][RoutingNext]_routingVars

-----------------------------------------------------------------------------
(* Properties, in the script's own words.                                   *)

\* The registration was written so that it can be taken: text throughout.
Proper(i) ==
    LET call == registered[i]
    IN  /\ call.path \in Templates
        /\ call.spelled => NotText \notin Range(call.methods)
        /\ call.form # "none" => NotText \notin Range(call.listeners)

\* It names the request's path and listener; it names the method.
MeantHere(i) ==
    /\ Proper(i)
    /\ registered[i].path = template
    /\ registered[i].form = "none" \/ listener \in Range(registered[i].listeners)
MeansMethod(i) ==
    IF registered[i].spelled
    THEN \E w \in Range(registered[i].methods) : Upper[w] = method /\ method \in Tokens
    ELSE method = "GET"
Meant(i) == MeantHere(i) /\ MeansMethod(i)

\* A request is served by the first function the script registered for it, by
\* path, method and listener, whatever else it registered before or after,
\* malformed or not; by none when it registered none, and a function with
\* listeners=[] by nobody.
ServedAsRegistered ==
    /\ phase = "matching" /\ result.what = "handler" =>
          LET i == router[template][result.at].at
          IN  Meant(i) /\ \A j \in 1..(i - 1) : ~Meant(j)
    /\ phase = "matching" /\ result.what = "405" =>
          (\E i \in DOMAIN registered : MeantHere(i)) /\ \A i \in DOMAIN registered : ~Meant(i)
    /\ phase = "matching" /\ result.what = "404" => \A i \in DOMAIN registered : ~MeantHere(i)
    /\ phase = "unrouted" =>
          \A i \in DOMAIN registered :
              Proper(i) => registered[i].path \notin Range(Covering[path])

\* The process serves exactly when every listener that a proper registration
\* names exists: no misspelled name takes a function off every listener.
ServesOnlyWhatExists ==
    LET named == UNION {Range(registered[i].listeners) :
                           i \in {j \in DOMAIN registered :
                                     Proper(j) /\ registered[j].form # "none"}}
    IN  /\ phase = "exited" => ~(named \subseteq Configured)
        /\ phase \in {"serving", "matching", "unrouted"} => named \subseteq Configured
=============================================================================
