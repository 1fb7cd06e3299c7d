------------------------------ MODULE RouteMatch ------------------------------
(***************************************************************************)
(* Which of a path's handlers serves a request: match_route in runtime.rs, *)
(* with RouteScope::serves_listener, run as the loop it is. The routes of  *)
(* a path are in the order the script registered them; a route is the      *)
(* methods it takes and the listeners it is restricted to, if it is. A     *)
(* request comes in through a listener, or through a connection whose      *)
(* listener is not known.                                                  *)
(***************************************************************************)
EXTENDS Naturals, Sequences

CONSTANTS Methods, Names, MaxRoutes

ASSUME MaxRoutesAssumption == MaxRoutes \in Nat

Everywhere == "everywhere"      \* no listeners= option
Unknown    == "unknown"         \* no ConnectionInfo on the request
ASSUME NamesAssumption == Unknown \notin Names

\* A restriction that is no list and one that is must not be compared: the
\* option is a flag beside the list.
Scopes == [methods : SUBSET Methods, restricted : BOOLEAN, listeners : SUBSET Names]

VARIABLES
    scopes,     \* the scopes of the path's routes
    method,
    listener,
    index,      \* the route the loop looks at
    onThis,     \* on_this_listener
    result      \* what the loop returned

vars    == <<scopes, method, listener, index, onThis, result>>
request == <<scopes, method, listener>>

Looking          == [what |-> "looking", at |-> 0]
Handler(i)       == [what |-> "handler", at |-> i]
MethodNotAllowed == [what |-> "405", at |-> 0]
NotOnThisListener == [what |-> "404", at |-> 0]

TypeOK ==
    /\ scopes \in Seq(Scopes)
    /\ method \in Methods
    /\ listener \in Names \cup {Unknown}
    /\ index \in 1..(Len(scopes) + 1)
    /\ onThis \in BOOLEAN
    /\ result \in {Looking, MethodNotAllowed, NotOnThisListener}
              \cup {Handler(i) : i \in 1..Len(scopes)}

Init ==
    /\ scopes \in UNION {[1..n -> Scopes] : n \in 0..MaxRoutes}
    /\ method \in Methods
    /\ listener \in Names \cup {Unknown}
    /\ index = 1
    /\ onThis = FALSE
    /\ result = Looking

\* Mutant: a request whose listener is not known passes a restriction.
ServesListener_UnknownPasses(scope, name) ==
    ~scope.restricted \/ name = Unknown \/ name \in scope.listeners

ServesListener(scope, name) ==
    ~scope.restricted \/ (name # Unknown /\ name \in scope.listeners)

AtRoute == result = Looking /\ index <= Len(scopes)
Scope   == scopes[index]

Skip ==
    /\ AtRoute
    /\ ~ServesListener(Scope, listener)
    /\ index' = index + 1
    /\ UNCHANGED <<request, onThis, result>>

Take ==
    /\ AtRoute
    /\ ServesListener(Scope, listener)
    /\ method \in Scope.methods
    /\ result' = Handler(index)
    /\ UNCHANGED <<request, index, onThis>>

\* Mutants: a route without the method takes the next one with it; the last
\* route decides between 404 and 405.
Pass_TooFar ==
    /\ AtRoute
    /\ ServesListener(Scope, listener)
    /\ method \notin Scope.methods
    /\ onThis' = TRUE
    /\ index' = index + 2
    /\ UNCHANGED <<request, result>>

Pass_Forgets ==
    /\ AtRoute
    /\ ServesListener(Scope, listener)
    /\ method \notin Scope.methods
    /\ onThis' = (index = Len(scopes))
    /\ index' = index + 1
    /\ UNCHANGED <<request, result>>

Pass ==
    /\ AtRoute
    /\ ServesListener(Scope, listener)
    /\ method \notin Scope.methods
    /\ onThis' = TRUE
    /\ index' = index + 1
    /\ UNCHANGED <<request, result>>

Exhausted ==
    /\ result = Looking
    /\ index > Len(scopes)
    /\ result' = IF onThis THEN MethodNotAllowed ELSE NotOnThisListener
    /\ UNCHANGED <<request, index, onThis>>

Next == Skip \/ Take \/ Pass \/ Exhausted

Spec == Init /\ [][Next]_vars

-----------------------------------------------------------------------------
(* Properties.                                                              *)

On(i)    == ServesListener(scopes[i], listener)
Takes(i) == On(i) /\ method \in scopes[i].methods
Routes   == 1..Len(scopes)

\* The handler is the first registered one that exists on the listener and
\* takes the method; 405 is answered exactly when the path exists on the
\* listener and none takes the method, 404 exactly when it does not exist
\* there, so a restricted path shows nothing of itself elsewhere.
MatchIsRight ==
    /\ result.what = "handler" =>
          Takes(result.at) /\ \A j \in 1..(result.at - 1) : ~Takes(j)
    /\ result.what = "405" =>
          (\E i \in Routes : On(i)) /\ \A i \in Routes : ~Takes(i)
    /\ result.what = "404" => \A i \in Routes : ~On(i)

\* A restricted route is never reached by a connection that is not known to
\* have come through one of its listeners.
RestrictionHolds ==
    result.what = "handler" =>
        LET scope == scopes[result.at]
        IN scope.restricted => listener \in scope.listeners
=============================================================================
