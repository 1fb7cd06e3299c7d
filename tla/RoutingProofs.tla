---------------------------- MODULE RoutingProofs ----------------------------
(***************************************************************************)
(* Theorems about Routing, for any script, any templates and listeners and *)
(* any request.                                                            *)
(***************************************************************************)
EXTENDS Routing, SequenceTheorems, TLAPS

-----------------------------------------------------------------------------
(* The loop of RouteMatch, for any methods and listeners and any number of   *)
(* routes on the path.                                                       *)

\* The loop's invariant: no route the loop went past serves the request, and
\* onThis tells whether one of them exists on the listener.
LoopInv ==
    /\ TypeOK
    /\ \A j \in 1..(index - 1) : ~Takes(j)
    /\ onThis <=> \E j \in 1..(index - 1) : On(j)
    /\ MatchIsRight

LEMMA LoopInit == Init => LoopInv
<1> SUFFICES ASSUME Init PROVE LoopInv
  OBVIOUS
<1>1. PICK n \in 0..MaxRoutes : scopes \in [1..n -> Scopes]
  BY DEF Init
<1>2. n \in Nat
  BY MaxRoutesAssumption
<1>3. scopes \in Seq(Scopes) /\ Len(scopes) \in Nat
  BY <1>1, <1>2, IsASeq, LenProperties
<1>4. TypeOK
  <2>1. index \in 1..(Len(scopes) + 1)
    BY <1>3 DEF Init
  <2> QED
    BY <1>3, <2>1, Zenon DEF Init, TypeOK
<1>5. MatchIsRight
  BY DEF Init, MatchIsRight, Looking
<1> QED
  BY <1>4, <1>5 DEF Init, LoopInv

LEMMA LoopNext == LoopInv /\ [Next]_vars => LoopInv'
<1> SUFFICES ASSUME LoopInv, [Next]_vars PROVE LoopInv'
  OBVIOUS
<1>1. Len(scopes) \in Nat /\ index \in Nat /\ index >= 1
  BY LenProperties DEF LoopInv, TypeOK
<1>2. CASE UNCHANGED vars
  BY <1>2 DEF LoopInv, TypeOK, MatchIsRight, On, Takes, Routes, vars
<1>3. CASE Skip
  <2>1. /\ ~On(index) /\ ~Takes(index)
        /\ index' = index + 1 /\ index' \in 1..(Len(scopes) + 1)
        /\ UNCHANGED <<scopes, method, listener, onThis, result>>
    BY <1>1, <1>3 DEF Skip, AtRoute, Scope, On, Takes, request
  <2>2. 1..(index' - 1) = 1..(index - 1) \cup {index}
    BY <1>1, <2>1
  <2> QED
    BY <2>1, <2>2 DEF LoopInv, TypeOK, MatchIsRight, On, Takes, Routes
<1>4. CASE Pass
  <2>1. /\ On(index) /\ ~Takes(index) /\ onThis' = TRUE /\ result = Looking
        /\ index' = index + 1 /\ index' \in 1..(Len(scopes) + 1)
        /\ UNCHANGED <<scopes, method, listener, result>>
    BY <1>1, <1>4 DEF Pass, AtRoute, Scope, On, Takes, request
  <2>2. 1..(index' - 1) = 1..(index - 1) \cup {index}
    BY <1>1, <2>1
  <2> QED
    BY <2>1, <2>2 DEF LoopInv, TypeOK, MatchIsRight, On, Takes, Routes
<1>5. CASE Take
  <2>1. /\ Takes(index) /\ index \in 1..Len(scopes) /\ result' = Handler(index)
        /\ UNCHANGED <<scopes, method, listener, index, onThis>>
    BY <1>1, <1>5 DEF Take, AtRoute, Scope, On, Takes, request
  <2>2. MatchIsRight'
    BY <2>1 DEF LoopInv, MatchIsRight, Handler, On, Takes
  <2> QED
    BY <2>1, <2>2 DEF LoopInv, TypeOK, On, Takes
<1>6. CASE Exhausted
  <2>1. /\ index = Len(scopes) + 1
        /\ result' = IF onThis THEN MethodNotAllowed ELSE NotOnThisListener
        /\ UNCHANGED <<scopes, method, listener, index, onThis>>
    BY <1>1, <1>6 DEF Exhausted, request, LoopInv, TypeOK
  <2>2. Routes = 1..(index - 1)
    BY <1>1, <2>1 DEF Routes
  <2>3. MatchIsRight'
    BY <2>1, <2>2 DEF LoopInv, MatchIsRight, MethodNotAllowed, NotOnThisListener,
                      On, Takes, Routes
  <2> QED
    BY <2>1, <2>3 DEF LoopInv, TypeOK, On, Takes
<1> QED
  BY <1>2, <1>3, <1>4, <1>5, <1>6 DEF Next

\* For any number of handlers the loop stays within them.
THEOREM MatchTypesHold == Spec => []TypeOK
<1>1. LoopInv => TypeOK
  BY DEF LoopInv
<1> QED
  BY <1>1, LoopInit, LoopNext, PTL DEF Spec

\* For a path with any number of handlers: the first that serves is chosen,
\* and 404 and 405 are answered exactly when they are right.
THEOREM MatchHolds == Spec => []MatchIsRight
<1>1. LoopInv => MatchIsRight
  BY DEF LoopInv
<1> QED
  BY <1>1, LoopInit, LoopNext, PTL DEF Spec

\* For any listeners: a restricted route is reached only through one of its
\* listeners.
THEOREM RestrictionsHold == Spec => []RestrictionHolds
<1>1. LoopInv => RestrictionHolds
  BY DEF LoopInv, MatchIsRight, RestrictionHolds, Takes, On, ServesListener
<1> QED
  BY <1>1, LoopInit, LoopNext, PTL DEF Spec

-----------------------------------------------------------------------------
(* The router, from the script's registrations to the handler.               *)

\* What the router holds of the registrations read so far: under each template
\* its proper ones, in order, with the scope each was given, and none else.
RouterInv ==
    /\ \A t \in Templates : \A j \in DOMAIN router[t] :
          LET i == router[t][j].at
          IN  /\ i \in 1..(next - 1)
              /\ Proper(i)
              /\ registered[i].path = t
              /\ router[t][j].scope = ScopeOf(registered[i])
    /\ \A t \in Templates : \A j, k \in DOMAIN router[t] :
          j < k => router[t][j].at < router[t][k].at
    /\ \A i \in 1..(next - 1) : Proper(i) =>
          \E j \in DOMAIN router[registered[i].path] : router[registered[i].path][j].at = i

\* What each phase rests on.
PhaseInv ==
    /\ phase = "script" => next = 1 /\ \A t \in Templates : router[t] = <<>>
    /\ phase \notin {"script", "build"} => next = Len(registered) + 1
    /\ phase = "exited" => UnknownListeners # {}
    /\ phase \in {"serving", "matching", "unrouted"} => UnknownListeners = {}
    /\ phase \in {"script", "build", "serving", "exited"} =>
          index = 1 /\ onThis = FALSE /\ result = Looking
    /\ phase = "matching" =>
          /\ template \in Templates
          /\ scopes = [i \in DOMAIN router[template] |-> router[template][i].scope]
    /\ phase = "unrouted" =>
          /\ path \in Paths
          /\ \A i \in DOMAIN Covering[path] : router[Covering[path][i]] = <<>>
    /\ phase # "matching" => scopes = <<>>

RoutingInv == RoutingTypeOK /\ LoopInv /\ RouterInv /\ PhaseInv

-----------------------------------------------------------------------------
(* The arguments of a call, as the code reads them and as they are meant.   *)

\* What the code takes is what was written as text.
LEMMA ReadableIsProper ==
    ASSUME NEW i, registered[i] \in Calls
    PROVE  Readable(registered[i]) /\ registered[i].path # NoPath <=> Proper(i)
<1> DEFINE call == registered[i]
<1>1. call \in CallArguments
  BY CallsAssumption
<1>2. call.methods \in Seq(Words \cup {NotText}) /\ Range(call.methods) \subseteq Words \cup {NotText}
  BY <1>1, ElementOfSeq DEF CallArguments, Range
<1>3. NotText \in {Upper[w] : w \in Range(call.methods)} <=> NotText \in Range(call.methods)
  BY <1>2, WordsAssumption
<1>4. NotText # "GET"
  BY WordsAssumption
<1>5. call.path # NotText /\ call.path # NoPath <=> call.path \in Templates
  BY <1>1, TemplatesAssumption DEF CallArguments
<1> QED
  BY <1>3, <1>4, <1>5 DEF Proper, Readable, MethodsOf

\* The scope of a proper registration: one of RouteMatch's, which is on the
\* listeners that were named and takes the methods that were.
LEMMA ScopeMeaning ==
    ASSUME NEW i, registered[i] \in Calls, Proper(i)
    PROVE  /\ ScopeOf(registered[i]) \in Scopes
           /\ \A l \in Names \cup {Unknown} :
                 ServesListener(ScopeOf(registered[i]), l)
                 <=> registered[i].form = "none" \/ l \in Range(registered[i].listeners)
           /\ method \in ScopeOf(registered[i]).methods <=> MeansMethod(i)
<1> DEFINE call == registered[i]
<1>1. call \in CallArguments
  BY CallsAssumption
<1>2. call.listeners \in Seq(Names \cup {NotText})
      /\ Range(call.listeners) \subseteq Names \cup {NotText}
  BY <1>1, ElementOfSeq DEF CallArguments, Range
<1>3. Restricted(call) => Range(call.listeners) \subseteq Names
  BY <1>2 DEF Proper, Restricted
<1>4. ScopeOf(call) \in Scopes
  BY <1>3, WordsAssumption DEF ScopeOf, Scopes, Restricted
<1>5. \A l \in Names \cup {Unknown} :
         ServesListener(ScopeOf(call), l)
         <=> call.form = "none" \/ l \in Range(call.listeners)
  BY <1>3, NamesAssumption DEF ServesListener, ScopeOf, Restricted
<1>6. method \in ScopeOf(call).methods <=> MeansMethod(i)
  BY WordsAssumption DEF ScopeOf, MethodsOf, MeansMethod
<1> QED
  BY <1>4, <1>5, <1>6

-----------------------------------------------------------------------------
(* The invariant.                                                           *)

\* Nothing is registered and no request is there at first.
LEMMA RoutingInitially == RoutingInit => RoutingInv
<1> SUFFICES ASSUME RoutingInit PROVE RoutingInv
  OBVIOUS
<1>1. scopes \in Seq(Scopes) /\ Len(scopes) = 0 /\ registered \in Seq(Calls) /\ Len(registered) = 0
  BY EmptySeq DEF RoutingInit
<1>2. TypeOK
  <2>1. index \in 1..(Len(scopes) + 1) /\ method \in Methods
    BY <1>1, WordsAssumption DEF RoutingInit
  <2> QED
    BY <1>1, <2>1, Zenon DEF RoutingInit, TypeOK
<1>3. LoopInv
  BY <1>1, <1>2 DEF RoutingInit, LoopInv, MatchIsRight, Looking
<1>4. router \in [Templates -> Seq(Entries)]
  BY EmptySeq DEF RoutingInit
<1>5. RoutingTypeOK
  BY <1>1, <1>2, <1>4 DEF RoutingInit, RoutingTypeOK
<1>6. RouterInv
  BY DEF RoutingInit, RouterInv
<1>7. PhaseInv
  BY DEF RoutingInit, PhaseInv
<1> QED
  BY <1>3, <1>5, <1>6, <1>7 DEF RoutingInv

\* The script registers one more function.
LEMMA RegisterStep ==
    ASSUME RoutingInv, NEW call \in Calls, Register(call)
    PROVE  RoutingInv'
<1>1. /\ registered' \in Seq(Calls) /\ Len(registered') = Len(registered) + 1
      /\ Len(registered) \in Nat
  BY AppendProperties, LenProperties DEF Register, RoutingInv, RoutingTypeOK
<1>2. RoutingTypeOK'
  BY <1>1 DEF Register, RoutingInv, RoutingTypeOK, TypeOK, vars
<1>3. LoopInv'
  BY DEF Register, RoutingInv, LoopInv, TypeOK, MatchIsRight, On, Takes, Routes, vars
<1>4. RouterInv'
  BY DEF Register, RoutingInv, PhaseInv, RouterInv
<1>5. PhaseInv'
  BY DEF Register, RoutingInv, PhaseInv, vars
<1> QED
  BY <1>2, <1>3, <1>4, <1>5 DEF RoutingInv

\* The router is built from the registrations in order, one at a time.
LEMMA SkipStep == ASSUME RoutingInv, SkipRoute PROVE RoutingInv'
<1>1. next \in Nat /\ next >= 1 /\ Len(registered) \in Nat /\ next' \in 1..(Len(registered) + 1)
  BY LenProperties DEF SkipRoute, RoutingInv, RoutingTypeOK
<1>2. RoutingTypeOK'
  BY <1>1 DEF SkipRoute, RoutingInv, RoutingTypeOK, TypeOK, vars
<1>3. LoopInv'
  BY DEF SkipRoute, RoutingInv, LoopInv, TypeOK, MatchIsRight, On, Takes, Routes, vars
<1>4. registered[next] \in Calls
  BY <1>1, ElementOfSeq DEF SkipRoute, RoutingInv, RoutingTypeOK
<1>5. ~Proper(next)
  BY <1>4, ReadableIsProper DEF SkipRoute
<1>6. \A i \in 1..(next' - 1) : Proper(i) => i \in 1..(next - 1)
  BY <1>1, <1>5 DEF SkipRoute
<1>7. 1..(next - 1) \subseteq 1..(next' - 1)
  BY <1>1 DEF SkipRoute
<1>8. RouterInv'
  BY <1>6, <1>7 DEF SkipRoute, RoutingInv, RouterInv, Proper
<1>9. PhaseInv'
  BY DEF SkipRoute, RoutingInv, PhaseInv, vars
<1> QED
  BY <1>2, <1>3, <1>8, <1>9 DEF RoutingInv

LEMMA AddStep == ASSUME RoutingInv, AddRoute PROVE RoutingInv'
<1> DEFINE
       own == registered[next].path
       new == [at |-> next, scope |-> ScopeOf(registered[next])]
<1>1. next \in Nat /\ next >= 1 /\ Len(registered) \in Nat /\ next' \in 1..(Len(registered) + 1)
      /\ next \in 1..Len(registered) /\ next' = next + 1
  BY LenProperties DEF AddRoute, RoutingInv, RoutingTypeOK
<1>2. registered[next] \in Calls
  BY <1>1, ElementOfSeq DEF RoutingInv, RoutingTypeOK
<1>3. Proper(next)
  BY <1>2, ReadableIsProper DEF AddRoute
<1>4. own \in Templates /\ new \in Entries
  BY <1>1, <1>2, <1>3, ScopeMeaning DEF Proper, Entries
<1>5. /\ router \in [Templates -> Seq(Entries)]
      /\ router' = [router EXCEPT ![own] = Append(@, new)]
  BY DEF AddRoute, RoutingInv, RoutingTypeOK
<1>6. /\ router[own] \in Seq(Entries) /\ Len(router[own]) \in Nat
      /\ DOMAIN router[own] = 1..Len(router[own])
  BY <1>4, <1>5, LenProperties
<1>7. /\ router'[own] \in Seq(Entries)
      /\ DOMAIN router'[own] = 1..(Len(router[own]) + 1)
      /\ \A j \in 1..Len(router[own]) : router'[own][j] = router[own][j]
      /\ router'[own][Len(router[own]) + 1] = new
  BY <1>4, <1>5, <1>6, AppendProperties, LenProperties
<1>8. \A t \in Templates : t # own => router'[t] = router[t]
  BY <1>4, <1>5
<1> HIDE DEF own, new
<1>9. \A t \in Templates : \A j :
            /\ j \in DOMAIN router[t] => j \in DOMAIN router'[t] /\ router'[t][j] = router[t][j]
            /\ j \in DOMAIN router'[t] /\ ~(t = own /\ j = Len(router[own]) + 1)
                  => j \in DOMAIN router[t]
  <2> TAKE t \in Templates
  <2>1. CASE t = own
    BY <1>6, <1>7, <2>1
  <2>2. CASE t # own
    BY <1>8, <2>2
  <2> QED
    BY <2>1, <2>2
<1>10. RoutingTypeOK'
  <2>1. router' \in [Templates -> Seq(Entries)]
    BY <1>4, <1>5, <1>7
  <2> QED
    BY <1>1, <2>1 DEF AddRoute, RoutingInv, RoutingTypeOK, TypeOK, vars
<1>11. LoopInv'
  BY DEF AddRoute, RoutingInv, LoopInv, TypeOK, MatchIsRight, On, Takes, Routes, vars
<1>12. RouterInv'
  <2> USE DEF RoutingInv
  <2>1. registered' = registered /\ \A i : Proper(i)' <=> Proper(i)
    BY DEF AddRoute, Proper
  <2>2. ASSUME NEW t \in Templates, NEW j \in DOMAIN router'[t]
        PROVE  /\ router'[t][j].at \in 1..(next' - 1)
               /\ Proper(router'[t][j].at)
               /\ registered[router'[t][j].at].path = t
               /\ router'[t][j].scope = ScopeOf(registered[router'[t][j].at])
    <3>1. CASE t = own /\ j = Len(router[own]) + 1
      BY <1>1, <1>3, <1>7, <3>1 DEF own, new
    <3>2. CASE ~(t = own /\ j = Len(router[own]) + 1)
      <4>1. j \in DOMAIN router[t] /\ router'[t][j] = router[t][j]
        BY <1>9, <2>2, <3>2
      <4> QED
        BY <1>1, <4>1 DEF RouterInv
    <3> QED
      BY <3>1, <3>2
  <2>3. ASSUME NEW t \in Templates, NEW j \in DOMAIN router'[t], NEW k \in DOMAIN router'[t], j < k
        PROVE  router'[t][j].at < router'[t][k].at
    <3>1. CASE t = own /\ k = Len(router[own]) + 1
      <4>1. j \in DOMAIN router[own] /\ router'[t][j] = router[own][j]
        BY <1>6, <1>7, <2>3, <3>1
      <4>2. router[own][j].at \in 1..(next - 1)
        BY <1>4, <4>1 DEF RouterInv
      <4> QED
        BY <1>1, <1>7, <3>1, <4>1, <4>2 DEF own, new
    <3>2. CASE ~(t = own /\ k = Len(router[own]) + 1)
      <4>1. /\ j \in DOMAIN router[t] /\ router'[t][j] = router[t][j]
            /\ k \in DOMAIN router[t] /\ router'[t][k] = router[t][k]
        <5>1. j # Len(router[own]) + 1 \/ t # own
          <6> SUFFICES ASSUME t = own, j = Len(router[own]) + 1 PROVE FALSE
            OBVIOUS
          <6> QED
            BY <1>6, <1>7, <2>3
        <5> QED
          BY <1>9, <2>3, <3>2, <5>1
      <4> QED
        BY <2>3, <4>1 DEF RouterInv
    <3> QED
      BY <3>1, <3>2
  <2>4. ASSUME NEW i \in 1..(next' - 1), Proper(i)
        PROVE  \E j \in DOMAIN router'[registered[i].path] :
                  router'[registered[i].path][j].at = i
    <3>1. CASE i = next
      BY <1>6, <1>7, <3>1 DEF own, new
    <3>2. CASE i # next
      <4>1. i \in 1..(next - 1) /\ registered[i].path \in Templates
        BY <1>1, <2>4, <3>2 DEF Proper
      <4>2. PICK j \in DOMAIN router[registered[i].path] : router[registered[i].path][j].at = i
        BY <2>4, <4>1 DEF RouterInv
      <4>3. j \in DOMAIN router'[registered[i].path]
            /\ router'[registered[i].path][j] = router[registered[i].path][j]
        BY <1>9, <4>1, <4>2
      <4> QED
        BY <4>2, <4>3
    <3> QED
      BY <3>1, <3>2
  <2> QED
    BY <2>1, <2>2, <2>3, <2>4 DEF RouterInv
<1>13. PhaseInv'
  BY DEF AddRoute, RoutingInv, PhaseInv, vars
<1> QED
  BY <1>10, <1>11, <1>12, <1>13 DEF RoutingInv

\* The phases before a request: the router is not touched.
LEMMA BuiltStep == ASSUME RoutingInv, ScriptLoaded \/ Built PROVE RoutingInv'
<1>1. next \in 1..(Len(registered) + 1) /\ Len(registered) \in Nat
  BY LenProperties DEF RoutingInv, RoutingTypeOK
<1>2. RoutingTypeOK'
  BY DEF ScriptLoaded, Built, RoutingInv, RoutingTypeOK, TypeOK, vars
<1>3. LoopInv'
  <2>1. UNCHANGED vars
    BY DEF ScriptLoaded, Built
  <2> QED
    BY <2>1 DEF RoutingInv, LoopInv, TypeOK, MatchIsRight, On, Takes, Routes, vars
<1>4. RouterInv'
  BY DEF ScriptLoaded, Built, RoutingInv, RouterInv, Proper
<1>5. UnknownListeners' = UnknownListeners
  BY DEF ScriptLoaded, Built, UnknownListeners
<1>6. PhaseInv'
  BY <1>1, <1>5 DEF ScriptLoaded, Built, RoutingInv, PhaseInv, vars
<1> QED
  BY <1>2, <1>3, <1>4, <1>6 DEF RoutingInv

\* A request starts the loop at the first handler of its template.
LEMMA ArriveStep ==
    ASSUME RoutingInv, NEW p \in Paths, NEW m \in Methods, NEW l \in Configured \cup {Unknown},
           Arrive(p, m, l)
    PROVE  RoutingInv'
<1>1. PICK t \in Templates :
         /\ template' = t
         /\ scopes' = [i \in DOMAIN router[t] |-> router[t][i].scope]
  BY DEF Arrive
<1>2. router[t] \in Seq(Entries) /\ Len(router[t]) \in Nat /\ DOMAIN router[t] = 1..Len(router[t])
  BY LenProperties DEF RoutingInv, RoutingTypeOK
<1>3. \A i \in 1..Len(router[t]) : router[t][i].scope \in Scopes
  <2> TAKE i \in 1..Len(router[t])
  <2>1. router[t][i] \in Entries
    BY <1>2, ElementOfSeq
  <2> QED
    BY <2>1 DEF Entries
<1>4. scopes' \in [1..Len(router[t]) -> Scopes]
  BY <1>1, <1>2, <1>3
<1>5. scopes' \in Seq(Scopes) /\ Len(scopes') \in Nat
  BY <1>2, <1>4, IsASeq, LenProperties
<1>6. index = 1 /\ onThis = FALSE /\ result = Looking
  BY DEF Arrive, RoutingInv, PhaseInv
<1>7. TypeOK'
  <2>1. index' \in 1..(Len(scopes') + 1) /\ index' = 1
    BY <1>5, <1>6 DEF Arrive
  <2>2. listener' \in Names \cup {Unknown} /\ method' \in Methods /\ onThis' \in BOOLEAN
    BY <1>6, ConfiguredAssumption DEF Arrive
  <2>3. result' = Looking
    BY <1>6 DEF Arrive
  <2> QED
    BY <1>5, <2>1, <2>2, <2>3, Zenon DEF TypeOK
<1>8. RoutingTypeOK'
  BY <1>1, <1>7 DEF Arrive, RoutingInv, RoutingTypeOK
<1>9. LoopInv'
  BY <1>6, <1>7 DEF Arrive, LoopInv, MatchIsRight, Looking
<1>10. RouterInv'
  BY DEF Arrive, RoutingInv, RouterInv, Proper
<1>11. UnknownListeners' = UnknownListeners
  BY DEF Arrive, UnknownListeners
<1>12. PhaseInv'
  BY <1>1, <1>11 DEF Arrive, RoutingInv, PhaseInv
<1> QED
  BY <1>8, <1>9, <1>10, <1>12 DEF RoutingInv

\* A path of no template gets the fallback's answer.
LEMMA UnroutedStep ==
    ASSUME RoutingInv, NEW p \in Paths, NEW m \in Methods, NEW l \in Configured \cup {Unknown},
           Unrouted(p, m, l)
    PROVE  RoutingInv'
<1>1. scopes = <<>> /\ scopes' = <<>> /\ index' = 1 /\ onThis' = FALSE /\ result' = NotOnThisListener
  BY DEF Unrouted, RoutingInv, PhaseInv
<1>2. scopes' \in Seq(Scopes) /\ Len(scopes') = 0
  BY <1>1, EmptySeq
<1>3. TypeOK'
  <2>1. index' \in 1..(Len(scopes') + 1)
    <3>1. Len(scopes') + 1 = 1
      BY <1>2
    <3> QED
      BY <1>1, <3>1
  <2>2. listener' \in Names \cup {Unknown} /\ method' \in Methods
    BY ConfiguredAssumption DEF Unrouted
  <2> QED
    BY <1>1, <1>2, <2>1, <2>2, Zenon DEF TypeOK
<1>4. RoutingTypeOK'
  BY <1>3 DEF Unrouted, RoutingInv, RoutingTypeOK
<1>5. LoopInv'
  BY <1>1, <1>2, <1>3 DEF LoopInv, MatchIsRight, NotOnThisListener, Routes
<1>6. RouterInv'
  BY DEF Unrouted, RoutingInv, RouterInv, Proper
<1>7. UnknownListeners' = UnknownListeners
  BY DEF Unrouted, UnknownListeners
<1>8. PhaseInv'
  BY <1>1, <1>7 DEF Unrouted, RoutingInv, PhaseInv
<1> QED
  BY <1>4, <1>5, <1>6, <1>8 DEF RoutingInv

\* The loop keeps its own invariant and leaves all else alone.
LEMMA MatchStep == ASSUME RoutingInv, Match PROVE RoutingInv'
<1>1. LoopInv'
  BY LoopNext DEF Match, RoutingInv
<1>2. RoutingTypeOK'
  BY <1>1 DEF LoopInv, Match, startup, RoutingInv, RoutingTypeOK
<1>3. RouterInv'
  BY DEF Match, startup, RoutingInv, RouterInv, Proper
<1>4. UnknownListeners' = UnknownListeners /\ scopes' = scopes
  BY DEF Match, startup, UnknownListeners, Next, Skip, Take, Pass, Exhausted, request
<1>5. PhaseInv'
  BY <1>4 DEF Match, startup, RoutingInv, PhaseInv
<1> QED
  BY <1>1, <1>2, <1>3, <1>5 DEF RoutingInv

LEMMA RoutingStep == RoutingInv /\ [RoutingNext]_routingVars => RoutingInv'
<1> SUFFICES ASSUME RoutingInv, [RoutingNext]_routingVars PROVE RoutingInv'
  OBVIOUS
<1>1. CASE UNCHANGED routingVars
  BY <1>1 DEF routingVars, startup, vars, RoutingInv, RoutingTypeOK, LoopInv, TypeOK, MatchIsRight,
              On, Takes, Routes, RouterInv, Proper, PhaseInv, UnknownListeners
<1> QED
  BY <1>1, RegisterStep, SkipStep, AddStep, BuiltStep, ArriveStep, UnroutedStep, MatchStep
     DEF RoutingNext

LEMMA RoutingInvariant == RoutingSpec => []RoutingInv
BY RoutingInitially, RoutingStep, PTL DEF RoutingSpec

-----------------------------------------------------------------------------
(* The theorems.                                                            *)

\* Type correctness, the loop's position among the handlers included.
THEOREM RoutingTypesHold == RoutingSpec => []RoutingTypeOK
<1>1. RoutingInv => RoutingTypeOK
  BY DEF RoutingInv
<1> QED
  BY <1>1, RoutingInvariant, PTL

\* A handler of the request's template stands for one proper registration,
\* and the loop's words are the script's.
LEMMA HandlerMeaning ==
    ASSUME RoutingInv, phase = "matching", NEW j \in 1..Len(scopes)
    PROVE  LET i == router[template][j].at
           IN  /\ i \in DOMAIN registered
               /\ On(j) <=> MeantHere(i)
               /\ Takes(j) <=> Meant(i)
<1> DEFINE i == router[template][j].at
<1>1. template \in Templates /\ scopes = [k \in DOMAIN router[template] |-> router[template][k].scope]
      /\ next = Len(registered) + 1
  BY DEF RoutingInv, PhaseInv
<1>2. j \in DOMAIN scopes
  BY LenProperties DEF RoutingInv, LoopInv, TypeOK
<1>3. j \in DOMAIN router[template] /\ scopes[j] = router[template][j].scope
  BY <1>1, <1>2
<1>4. i \in 1..(next - 1) /\ Proper(i) /\ registered[i].path = template
      /\ scopes[j] = ScopeOf(registered[i])
  BY <1>1, <1>3 DEF RoutingInv, RouterInv
<1>5. Len(registered) \in Nat /\ i \in 1..Len(registered) /\ registered[i] \in Calls
  BY <1>1, <1>4, LenProperties, ElementOfSeq DEF RoutingInv, RoutingTypeOK
<1>6. i \in DOMAIN registered
  BY <1>5, LenProperties DEF RoutingInv, RoutingTypeOK
<1>7. listener \in Names \cup {Unknown}
  BY DEF RoutingInv, LoopInv, TypeOK
<1>8. On(j) <=> MeantHere(i)
  BY <1>4, <1>5, <1>7, ScopeMeaning DEF On, MeantHere
<1>9. method \in scopes[j].methods <=> MeansMethod(i)
  BY <1>4, <1>5, ScopeMeaning
<1> QED
  BY <1>6, <1>8, <1>9 DEF Takes, Meant

\* A registration that means the request's path has a handler in the loop.
LEMMA MeaningHandled ==
    ASSUME RoutingInv, phase = "matching", NEW i \in DOMAIN registered, MeantHere(i)
    PROVE  \E j \in 1..Len(scopes) : router[template][j].at = i
<1>1. template \in Templates /\ scopes = [k \in DOMAIN router[template] |-> router[template][k].scope]
      /\ next = Len(registered) + 1 /\ Len(registered) \in Nat /\ i \in 1..Len(registered)
  BY LenProperties DEF RoutingInv, PhaseInv, RoutingTypeOK
<1>2. PICK j \in DOMAIN router[template] : router[template][j].at = i
  BY <1>1 DEF RoutingInv, RouterInv, MeantHere
<1>3. j \in 1..Len(scopes)
  BY <1>1, <1>2, LenProperties DEF RoutingInv, LoopInv, TypeOK
<1> QED
  BY <1>2, <1>3

\* Any script, any request: the first function that was registered for it
\* serves it; 404 and 405 are answered when no function was (read_routes,
\* route_options, build_router, match_route).
THEOREM RequestsAreServedAsRegistered == RoutingSpec => []ServedAsRegistered
<1>1. ASSUME RoutingInv PROVE ServedAsRegistered
  <2>1. ASSUME phase = "matching", result.what = "handler"
        PROVE  LET i == router[template][result.at].at
               IN  Meant(i) /\ \A j \in 1..(i - 1) : ~Meant(j)
    <3> DEFINE i == router[template][result.at].at
    <3>1. result.at \in 1..Len(scopes)
      <4>1. result \in {Looking, MethodNotAllowed, NotOnThisListener}
                      \cup {Handler(k) : k \in 1..Len(scopes)}
        BY <1>1 DEF RoutingInv, LoopInv, TypeOK
      <4>2. result \notin {Looking, MethodNotAllowed, NotOnThisListener}
        BY <2>1 DEF Looking, MethodNotAllowed, NotOnThisListener
      <4>3. PICK k \in 1..Len(scopes) : result = Handler(k)
        BY <4>1, <4>2
      <4> QED
        BY <4>3 DEF Handler
    <3>2. Takes(result.at) /\ \A j \in 1..(result.at - 1) : ~Takes(j)
      BY <1>1, <2>1 DEF RoutingInv, LoopInv, MatchIsRight
    <3>3. Meant(i) /\ i \in DOMAIN registered
      BY <1>1, <2>1, <3>1, <3>2, HandlerMeaning
    <3>4. ASSUME NEW j \in 1..(i - 1), Meant(j) PROVE FALSE
      <4>1. Len(registered) \in Nat /\ i \in 1..Len(registered) /\ j \in 1..Len(registered)
            /\ j \in DOMAIN registered /\ j < i /\ Len(scopes) \in Nat
        <5>1. Len(registered) \in Nat /\ DOMAIN registered = 1..Len(registered) /\ Len(scopes) \in Nat
          BY <1>1, LenProperties DEF RoutingInv, RoutingTypeOK, LoopInv, TypeOK
        <5> HIDE DEF i
        <5> QED
          BY <3>3, <3>4, <5>1
      <4>2. PICK k \in 1..Len(scopes) : router[template][k].at = j
        BY <1>1, <2>1, <3>4, <4>1, MeaningHandled DEF Meant
      <4>3. Takes(k)
        BY <1>1, <2>1, <3>4, <4>2, HandlerMeaning
      <4>4. k >= result.at /\ k # result.at
        BY <3>1, <3>2, <4>1, <4>2, <4>3
      <4>5. template \in Templates /\ k \in DOMAIN router[template]
            /\ result.at \in DOMAIN router[template]
        BY <1>1, <2>1, <3>1, <4>2, LenProperties DEF RoutingInv, PhaseInv, LoopInv, TypeOK
      <4>6. i < j
        BY <1>1, <3>1, <4>1, <4>2, <4>4, <4>5 DEF RoutingInv, RouterInv
      <4> QED
        BY <4>1, <4>6
    <3> QED
      BY <3>3, <3>4
  <2>2. ASSUME phase = "matching", result.what = "405"
        PROVE  (\E i \in DOMAIN registered : MeantHere(i)) /\ \A i \in DOMAIN registered : ~Meant(i)
    <3>1. (\E j \in 1..Len(scopes) : On(j)) /\ \A j \in 1..Len(scopes) : ~Takes(j)
      BY <1>1, <2>2 DEF RoutingInv, LoopInv, MatchIsRight, Routes
    <3>2. \E i \in DOMAIN registered : MeantHere(i)
      BY <1>1, <2>2, <3>1, HandlerMeaning
    <3>3. ASSUME NEW i \in DOMAIN registered, Meant(i) PROVE FALSE
      <4>1. PICK j \in 1..Len(scopes) : router[template][j].at = i
        BY <1>1, <2>2, <3>3, MeaningHandled DEF Meant
      <4> QED
        BY <1>1, <2>2, <3>1, <3>3, <4>1, HandlerMeaning
    <3> QED
      BY <3>2, <3>3
  <2>3. ASSUME phase = "matching", result.what = "404", NEW i \in DOMAIN registered, MeantHere(i)
        PROVE  FALSE
    <3>1. \A j \in 1..Len(scopes) : ~On(j)
      BY <1>1, <2>3 DEF RoutingInv, LoopInv, MatchIsRight, Routes
    <3>2. PICK j \in 1..Len(scopes) : router[template][j].at = i
      BY <1>1, <2>3, MeaningHandled
    <3> QED
      BY <1>1, <2>3, <3>1, <3>2, HandlerMeaning
  <2>4. ASSUME phase = "unrouted", NEW i \in DOMAIN registered, Proper(i),
               registered[i].path \in Range(Covering[path])
        PROVE  FALSE
    <3>1. i \in 1..(next - 1)
      BY <1>1, <2>4, LenProperties DEF RoutingInv, PhaseInv, RoutingTypeOK
    <3>2. router[registered[i].path] = <<>>
      BY <1>1, <2>4 DEF RoutingInv, PhaseInv, Range
    <3> QED
      BY <1>1, <2>4, <3>1, <3>2 DEF RoutingInv, RouterInv
  <2> QED
    BY <2>1, <2>2, <2>3, <2>4 DEF ServedAsRegistered
<1> QED
  BY <1>1, RoutingInvariant, PTL

\* Any script and listeners: the process serves exactly when each listener a
\* proper registration names exists (unknown_route_listeners).
THEOREM ServesOnlyWithListeners == RoutingSpec => []ServesOnlyWhatExists
<1>1. ASSUME RoutingInv PROVE ServesOnlyWhatExists
  <2> DEFINE Named == {j \in DOMAIN registered : Proper(j) /\ registered[j].form # "none"}
             Held  == UNION {Range(router[t]) : t \in Templates}
  <2> SUFFICES ASSUME phase \in {"exited", "serving", "matching", "unrouted"}
               PROVE  UnknownListeners = (UNION {Range(registered[i].listeners) : i \in Named})
                                         \ Configured
    BY <1>1 DEF RoutingInv, PhaseInv, ServesOnlyWhatExists
  <2>1. /\ next = Len(registered) + 1 /\ Len(registered) \in Nat
        /\ DOMAIN registered = 1..(next - 1)
    BY <1>1, LenProperties DEF RoutingInv, PhaseInv, RoutingTypeOK
  <2>2. ASSUME NEW entry \in Held, NEW l \in entry.scope.listeners
        PROVE  \E i \in Named : l \in Range(registered[i].listeners)
    <3>1. PICK t \in Templates : \E j \in DOMAIN router[t] : entry = router[t][j]
      BY <2>2 DEF Range
    <3>2. PICK i \in 1..(next - 1) : Proper(i) /\ entry.scope = ScopeOf(registered[i])
      BY <1>1, <3>1 DEF RoutingInv, RouterInv
    <3> QED
      BY <2>1, <2>2, <3>2 DEF ScopeOf, Restricted
  <2>3. ASSUME NEW i \in Named, NEW l \in Range(registered[i].listeners)
        PROVE  \E entry \in Held : l \in entry.scope.listeners
    <3>1. Proper(i) /\ registered[i].path \in Templates /\ i \in 1..(next - 1)
      BY <2>1, <2>3 DEF Proper
    <3>2. PICK j \in DOMAIN router[registered[i].path] : router[registered[i].path][j].at = i
      BY <1>1, <3>1 DEF RoutingInv, RouterInv
    <3> DEFINE entry == router[registered[i].path][j]
    <3>3. entry.scope = ScopeOf(registered[i])
      BY <1>1, <3>1, <3>2 DEF RoutingInv, RouterInv
    <3>4. entry \in Held
      BY <3>1, <3>2 DEF Range
    <3>5. l \in entry.scope.listeners
      BY <2>3, <3>3 DEF ScopeOf, Restricted
    <3> QED
      BY <3>4, <3>5
  <2> QED
    BY <2>2, <2>3 DEF UnknownListeners
<1> QED
  BY <1>1, RoutingInvariant, PTL
=============================================================================
