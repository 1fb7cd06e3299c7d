---------------------------- MODULE StartupProofs ----------------------------
(***************************************************************************)
(* Theorems about Startup, for any number of listeners and hooks and any   *)
(* addresses, ports and names.                                             *)
(***************************************************************************)
EXTENDS Startup, TLAPS

\* What each phase has established: names are told apart once the
\* configuration is loaded, routes ask for known names once the script is
\* read, and the sockets before next were tried.
PhaseInv ==
    /\ phase \in {"read", "bind", "hooks", "serving"} =>
          \A s \in Listeners : \A e \in 1..(s - 1) : ~SameName(e, s)
    /\ phase \in {"bind", "hooks", "serving"} => UnknownListeners = {}
    /\ routes \/ wanted = {}
    /\ phase \in {"hooks", "serving"} => next > Servers /\ ~Fatal
    /\ phase = "serving" => hook = Hooks

\* What a socket's state says of the process.
SocketInv ==
    \A s \in Listeners :
        /\ s < next <=> sock[s] # "none"
        /\ sock[s] = "failed" => failures > 0
        /\ sock[s] = "listening" => phase = "serving"

\* Sockets have ports their listen values mean, and no two listen on one.
PortInv ==
    \A s \in Listeners :
        /\ sock[s] \in {"bound", "listening", "down"} => at[s] \in Means[address[s]]
        /\ \A t \in Listeners :
              sock[s] = "listening" /\ sock[t] = "listening" /\ at[s] = at[t] => s = t

StartInv == TypeOK /\ failures < next /\ PhaseInv /\ SocketInv /\ PortInv

\* Nothing is bound at first.
LEMMA StartInit == Init => StartInv
<1> SUFFICES ASSUME Init PROVE StartInv
  OBVIOUS
<1> USE ServersAssumption, HooksAssumption DEF Listeners
<1>1. TypeOK
  BY DEF Init, TypeOK
<1>2. PhaseInv /\ failures < next
  BY DEF Init, PhaseInv
<1>3. SocketInv /\ PortInv
  BY DEF Init, SocketInv, PortInv
<1> QED
  BY <1>1, <1>2, <1>3 DEF StartInv

\* What SameName, UnknownListeners and Fatal say depends on what is fixed at
\* startup and on the failures.
LEMMA SetupStays ==
    ASSUME UNCHANGED config
    PROVE  /\ \A e, s : SameName(e, s)' <=> SameName(e, s)
           /\ UnknownListeners' = UnknownListeners
           /\ address' = address
BY DEF config, SameName, UnknownListeners, ListenerName

\* One case per action of the process, and one for other processes.
LEMMA StartNext == StartInv /\ [Next]_vars => StartInv'
<1> SUFFICES ASSUME StartInv, [Next]_vars PROVE StartInv'
  OBVIOUS
<1> USE ServersAssumption, HooksAssumption DEF Listeners
<1>0. UNCHANGED config /\ UNCHANGED <<address, name, faulty, routes, wanted>>
  BY DEF Next, vars, config, Process, LoadConfig, LoadFails, ReadScript, ReadFails,
         AllBound, HookEnds, SpawnListeners, Bind, Listen, StrangerListens, StrangerStops
<1>1. CASE UNCHANGED vars
  BY <1>0, <1>1, SetupStays
     DEF vars, StartInv, TypeOK, PhaseInv, SocketInv, PortInv, Fatal
<1>2. CASE LoadConfig \/ LoadFails \/ ReadScript \/ ReadFails \/ AllBound \/ SpawnListeners
  <2>1. UNCHANGED <<next, failures, hook, sock, at, strangers>>
    BY <1>2 DEF LoadConfig, LoadFails, ReadScript, ReadFails, AllBound, SpawnListeners
  <2>2. TypeOK' /\ (failures < next)'
    BY <1>0, <1>2, <2>1
       DEF LoadConfig, LoadFails, ReadScript, ReadFails, AllBound, SpawnListeners,
           StartInv, TypeOK
  <2>3. PhaseInv'
    BY <1>0, <1>2, <2>1, SetupStays
       DEF LoadConfig, LoadFails, ReadScript, ReadFails, AllBound, SpawnListeners,
           StartInv, PhaseInv, Fatal
  <2>4. SocketInv' /\ PortInv'
    BY <1>0, <1>2, <2>1
       DEF LoadConfig, LoadFails, ReadScript, ReadFails, AllBound, SpawnListeners,
           StartInv, SocketInv, PortInv
  <2> QED
    BY <2>2, <2>3, <2>4 DEF StartInv
<1>3. CASE HookEnds
  <2>1. TypeOK' /\ (failures < next)'
    BY <1>0, <1>3 DEF HookEnds, StartInv, TypeOK
  <2>2. PhaseInv'
    BY <1>0, <1>3, SetupStays DEF HookEnds, StartInv, PhaseInv, Fatal
  <2>3. SocketInv' /\ PortInv'
    BY <1>0, <1>3 DEF HookEnds, StartInv, SocketInv, PortInv
  <2> QED
    BY <2>1, <2>2, <2>3 DEF StartInv
<1>4. ASSUME NEW s \in Listeners, Bind(s)
      PROVE StartInv'
  <2>0. /\ \/ at' = at /\ sock' = [sock EXCEPT ![s] = "failed"]
           \/ /\ sock' = [sock EXCEPT ![s] = "bound"]
              /\ \E p \in Means[address[s]] : at' = [at EXCEPT ![s] = p]
        /\ Means[address[s]] \subseteq Ports
    BY <1>4, MeansAssumption DEF Bind, Free, StartInv, TypeOK
  <2>1. TypeOK' /\ (failures < next)'
    <3>1. (at \in [Listeners -> Ports \cup {Nowhere}])'
      BY <2>0 DEF StartInv, TypeOK
    <3>2. (sock \in [Listeners -> {"none", "failed", "bound", "listening", "down"}])'
      BY <2>0 DEF StartInv, TypeOK
    <3>3. next' = next + 1 /\ failures' \in {failures, failures + 1} /\ s = next
      BY <1>4 DEF Bind
    <3>4. next' \in 1..(Servers + 1) /\ failures' \in 0..Servers /\ failures' < next'
      BY <3>3 DEF StartInv, TypeOK
    <3>5. UNCHANGED <<phase, hook, strangers>>
      BY <1>4 DEF Bind
    <3> QED
      BY <1>0, <3>1, <3>2, <3>4, <3>5 DEF StartInv, TypeOK
  <2>2. PhaseInv'
    BY <1>0, <1>4, SetupStays DEF Bind, StartInv, PhaseInv
  <2>3. SocketInv'
    BY <1>0, <1>4 DEF Bind, StartInv, TypeOK, SocketInv
  <2>4. PortInv'
    BY <1>0, <2>0 DEF StartInv, TypeOK, PortInv
  <2> QED
    BY <2>1, <2>2, <2>3, <2>4 DEF StartInv
<1>5. ASSUME NEW s \in Listeners, Listen(s)
      PROVE StartInv'
  <2>1. TypeOK' /\ (failures < next)'
    BY <1>0, <1>5 DEF Listen, StartInv, TypeOK
  <2>2. PhaseInv'
    BY <1>0, <1>5, SetupStays DEF Listen, StartInv, PhaseInv, Fatal
  <2>3. SocketInv'
    BY <1>0, <1>5 DEF Listen, StartInv, TypeOK, SocketInv
  <2>4. PortInv'
    BY <1>0, <1>5 DEF Listen, Taken, StartInv, TypeOK, PortInv
  <2> QED
    BY <2>1, <2>2, <2>3, <2>4 DEF StartInv
<1>6. ASSUME NEW p \in Ports, StrangerListens(p) \/ StrangerStops(p)
      PROVE StartInv'
  <2>1. UNCHANGED <<phase, next, failures, hook, sock, at>>
    BY <1>6 DEF StrangerListens, StrangerStops
  <2>2. TypeOK'
    BY <1>0, <1>6, <2>1 DEF StrangerListens, StrangerStops, StartInv, TypeOK
  <2> QED
    BY <1>0, <2>1, <2>2, SetupStays
       DEF StartInv, PhaseInv, SocketInv, PortInv, Fatal
<1> QED
  BY <1>1, <1>2, <1>3, <1>4, <1>5, <1>6 DEF Next, Process

\* The invariant of every reachable state.
LEMMA StartInvariant == Spec => []StartInv
BY StartInit, StartNext, PTL DEF Spec

\* The safety of the startup follows from the invariant of its phases.
LEMMA StartSafety ==
    ASSUME StartInv
    PROVE  /\ HooksBeforeConnections
           /\ RoutesHoldEveryBind
           /\ NameIsOneListener
           /\ WantedListenersAreHeld
<1> USE ServersAssumption DEF Listeners
<1>1. HooksBeforeConnections
  BY DEF StartInv, PhaseInv, SocketInv, HooksBeforeConnections
<1>2. ASSUME phase \in {"hooks", "serving"}, routes, NEW s \in Listeners
      PROVE  sock[s] \in {"bound", "listening", "down"} /\ at[s] \in Means[address[s]]
  <2>1. failures = 0 /\ s < next
    BY <1>2 DEF StartInv, TypeOK, PhaseInv, Fatal
  <2>2. sock[s] # "none" /\ sock[s] # "failed"
    BY <2>1 DEF StartInv, SocketInv
  <2> QED
    BY <2>2 DEF StartInv, TypeOK, PortInv
<1>3. ASSUME NEW s \in Listeners, NEW t \in Listeners, s # t,
             sock[s] = "listening", sock[t] = "listening",
             ListenerName(s) = ListenerName(t)
      PROVE  /\ name[s] = Unnamed /\ name[t] = Unnamed
             /\ ~HasPort(address[s])
             /\ at[s] # at[t]
  <2>1. phase = "serving"
    BY <1>3 DEF StartInv, SocketInv
  <2>2. s \in 1..(t - 1) \/ t \in 1..(s - 1)
    BY <1>3
  <2>3. ~SameName(s, t) \/ ~SameName(t, s)
    BY <2>1, <2>2 DEF StartInv, PhaseInv
  <2>4. name[s] = Unnamed /\ name[t] = Unnamed
    BY <1>3, <2>3 DEF SameName
  <2>5. address[s] = address[t]
    BY <1>3, <2>4 DEF ListenerName
  <2>6. at[s] # at[t] /\ at[s] \in Means[address[s]] /\ at[t] \in Means[address[s]]
    BY <1>3, <2>5 DEF StartInv, PortInv
  <2> QED
    BY <2>4, <2>6 DEF HasPort
<1>4. NameIsOneListener
  BY <1>3 DEF NameIsOneListener
<1>5. WantedListenersAreHeld
  <2> SUFFICES ASSUME phase \in {"hooks", "serving"}, NEW n \in wanted
               PROVE  \E s \in Listeners :
                         ListenerName(s) = n /\ sock[s] \in {"bound", "listening", "down"}
    BY DEF WantedListenersAreHeld
  <2>1. routes
    BY DEF StartInv, PhaseInv
  <2>2. PICK s \in Listeners : ListenerName(s) = n
    BY DEF StartInv, PhaseInv, UnknownListeners
  <2> QED
    BY <1>2, <2>1, <2>2
<1> QED
  BY <1>1, <1>2, <1>4, <1>5 DEF RoutesHoldEveryBind

\* Whatever fails, the failures are at most the listeners and every socket is
\* in one of its states (spawn_with, bind_listener, serve).
THEOREM StartTypesHold == Spec => []TypeOK
BY StartInvariant, PTL DEF StartInv

\* Whatever names and addresses the entries have, requests that carry one
\* listener name came through one socket, unless it is the name of unnamed
\* entries that left the port to the kernel, which then listen on a port each
\* (HttpConfig::parse, bind_listener).
THEOREM NamesAreSingle == Spec => []NameIsOneListener
BY StartInvariant, StartSafety, PTL

\* Every name a route is restricted to belongs to a listener that was bound
\* (unknown_route_listeners, listener_failures_are_fatal).
THEOREM WantedAreHeld == Spec => []WantedListenersAreHeld
BY StartInvariant, StartSafety, PTL

\* A process with routes serves only when every listener was bound, to a port
\* that its listen value stands for (listener_failures_are_fatal).
THEOREM BindsAreHeld == Spec => []RoutesHoldEveryBind
BY StartInvariant, StartSafety, PTL

\* No listener takes a connection before the last startup hook ended.
THEOREM HooksComeFirst == Spec => []HooksBeforeConnections
BY StartInvariant, StartSafety, PTL
=============================================================================
