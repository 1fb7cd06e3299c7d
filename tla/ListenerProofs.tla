---------------------------- MODULE ListenerProofs ----------------------------
(***************************************************************************)
(* Listener is TlsReload and Connections together: each of its steps is a  *)
(* step of either or of both, so what is proved of them holds of it.       *)
(***************************************************************************)
EXTENDS Listener, TlsReloadProofs

\* The files' side: connections leave it alone.
LEMMA FilesFollow == [ListenerNext]_everything => [Next]_vars
<1> SUFFICES ASSUME [ListenerNext]_everything PROVE [Next]_vars
  OBVIOUS
<1>1. CASE UNCHANGED everything \/ ConnectionsStep
  <2>1. UNCHANGED vars
    BY <1>1 DEF everything, files, ConnectionsStep
  <2> QED
    BY <2>1
<1>2. CASE Configure \/ Pass
  <2>1. Listener
    BY <1>2 DEF Configure, Pass, Listener
  <2> QED
    BY <2>1 DEF Next
<1>3. CASE Operator
  BY <1>3 DEF Operator, Next
<1> QED
  BY <1>1, <1>2, <1>3 DEF ListenerNext

\* The connections' side: they change in steps of their own and, when files
\* that load were read, by a load of whom their client_ca vouches for.
LEMMA ConnectionsFollow ==
    ReloadInv /\ [ListenerNext]_everything => [C!Next]_(C!vars)
<1> SUFFICES ASSUME ReloadInv, [ListenerNext]_everything PROVE [C!Next]_(C!vars)
  OBVIOUS
<1>1. CASE UNCHANGED everything \/ Pass \/ Operator
  BY <1>1 DEF everything, conns, Pass, Operator, C!vars
<1>2. CASE ConnectionsStep
  BY <1>2 DEF ConnectionsStep, C!Next
<1>3. CASE Configure
  <2>1. CASE Loads(got)
    <3>1. got["ca"] \in 1..MaxVersion
      BY <2>1, MaxVersionAssumption DEF ReloadInv, TypeOK, Versions, Loads, Files
    <3>2. Vouches[got["ca"]] \in SUBSET Clients
      BY <3>1, VouchesAssumption
    <3> QED
      BY <1>3, <2>1, <3>2 DEF Configure, C!Next
  <2>2. CASE ~Loads(got)
    BY <1>3, <2>2 DEF Configure, conns, C!vars
  <2> QED
    BY <2>1, <2>2
<1> QED
  BY <1>1, <1>2, <1>3 DEF ListenerNext

\* The inductive invariant of TlsReload holds of the listener's files.
LEMMA FilesInvariant == ListenerSpec => []ReloadInv
<1>1. ListenerInit => ReloadInv
  BY ReloadInit DEF ListenerInit
<1>2. ReloadInv /\ [ListenerNext]_everything => ReloadInv'
  BY FilesFollow, ReloadNext
<1> QED
  BY <1>1, <1>2, PTL DEF ListenerSpec

\* The listener implements TlsReload but for its fairness, which needs ENABLED:
\* taking connections gives the bind and the reload task no step they had not.
THEOREM ListenerImplementsTlsReload == ListenerSpec => Init /\ [][Next]_vars
<1>1. ListenerInit => Init
  BY DEF ListenerInit
<1> QED
  BY <1>1, FilesFollow, PTL DEF ListenerSpec

\* The listener implements Connections: a load that succeeds is its Load, and
\* nothing else gives handshakes another configuration.
THEOREM ListenerImplementsConnections == ListenerSpec => C!Spec
<1>1. ListenerInit => C!Init
  BY DEF ListenerInit
<1> QED
  BY <1>1, FilesInvariant, ConnectionsFollow, PTL DEF ListenerSpec, C!Spec

\* However clients connect meanwhile, no mixed pair is served.
THEOREM ListenerPairsMatch == ListenerSpec => []PairMatches
<1>1. ReloadInv => PairMatches
  BY DEF ReloadInv
<1> QED
  BY <1>1, FilesInvariant, PTL

\* What is served and whom handshakes trust are one configuration: the roots
\* in force are those of the client_ca that was loaded with the pair.
RootsAreServed == current > 0 => trusts[current] = Vouches[serving["ca"]]

\* There is a configuration exactly when the bind succeeded.
RootsInv ==
    /\ current \in 0..MaxLoads
    /\ DOMAIN trusts = 1..MaxLoads
    /\ current = 0 <=> pc \in {"bind", "down"}
    /\ RootsAreServed

LEMMA RootsInit == ListenerInit => RootsInv
<1> SUFFICES ASSUME ListenerInit PROVE RootsInv
  OBVIOUS
<1>1. current = 0 /\ current \in 0..MaxLoads
  BY MaxLoadsAssumption DEF ListenerInit, C!Init
<1>2. DOMAIN trusts = 1..MaxLoads
  BY DEF ListenerInit, C!Init, C!Versions
<1>3. pc = "bind"
  BY DEF ListenerInit, Init
<1> QED
  BY <1>1, <1>2, <1>3 DEF RootsInv, RootsAreServed

LEMMA RootsNext == ReloadInv /\ RootsInv /\ [ListenerNext]_everything => RootsInv'
<1> SUFFICES ASSUME ReloadInv, RootsInv, [ListenerNext]_everything PROVE RootsInv'
  OBVIOUS
<1>1. CASE UNCHANGED everything \/ Operator \/ ConnectionsStep
  <2>1. UNCHANGED <<trusts, current>>
    BY <1>1 DEF everything, conns, Operator, ConnectionsStep,
                C!Accept, C!Begin, C!Verify, C!Resume, C!Close
  <2>2. UNCHANGED <<pc, serving>>
    BY <1>1 DEF everything, files, vars, Operator, Replace, Remove, ConnectionsStep
  <2> QED
    BY <2>1, <2>2 DEF RootsInv, RootsAreServed
<1>2. CASE Pass
  <2>1. UNCHANGED <<trusts, current, serving>>
    BY <1>2 DEF Pass, conns, BindRead, HooksOver, FirstLook, FirstSeen, Tick, Look, Looked, Load
  <2>2. pc' \in {"bind", "down"} <=> pc \in {"bind", "down"}
    BY <1>2 DEF Pass, Goto, BindRead, HooksOver, FirstLook, FirstSeen, Tick, Look, Looked, Load
  <2> QED
    BY <2>1, <2>2 DEF RootsInv, RootsAreServed
<1>3. CASE Configure /\ Loads(got)
  <2>1. serving' = got /\ pc' \in {"hooks", "idle"}
    BY <1>3 DEF Configure, Bound, Loaded, Goto
  <2>2. current' = current + 1 /\ trusts' = [trusts EXCEPT ![current + 1] = Vouches[got["ca"]]]
        /\ current < MaxLoads
    BY <1>3 DEF Configure, C!Load
  <2>3. current' \in 0..MaxLoads /\ current' > 0 /\ current' \in 1..MaxLoads
    BY <2>2, MaxLoadsAssumption DEF RootsInv
  <2>4. trusts'[current'] = Vouches[serving'["ca"]]
    BY <2>1, <2>2, <2>3 DEF RootsInv
  <2> QED
    BY <2>1, <2>2, <2>3, <2>4 DEF RootsInv, RootsAreServed
<1>4. CASE Configure /\ ~Loads(got)
  <2>1. UNCHANGED <<trusts, current, serving>>
    BY <1>4 DEF Configure, Bound, Loaded, conns
  <2>2. pc' \in {"bind", "down"} <=> pc \in {"bind", "down"}
    BY <1>4 DEF Configure, Bound, Loaded, Goto
  <2> QED
    BY <2>1, <2>2 DEF RootsInv, RootsAreServed
<1> QED
  BY <1>1, <1>2, <1>3, <1>4 DEF ListenerNext

\* Whoever begins a handshake is measured by the client_ca of the pair that is
\* served, whatever of the files was replaced since (reload_listener).
THEOREM ListenerTrustsWhatItServes == ListenerSpec => []RootsAreServed
<1>1. RootsInv => RootsAreServed
  BY DEF RootsInv
<1> QED
  BY <1>1, RootsInit, RootsNext, FilesInvariant, PTL DEF ListenerSpec

-----------------------------------------------------------------------------
\* The theorems about Connections, with its definitions again: P's are C's.
P == INSTANCE ConnectionsProofs WITH kind <- "mutual", MaxVersion <- MaxLoads

LEMMA SameInit == C!Init => P!Init
BY DEF C!Init, P!Init, C!Versions, P!Versions, C!Free, P!Free

LEMMA SameNext == [C!Next]_(C!vars) => [P!Next]_(P!vars)
<1>1. C!Next => P!Next
  <2>1. \A t \in SUBSET Clients : C!Load(t) => P!Load(t)
    BY DEF C!Load, P!Load, C!Versions, P!Versions
  <2>2. \A c \in Slots, k \in Clients : C!Accept(c, k) => P!Accept(c, k)
    BY DEF C!Accept, P!Accept, C!Free, P!Free, C!NoPeer, P!NoPeer
  <2>3. ASSUME NEW c \in Slots
        PROVE  /\ C!Begin(c) => P!Begin(c)
               /\ C!Close(c) => P!Close(c)
    BY DEF C!Begin, P!Begin, C!Close, P!Close, C!At, P!At, C!Free, P!Free
  <2>4. ASSUME NEW c \in Slots
        PROVE  /\ C!Verify(c) => P!Verify(c)
               /\ C!Resume(c) => P!Resume(c)
    BY DEF C!Verify, P!Verify, C!Resume, P!Resume, C!Open, P!Open, C!At, P!At,
           C!Verified, P!Verified, C!NoPeer, P!NoPeer
  <2> QED
    BY <2>1, <2>2, <2>3, <2>4 DEF C!Next, P!Next
<1>2. C!vars = P!vars /\ (UNCHANGED C!vars => UNCHANGED P!vars)
  BY DEF C!vars, P!vars
<1> QED
  BY <1>1, <1>2

\* What Connections assumes of its constants.
LEMMA Assumptions == P!MaxVersionAssumption /\ P!NoPeerAssumption
BY MaxLoadsAssumption, NoPeerAssumption
   DEF P!MaxVersionAssumption, P!NoPeerAssumption, P!NoPeer, C!NoPeer

\* The inductive invariant of Connections holds of the listener's.
LEMMA ConnectionsInvariant == ListenerSpec => []P!ConnInv
<1>1. ListenerInit => P!ConnInv
  BY SameInit, P!ConnInit, Assumptions DEF ListenerInit, P!MaxVersionAssumption, P!NoPeerAssumption
<1>2. P!ConnInv /\ ReloadInv /\ [ListenerNext]_everything => P!ConnInv'
  <2>1. P!ConnInv /\ [P!Next]_(P!vars) => P!SessionInv' /\ P!LoadedInv'
    BY P!SessionNext, P!LoadedNext, Assumptions DEF P!MaxVersionAssumption, P!NoPeerAssumption
  <2> QED
    BY <2>1, ConnectionsFollow, SameNext DEF P!ConnInv
<1> QED
  BY <1>1, <1>2, FilesInvariant, PTL DEF ListenerSpec

\* Every request of an open connection carries the certificate of a client that
\* the client_ca vouches for which was loaded when its handshake began.
THEOREM ListenerPeersAreVerified == ListenerSpec => []C!PeerIsVerified
<1>1. P!ConnInv => C!PeerIsVerified
  BY DEF P!ConnInv, P!SessionInv, P!PeerIsVerified, C!PeerIsVerified, P!At, C!At,
         P!Verified, C!Verified, P!NoPeer, C!NoPeer
<1> QED
  BY <1>1, ConnectionsInvariant, PTL
=============================================================================
