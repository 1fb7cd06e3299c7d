-------------------------- MODULE ConnectionsProofs --------------------------
(***************************************************************************)
(* Theorems about Connections, for any clients, any number of connections  *)
(* and of reloads.                                                         *)
(***************************************************************************)
EXTENDS Connections, TLAPS

\* What a configuration resumes it verified itself, and what a connection
\* carries was verified by the configuration it took.
SessionInv ==
    /\ TypeOK
    /\ kind = "mutual" => \A v \in Versions : sessions[v] \subseteq trusts[v]
    /\ PeerIsVerified

\* A configuration that is not there yet has no sessions and no handshake.
LoadedInv ==
    /\ \A v \in Versions : v > current => sessions[v] = {}
    /\ \A c \in Slots :
          /\ At(c, "accepted") => current > 0
          /\ conn[c].at \in {"handshake", "open"} => conn[c].version <= current

ConnInv == SessionInv /\ LoadedInv

\* No session and no connection at first.
LEMMA ConnInit == Init => ConnInv
<1> SUFFICES ASSUME Init PROVE ConnInv
  OBVIOUS
<1>1. current \in 0..MaxVersion
  BY MaxVersionAssumption DEF Init
<1>2. SessionInv
  BY <1>1 DEF Init, SessionInv, TypeOK, PeerIsVerified, At, Free
<1>3. LoadedInv
  BY DEF Init, LoadedInv, At, Free
<1> QED
  BY <1>2, <1>3 DEF ConnInv

\* What LoadedInv says of one connection and of one configuration.
LEMMA LoadedNext == ConnInv /\ [Next]_vars => LoadedInv'
<1> SUFFICES ASSUME ConnInv, [Next]_vars PROVE LoadedInv'
  OBVIOUS
<1> USE MaxVersionAssumption DEF ConnInv, Versions, At
<1>1. current \in Nat
  BY DEF SessionInv, TypeOK
<1>2. CASE UNCHANGED vars
  BY <1>2 DEF vars, LoadedInv
<1>3. ASSUME NEW t \in SUBSET Clients, Load(t)
      PROVE LoadedInv'
  <2>1. \A c \in Slots : conn[c].at \in {"handshake", "open"} => conn[c].version \in Nat
    BY DEF SessionInv, TypeOK, Conns, Served, Free
  <2> QED
    BY <1>1, <1>3, <2>1 DEF Load, LoadedInv
<1>4. ASSUME NEW c \in Slots, NEW k \in Clients, Accept(c, k)
      PROVE LoadedInv'
  <2>1. conn'[c].version = 0 /\ (conn'[c].at = "accepted" => current > 0)
    BY <1>4 DEF Accept, SessionInv, TypeOK
  <2> QED
    BY <1>1, <1>4, <2>1 DEF Accept, LoadedInv, SessionInv, TypeOK
<1>5. ASSUME NEW c \in Slots, Begin(c)
      PROVE LoadedInv'
  <2>1. conn[c] \in Conns
    BY <1>5 DEF Begin, SessionInv, TypeOK, Free
  <2>2. conn'[c].at = "handshake" /\ conn'[c].version = current
    BY <1>5, <2>1 DEF Begin, SessionInv, TypeOK, Conns, Served
  <2> QED
    BY <1>1, <1>5, <2>2 DEF Begin, LoadedInv, SessionInv, TypeOK
<1>6. ASSUME NEW c \in Slots, Verify(c) \/ Resume(c)
      PROVE LoadedInv'
  <2>1. conn[c] \in Conns /\ conn[c].version \in Versions /\ conn[c].version <= current
    BY <1>6 DEF Verify, Resume, LoadedInv, SessionInv, TypeOK, Free, Conns, Served
  <2>2. conn'[c].at = "open" /\ conn'[c].version = conn[c].version
    BY <1>6, <2>1 DEF Verify, Resume, Open, SessionInv, TypeOK, Conns, Served
  <2>3. \A v \in Versions : v > current => sessions'[v] = sessions[v]
    BY <1>1, <1>6, <2>1 DEF Verify, Resume, SessionInv, TypeOK
  <2> QED
    BY <1>6, <2>1, <2>2, <2>3 DEF Verify, Resume, Open, LoadedInv, SessionInv, TypeOK
<1>7. ASSUME NEW c \in Slots, Close(c)
      PROVE LoadedInv'
  BY <1>7 DEF Close, LoadedInv, SessionInv, TypeOK, Free
<1> QED
  BY <1>2, <1>3, <1>4, <1>5, <1>6, <1>7 DEF Next

\* One case per action; a configuration gains a session only of a client it
\* verified, which is what a resumed session rests on.
LEMMA SessionNext == ConnInv /\ [Next]_vars => SessionInv'
<1> SUFFICES ASSUME SessionInv, LoadedInv, [Next]_vars PROVE SessionInv'
  BY DEF ConnInv
<1> USE NoPeerAssumption
<1>1. CASE UNCHANGED vars
  BY <1>1 DEF vars, SessionInv, TypeOK, Conns, Served, PeerIsVerified, At, Verified
<1>2. ASSUME NEW t \in SUBSET Clients, Load(t)
      PROVE SessionInv'
  <2>1. current \in Nat /\ current' = current + 1 /\ current' \in 0..MaxVersion
        /\ kind' = kind /\ conn' = conn /\ sessions' = sessions
    BY <1>2, MaxVersionAssumption DEF Load, SessionInv, TypeOK
  <2>2. /\ trusts' \in [Versions -> SUBSET Clients]
        /\ \A v \in Versions : v # current + 1 => trusts'[v] = trusts[v]
    BY <1>2 DEF Load, SessionInv, TypeOK
  <2>3. TypeOK'
    BY <2>1, <2>2 DEF SessionInv, TypeOK, Conns, Served
  <2>4. \A v \in Versions : kind = "mutual" => sessions[v] \subseteq trusts'[v]
    BY <2>1, <2>2 DEF SessionInv, LoadedInv, Versions
  <2>5. ASSUME NEW c \in Slots, At(c, "open"), kind = "mutual"
        PROVE conn[c].client \in trusts'[conn[c].version]
    <3>1. conn[c].version \in Versions /\ conn[c].version <= current
      BY <2>5 DEF SessionInv, LoadedInv, TypeOK, Conns, Served, Free, At
    <3> QED
      BY <2>1, <2>2, <2>5, <3>1 DEF SessionInv, PeerIsVerified, Verified, Versions
  <2>6. PeerIsVerified'
    BY <2>1, <2>5 DEF SessionInv, PeerIsVerified, Verified, At
  <2> QED
    BY <2>1, <2>3, <2>4, <2>6 DEF SessionInv
<1>3. ASSUME NEW c \in Slots, NEW k \in Clients, Accept(c, k)
      PROVE SessionInv'
  <2>1. TypeOK'
    BY <1>3 DEF Accept, SessionInv, TypeOK, Conns, Served, Free
  <2>2. PeerIsVerified'
    BY <1>3 DEF Accept, SessionInv, TypeOK, PeerIsVerified, At, Verified
  <2> QED
    BY <1>3, <2>1, <2>2 DEF Accept, SessionInv
<1>4. ASSUME NEW c \in Slots, Begin(c)
      PROVE SessionInv'
  <2>1. kind # "plain" /\ conn[c] \in Conns /\ current \in Versions
    BY <1>4, MaxVersionAssumption
       DEF Begin, At, SessionInv, LoadedInv, TypeOK, Versions, Free, Conns, Served
  <2>2. conn'[c] \in Conns'
    BY <1>4, <2>1 DEF Begin, At, SessionInv, TypeOK, Conns, Served
  <2>3. TypeOK'
    BY <1>4, <2>2 DEF Begin, SessionInv, TypeOK, Conns
  <2>4. PeerIsVerified'
    BY <1>4 DEF Begin, SessionInv, TypeOK, PeerIsVerified, At, Verified
  <2> QED
    BY <1>4, <2>3, <2>4 DEF Begin, SessionInv
<1>5. ASSUME NEW c \in Slots, Verify(c) \/ Resume(c) \/ Close(c)
      PROVE SessionInv'
  BY <1>5 DEF Verify, Resume, Close, Open, SessionInv, TypeOK, Conns, Served, Free,
              PeerIsVerified, At, Verified
<1> QED
  BY <1>1, <1>2, <1>3, <1>4, <1>5 DEF Next

\* The invariant of every reachable state.
LEMMA ConnInvariant == Spec => []ConnInv
<1>1. ConnInv /\ [Next]_vars => ConnInv'
  BY SessionNext, LoadedNext DEF ConnInv
<1> QED
  BY <1>1, ConnInit, PTL DEF Spec

\* For any clients, connections and reloads every variable keeps its type: a
\* handshake begins only once there is a configuration for it to take.
THEOREM ConnectionTypesHold == Spec => []TypeOK
<1>1. ConnInv => TypeOK
  BY DEF ConnInv, SessionInv
<1> QED
  BY <1>1, ConnInvariant, PTL

\* Whatever reloads and resumed sessions come between, every request on a
\* listener with client_ca carries the certificate of a client that the files
\* of its handshake vouch for (TlsAcceptor, build_server_config).
THEOREM PeersAreVerified == Spec => []PeerIsVerified
<1>1. ConnInv => PeerIsVerified
  BY DEF ConnInv, SessionInv
<1> QED
  BY <1>1, ConnInvariant, PTL

-----------------------------------------------------------------------------
\* What stays true of a client dropped by configuration v until one after it
\* takes the client back: nothing that is left of it can end in an open
\* connection.
Shut(k, v) ==
    /\ kind = "mutual"
    /\ v <= current
    /\ \A w \in v..current : k \notin trusts[w]
    /\ \A c \in Slots : conn[c].at \in {"handshake", "open"} /\ conn[c].client = k
                         => At(c, "handshake") /\ ~Verified(c)

\* A dropped client is shut out at first.
LEMMA DroppedIsShut ==
    ASSUME NEW k \in Clients, NEW v \in Versions, Dropped(k), current = v
    PROVE  Shut(k, v)
<1>1. v..current = {v} /\ v <= current
  BY MaxVersionAssumption DEF Versions
<1> QED
  BY <1>1 DEF Dropped, Shut

\* A load decides: it takes the client back, or it stays shut out.
LEMMA ShutAtLoad ==
    ASSUME NEW k \in Clients, NEW v \in Versions, NEW t \in SUBSET Clients,
           ConnInv, Shut(k, v), Load(t)
    PROVE  (Shut(k, v) \/ Back(k, v))'
<1> USE MaxVersionAssumption DEF Versions
<1>1. /\ current \in Nat /\ current' = current + 1 /\ current' \in Versions
      /\ kind' = kind /\ conn' = conn
      /\ trusts'[current'] = t
      /\ \A w \in Versions : w # current' => trusts'[w] = trusts[w]
  BY DEF Load, ConnInv, SessionInv, TypeOK
<1>2. CASE k \in t
  BY <1>1, <1>2 DEF Back, Shut
<1>3. CASE k \notin t
  <2>1. \A w \in v..current' : k \notin trusts'[w]
    BY <1>1, <1>3 DEF Shut
  <2>2. ASSUME NEW c \in Slots, At(c, "handshake"), conn[c].client = k
        PROVE ~Verified(c)'
    <3>1. conn[c].version \in Versions /\ conn[c].version <= current
      BY <2>2 DEF ConnInv, SessionInv, LoadedInv, TypeOK, Conns, Served, Free, At
    <3>2. ~Verified(c)
      BY <2>2 DEF Shut, At
    <3> QED
      BY <1>1, <3>1, <3>2 DEF Verified
  <2> QED
    BY <1>1, <2>1, <2>2 DEF Shut, At
<1> QED
  BY <1>2, <1>3

\* No other step lets it back in: a handshake begins with a configuration that
\* does not vouch for it and so has no session of it either.
LEMMA ShutStays ==
    ASSUME NEW k \in Clients, NEW v \in Versions,
           ConnInv, Shut(k, v), [Next]_vars
    PROVE  (Shut(k, v) \/ Back(k, v))'
<1> USE MaxVersionAssumption DEF ConnInv
<1>1. CASE UNCHANGED vars
  BY <1>1 DEF vars, Shut, At, Verified
<1>2. ASSUME NEW t \in SUBSET Clients, Load(t)
      PROVE (Shut(k, v) \/ Back(k, v))'
  BY <1>2, ShutAtLoad
<1>3. ASSUME NEW c \in Slots, NEW j \in Clients, Accept(c, j)
      PROVE Shut(k, v)'
  BY <1>3 DEF Accept, Shut, SessionInv, TypeOK, At, Verified
<1>4. ASSUME NEW c \in Slots, Begin(c)
      PROVE Shut(k, v)'
  <2>1. current \in v..current
    BY DEF SessionInv, TypeOK, Versions, Shut
  <2>2. k \notin trusts[current]
    BY <2>1 DEF Shut
  <2>3. conn[c] \in Conns /\ conn[c] # Free /\ kind # "plain"
    BY <1>4 DEF Begin, At, Shut, SessionInv, TypeOK, Free
  <2>4. conn'[c].at = "handshake" /\ conn'[c].version = current
        /\ conn'[c].client = conn[c].client
    BY <1>4, <2>3 DEF Begin, SessionInv, TypeOK, Conns, Served
  <2>5. \A d \in Slots : d # c => conn'[d] = conn[d]
    BY <1>4 DEF Begin, SessionInv, TypeOK
  <2> QED
    BY <1>4, <2>2, <2>4, <2>5 DEF Begin, Shut, At, Verified
<1>5. ASSUME NEW c \in Slots, Verify(c) \/ Resume(c)
      PROVE Shut(k, v)'
  <2>1. conn[c] \in Conns /\ conn[c].version \in Versions /\ kind = "mutual"
    BY <1>5 DEF Verify, Resume, At, Shut, SessionInv, TypeOK, Free, Conns, Served
  <2>2. Verified(c)
    BY <1>5, <2>1 DEF Verify, Resume, SessionInv, Verified
  <2>3. conn[c].client # k
    BY <1>5, <2>2 DEF Verify, Resume, Shut, At
  <2>4. conn'[c].client = conn[c].client
    BY <1>5, <2>1 DEF Verify, Resume, Open, SessionInv, TypeOK, Conns, Served
  <2>5. \A d \in Slots : d # c => conn'[d] = conn[d]
    BY <1>5 DEF Verify, Resume, Open, SessionInv, TypeOK
  <2> QED
    BY <1>5, <2>3, <2>4, <2>5 DEF Verify, Resume, Shut, At, Verified
<1>6. ASSUME NEW c \in Slots, Close(c)
      PROVE Shut(k, v)'
  BY <1>6 DEF Close, Shut, SessionInv, TypeOK, Free, At, Verified
<1> QED
  BY <1>1, <1>2, <1>3, <1>4, <1>5, <1>6 DEF Next

\* What a configuration was loaded with it keeps.
LEMMA BackStays ==
    ASSUME NEW k \in Clients, NEW v \in Versions,
           ConnInv, Back(k, v), [Next]_vars
    PROVE  Back(k, v)'
<1>1. PICK w \in v..current : k \in trusts[w]
  BY DEF Back
<1>2. current \in Nat /\ w \in Versions /\ w <= current
  BY <1>1, MaxVersionAssumption DEF ConnInv, SessionInv, TypeOK, Versions
<1>3. current <= current' /\ trusts'[w] = trusts[w] /\ current' \in Nat
  <2>1. ASSUME NEW t \in SUBSET Clients, Load(t)
        PROVE current <= current' /\ trusts'[w] = trusts[w] /\ current' \in Nat
    BY <1>2, <2>1 DEF Load, ConnInv, SessionInv, TypeOK
  <2>2. ASSUME ~(\E t \in SUBSET Clients : Load(t))
        PROVE UNCHANGED <<current, trusts>>
    BY <2>2 DEF Next, vars, Accept, Begin, Verify, Resume, Close
  <2> QED
    BY <1>2, <2>1, <2>2
<1> QED
  BY <1>1, <1>2, <1>3 DEF Back, Versions

\* A client that a reload dropped from client_ca gets no request served any
\* more, however many sessions it has left, unless a later reload takes it back
\* (reload_listener, build_server_config).
THEOREM DroppedStayOut == Spec => DroppedStaysOut
<1> DEFINE Out(k, v) == Back(k, v) \/ \A c \in Slots : At(c, "open") => conn[c].client # k
           Kept(k, v) == Shut(k, v) \/ Back(k, v)
<1>1. ASSUME NEW k \in Clients, NEW v \in Versions
      PROVE Spec => [](Dropped(k) /\ current = v => []Out(k, v))
  <2>1. Dropped(k) /\ current = v => Kept(k, v)
    BY DroppedIsShut
  <2>2. ConnInv /\ Kept(k, v) /\ [Next]_vars => Kept(k, v)'
    BY ShutStays, BackStays
  <2>3. Kept(k, v) => Out(k, v)
    BY DEF Shut, At
  <2> HIDE DEF Out, Kept
  <2> QED
    BY <2>1, <2>2, <2>3, ConnInvariant, PTL DEF Spec
<1> QED
  BY <1>1 DEF DroppedStaysOut
=============================================================================
