----------------------------- MODULE Connections -----------------------------
(***************************************************************************)
(* The connections of one listener and what their requests know of the     *)
(* other end: the acceptors of connection.rs and the session read off a    *)
(* finished handshake, while reloads replace the configuration that new    *)
(* handshakes get. Which files a load reads is TlsReload's; here it is a   *)
(* step that gives the listener a newer configuration, which vouches for   *)
(* anyone (Listener has both). The handshake is rustls's, sessions it      *)
(* resumes included, modelled from how connection.rs and                   *)
(* build_server_config use it.                                             *)
(***************************************************************************)
EXTENDS Naturals

CONSTANTS
    Clients,        \* who may connect, each with a certificate
    Slots,          \* connections open at a time
    MaxVersion      \* configurations the listener gets

ASSUME MaxVersionAssumption == MaxVersion \in Nat \ {0}

NoPeer == "no peer"         \* req.tls has no peer certificate, or is None
ASSUME NoPeerAssumption == NoPeer \notin Clients

Versions == 1..MaxVersion

VARIABLES
    kind,       \* the listener: without TLS, with, with client_ca too
    trusts,     \* whom the client_ca of each configuration vouches for
    current,    \* the configuration a handshake gets that begins now, or 0
    sessions,   \* the clients each configuration has sessions of
    conn        \* the connections

vars == <<kind, trusts, current, sessions, conn>>

\* A connection, the configuration its handshake took, 0 for none, and what
\* its requests carry once it is open.
Served(versions, peers) ==
    [at : {"open"}, client : Clients, version : versions, peer : peers]
Conns ==
    IF kind = "plain" THEN Served({0}, {NoPeer})
    ELSE Served(Versions, Clients \cup {NoPeer})
         \cup [at : {"accepted"}, client : Clients, version : {0}, peer : {NoPeer}]
         \cup [at : {"handshake"}, client : Clients, version : Versions, peer : {NoPeer}]
Free == [at |-> "free"]

TypeOK ==
    /\ kind \in {"plain", "tls", "mutual"}
    /\ trusts \in [Versions -> SUBSET Clients]
    /\ current \in 0..MaxVersion
    /\ sessions \in [Versions -> SUBSET Clients]
    /\ conn \in [Slots -> Conns \cup {Free}]

Init ==
    /\ kind \in {"plain", "tls", "mutual"}
    /\ trusts = [v \in Versions |-> {}]
    /\ current = 0
    /\ sessions = [v \in Versions |-> {}]
    /\ conn = [c \in Slots |-> Free]

At(c, state) == conn[c].at = state

\* The client of a connection is vouched for by the files in force when its
\* handshake began.
Verified(c) == conn[c].client \in trusts[conn[c].version]

-----------------------------------------------------------------------------
\* Mutant: a new configuration shares the session storage of the old one.
Load_KeepsSessions(t) ==
    /\ kind # "plain"
    /\ current < MaxVersion
    /\ current' = current + 1
    /\ trusts' = [trusts EXCEPT ![current + 1] = t]
    /\ sessions' = [sessions EXCEPT ![current + 1] =
                       IF current = 0 THEN {} ELSE sessions[current]]
    /\ UNCHANGED <<kind, conn>>

\* build_rustls_config at bind and reload_from_config later: a configuration
\* built from new, with no sessions yet.
Load(t) ==
    /\ kind # "plain"
    /\ current < MaxVersion
    /\ current' = current + 1
    /\ trusts' = [trusts EXCEPT ![current + 1] = t]
    /\ UNCHANGED <<kind, sessions, conn>>

\* Mutant: a TLS connection is served before its handshake.
Accept_AtOnce(c, k) ==
    /\ conn[c] = Free
    /\ kind = "plain" \/ current > 0
    /\ conn' = [conn EXCEPT ![c] =
          [at |-> "open", client |-> k, version |-> 0, peer |-> NoPeer]]
    /\ UNCHANGED <<kind, trusts, current, sessions>>

\* PlainAcceptor serves the connection at once, TlsAcceptor after a handshake.
Accept(c, k) ==
    /\ conn[c] = Free
    /\ kind = "plain" \/ current > 0
    /\ conn' = [conn EXCEPT ![c] =
          [at |-> IF kind = "plain" THEN "open" ELSE "accepted",
           client |-> k, version |-> 0, peer |-> NoPeer]]
    /\ UNCHANGED <<kind, trusts, current, sessions>>

\* The handshake begins with the configuration of the moment.
Begin(c) ==
    /\ At(c, "accepted")
    /\ conn' = [conn EXCEPT ![c].at = "handshake", ![c].version = current]
    /\ UNCHANGED <<kind, trusts, current, sessions>>

\* The facts requests carry are read off the connection the handshake made.
Open(c) ==
    conn' = [conn EXCEPT ![c].at = "open",
                         ![c].peer = IF kind = "mutual" THEN conn[c].client ELSE NoPeer]

\* A full handshake: with client_ca the client must be vouched for.
Verify(c) ==
    /\ At(c, "handshake")
    /\ kind = "mutual" => Verified(c)
    /\ Open(c)
    /\ sessions' = [sessions EXCEPT ![conn[c].version] = @ \cup {conn[c].client}]
    /\ UNCHANGED <<kind, trusts, current>>

\* Mutant: sessions are looked up in the configuration of the moment.
Resume_Anywhere(c) ==
    /\ At(c, "handshake")
    /\ \E v \in Versions : conn[c].client \in sessions[v]
    /\ Open(c)
    /\ UNCHANGED <<kind, trusts, current, sessions>>

\* A session of the same configuration is resumed: the certificate it was
\* made with is the connection's, and is not verified again.
Resume(c) ==
    /\ At(c, "handshake")
    /\ conn[c].client \in sessions[conn[c].version]
    /\ Open(c)
    /\ UNCHANGED <<kind, trusts, current, sessions>>

\* Refused, timed out, or closed by either side.
Close(c) ==
    /\ conn[c] # Free
    /\ conn' = [conn EXCEPT ![c] = Free]
    /\ UNCHANGED <<kind, trusts, current, sessions>>

Next ==
    \/ \E t \in SUBSET Clients : Load(t)
    \/ \E c \in Slots :
          \/ \E k \in Clients : Accept(c, k)
          \/ Begin(c) \/ Verify(c) \/ Resume(c) \/ Close(c)

Spec == Init /\ [][Next]_vars

-----------------------------------------------------------------------------
(* Properties.                                                              *)

\* connection.rs: "A listener with client_ca refuses the handshake of a client
\* without such a chain, so there this is always True": every request there
\* carries the certificate of a client that the files in force when its
\* handshake began vouch for, one that resumed a session included; elsewhere
\* none carries one.
PeerIsVerified ==
    \A c \in Slots : At(c, "open") =>
        IF kind = "mutual"
        THEN conn[c].peer = conn[c].client /\ Verified(c)
        ELSE conn[c].peer = NoPeer

\* The configuration in force does not vouch for the client, and no handshake
\* or connection of its own is left from before.
Dropped(k) ==
    /\ kind = "mutual"
    /\ current > 0
    /\ k \notin trusts[current]
    /\ \A c \in Slots : conn[c].at \in {"handshake", "open"} => conn[c].client # k

\* A configuration since number v vouches for the client.
Back(k, v) == \E w \in v..current : k \in trusts[w]

\* A client that a reload dropped from client_ca is not let in again, neither
\* by a handshake nor with a session it still has of an older configuration,
\* unless a later reload takes it back.
DroppedStaysOut ==
    \A k \in Clients, v \in Versions :
        [](Dropped(k) /\ current = v =>
            [](Back(k, v) \/ \A c \in Slots : At(c, "open") => conn[c].client # k))
=============================================================================
