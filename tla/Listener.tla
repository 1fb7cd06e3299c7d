------------------------------- MODULE Listener -------------------------------
(***************************************************************************)
(* A TLS listener with client_ca and reload_seconds (BoundListener::serve  *)
(* in runtime.rs): its files and the task that reloads them (TlsReload)    *)
(* beside the connections it takes (Connections). They share one thing,    *)
(* the RustlsConfig: what a load read becomes the configuration that       *)
(* handshakes begin with. A client is vouched for by versions of the       *)
(* client_ca file.                                                         *)
(***************************************************************************)
EXTENDS TlsReload

CONSTANTS
    Clients,        \* who may connect, each with a certificate
    Slots,          \* connections open at a time
    MaxLoads,       \* bounds how many configurations the listener gets
    Vouches         \* whom each version of the client_ca file vouches for

ASSUME MaxLoadsAssumption == MaxLoads \in Nat \ {0}
ASSUME VouchesAssumption == Vouches \in [1..MaxVersion -> SUBSET Clients]

VARIABLES
    trusts,     \* whom each configuration vouches for
    current,    \* the configuration a handshake gets that begins now, or 0
    sessions,   \* the clients each configuration has sessions of
    conn        \* the connections

C == INSTANCE Connections WITH kind <- "mutual", MaxVersion <- MaxLoads

ASSUME NoPeerAssumption == C!NoPeer \notin Clients

files      == vars
conns      == <<trusts, current, sessions, conn>>

ListenerInit == Init /\ C!Init

\* Mutant: the roots of the bind are kept when the pair is loaded again.
Configure_KeepsRoots ==
    /\ Bound \/ Loaded
    /\ IF Loads(got)
       THEN C!Load(IF current = 0 THEN Vouches[got["ca"]] ELSE trusts[current])
       ELSE UNCHANGED conns

\* The bind, or the reload task, has read all files: the ones that load make
\* a configuration, of a client_ca version that was read with the pair.
Configure ==
    /\ Bound \/ Loaded
    /\ IF Loads(got)
       THEN C!Load(Vouches[got["ca"]])
       ELSE UNCHANGED conns

\* The other steps of the bind and of the reload task.
Pass ==
    /\ \/ BindRead \/ HooksOver \/ FirstLook \/ FirstSeen
       \/ Tick \/ Look \/ Looked \/ Load
    /\ UNCHANGED conns

Operator ==
    /\ \E f \in Files : Replace(f) \/ Remove(f)
    /\ UNCHANGED conns

\* The listener takes connections once the hooks are over.
Taking == pc \notin {"bind", "hooks", "down"}

ConnectionsStep ==
    /\ \E c \in Slots :
          \/ Taking /\ \E k \in Clients : C!Accept(c, k)
          \/ C!Begin(c) \/ C!Verify(c) \/ C!Resume(c) \/ C!Close(c)
    /\ UNCHANGED files

ListenerNext == Configure \/ Pass \/ Operator \/ ConnectionsStep

everything == <<files, conns>>

\* As in TlsReload the hooks and the timer come to an end, and a pass is not
\* left half way. Clients and operator may stop at any point.
ListenerSpec ==
    /\ ListenerInit
    /\ [][ListenerNext]_everything
    /\ WF_everything(Configure \/ Pass)

-----------------------------------------------------------------------------
(* Properties.                                                              *)

\* A change of client_ca ends what it should end: once the files stay loadable
\* and the watch has seen that they changed, and no file is missed when they
\* are loaded, there comes a point after which no handshake, full or resumed,
\* succeeds for a client that the client_ca on the disk does not vouch for.
DropTakesEffect ==
    /\ <>[]Loads(disk)
    /\ <>[]~missed
    /\ <>(Watching /\ seen # disk)
    => <>[][\A c \in Slots : C!Verify(c) \/ C!Resume(c) =>
              Loads(disk) /\ conn[c].client \in Vouches[disk["ca"]]]_everything
=============================================================================
