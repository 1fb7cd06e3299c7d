------------------------------ MODULE ClientPools ------------------------------
(***************************************************************************)
(* The pool of one clients.<name> entry (outbound.rs): a caller resolves   *)
(* the name, Rust code in the configuration it has (HttpClient::named), a  *)
(* script in that of the first server task (Client::from_named,            *)
(* set_named_clients in runtime.rs). HttpClient::pooled then builds the    *)
(* pool on first use under the registry's lock, and every request asks     *)
(* Pool::client for the reqwest client to send with, which looks at the    *)
(* TLS files when reload_seconds have passed and builds the client again,  *)
(* outside any lock, when one changed.                                     *)
(*                                                                         *)
(* Callers are threads of requests, from scripts or Rust. The TLS files    *)
(* are one version number, which stands for their contents and their       *)
(* modification times: an operator replaces them while callers run. A      *)
(* build may also fail for a reason that is not in the files, such as the  *)
(* process's limit of open files.                                          *)
(***************************************************************************)
EXTENDS Naturals

CONSTANTS
    Callers,
    Scripts,        \* those that are http.Client("<name>") of a script
    Settings,       \* the settings configurations may give the name
    Reloading,      \* those of them with reload_seconds over 0
    MaxTasks,       \* bounds how many server tasks are spawned
    MaxVersion,     \* bounds how often the files are replaced
    Broken          \* the versions that do not load

ASSUME MaxVersionAssumption == MaxVersion \in Nat \ {0}
ASSUME BrokenAssumption == Broken \subseteq 1..MaxVersion
ASSUME ScriptsAssumption == Scripts \subseteq Callers
ASSUME ReloadingAssumption == Reloading \subseteq Settings
ASSUME MaxTasksAssumption == MaxTasks \in Nat

Versions == 0..MaxVersion       \* 0: none yet
NoOne    == "no one"
NotBuilt == "not built"
NoEntry  == "no entry"          \* a configuration without the name
Unset    == "unset"             \* no task was spawned yet

ASSUME CallersAssumption == NoOne \notin Callers
ASSUME SettingsAssumption == {NotBuilt, NoEntry, Unset} \cap Settings = {}

VARIABLES
    named,      \* NAMED_CLIENTS: the entry scripts are given
    tasks,      \* how many tasks were spawned
    wants,      \* the entry each caller asks for the pool of
    disk,       \* the files as they are
    lock,       \* who holds the registry's mutex
    entry,      \* the settings the pool in the registry was built from
    current,    \* the files the pool's client was built from
    seen,       \* the stamps of the last look
    due,        \* whether reload_seconds passed since the last look
    pc,         \* what each caller is doing
    got,        \* the files a caller's own build read, 0 if it could not
    look        \* the stamps on which a caller builds the client again

config == <<named, tasks, wants>>
vars   == <<config, disk, lock, entry, current, seen, due, pc, got, look>>

\* The caller has the pool and is past HttpClient::named.
Holding    == {"ready", "rebuild", "store", "read"}
Rebuilding == {"rebuild", "store"}
Places     == Holding \cup {"new", "unknown", "lookup", "locked", "built",
                             "conflict", "failed"}

TypeOK ==
    /\ named \in Settings \cup {NoEntry, Unset}
    /\ tasks \in 0..MaxTasks
    /\ wants \in [Callers -> Settings \cup {NoEntry}]
    /\ disk \in 1..MaxVersion
    /\ lock \in Callers \cup {NoOne}
    /\ entry \in Settings \cup {NotBuilt}
    /\ current \in Versions
    /\ seen \in Versions
    /\ due \in BOOLEAN
    /\ pc \in [Callers -> Places]
    /\ got \in [Callers -> Versions]
    /\ look \in [Callers -> Versions]

Init ==
    /\ named = Unset
    /\ tasks = 0
    /\ wants \in [Callers -> Settings \cup {NoEntry}]
    /\ \A c \in Scripts : wants[c] = NoEntry
    /\ disk = 1
    /\ lock = NoOne
    /\ entry = NotBuilt
    /\ current = 0
    /\ seen = 0
    /\ due = FALSE
    /\ pc = [c \in Callers |-> "new"]
    /\ got = [c \in Callers |-> 0]
    /\ look = [c \in Callers |-> 0]

At(c, place)   == pc[c] = place
Goto(c, place) == pc' = [pc EXCEPT ![c] = place]

-----------------------------------------------------------------------------
(* The world outside.                                                       *)

Replace ==
    /\ disk < MaxVersion
    /\ disk' = disk + 1
    /\ UNCHANGED <<config, lock, entry, current, seen, due, pc, got, look>>

PeriodPasses ==
    /\ entry \in Reloading
    /\ ~due
    /\ due' = TRUE
    /\ UNCHANGED <<config, disk, lock, entry, current, seen, pc, got, look>>

-----------------------------------------------------------------------------
(* Where the name is looked up.                                             *)

\* Mutant: the newest task's clients replace those of the task before.
SetNamedClients_Replaces(s) ==
    /\ tasks < MaxTasks
    /\ tasks' = tasks + 1
    /\ named' = s
    /\ UNCHANGED <<wants, disk, lock, entry, current, seen, due, pc, got, look>>

\* spawn_with: what a later task brings is dropped.
SetNamedClients(s) ==
    /\ tasks < MaxTasks
    /\ tasks' = tasks + 1
    /\ named' = IF named = Unset THEN s ELSE named
    /\ UNCHANGED <<wants, disk, lock, entry, current, seen, due, pc, got, look>>

EntryOf(c) == IF c \in Scripts THEN named ELSE wants[c]

Resolve(c) ==
    /\ At(c, "new")
    /\ EntryOf(c) \in Settings
    /\ wants' = [wants EXCEPT ![c] = EntryOf(c)]
    /\ Goto(c, "lookup")
    /\ UNCHANGED <<named, tasks, disk, lock, entry, current, seen, due, got, look>>

\* UnknownClient: no such entry, or a script that asks before the task runs.
NotConfigured(c) ==
    /\ At(c, "new")
    /\ EntryOf(c) \notin Settings
    /\ Goto(c, "unknown")
    /\ UNCHANGED <<config, disk, lock, entry, current, seen, due, got, look>>

-----------------------------------------------------------------------------
(* HttpClient::pooled.                                                      *)

\* Mutant: the registry is looked up with no lock held across the build.
Lock_Shared(c) ==
    /\ At(c, "lookup")
    /\ Goto(c, "locked")
    /\ UNCHANGED <<config, disk, lock, entry, current, seen, due, got, look>>

Lock(c) ==
    /\ At(c, "lookup")
    /\ lock = NoOne
    /\ lock' = c
    /\ Goto(c, "locked")
    /\ UNCHANGED <<config, disk, entry, current, seen, due, got, look>>

\* Mutant: a name that is built is handed to whoever asks.
Found_AnySettings(c) ==
    /\ At(c, "locked")
    /\ entry # NotBuilt
    /\ Goto(c, "ready")
    /\ lock' = NoOne
    /\ UNCHANGED <<config, disk, entry, current, seen, due, got, look>>

Found(c) ==
    /\ At(c, "locked")
    /\ entry # NotBuilt
    /\ Goto(c, IF entry = wants[c] THEN "ready" ELSE "conflict")
    /\ lock' = NoOne
    /\ UNCHANGED <<config, disk, entry, current, seen, due, got, look>>

Build(c) ==
    /\ At(c, "locked")
    /\ entry = NotBuilt
    /\ disk \notin Broken
    /\ got' = [got EXCEPT ![c] = disk]
    /\ Goto(c, "built")
    /\ UNCHANGED <<config, disk, lock, entry, current, seen, due, look>>

\* Mutant: a failed build poisons the mutex, and nobody takes it over.
BuildFails_Poisons(c) ==
    /\ At(c, "locked")
    /\ entry = NotBuilt
    /\ Goto(c, "failed")
    /\ lock' = "poisoned"
    /\ UNCHANGED <<config, disk, entry, current, seen, due, got, look>>

\* Files that do not load, or cannot be read, insert nothing, and the caller
\* may come again.
BuildFails(c) ==
    /\ At(c, "locked")
    /\ entry = NotBuilt
    /\ Goto(c, "failed")
    /\ lock' = NoOne
    /\ UNCHANGED <<config, disk, entry, current, seen, due, got, look>>

ComeAgain(c) ==
    /\ pc[c] \in {"failed", "unknown"}
    /\ Goto(c, "new")
    /\ UNCHANGED <<config, disk, lock, entry, current, seen, due, got, look>>

\* The stamps are taken now, after the build read the files, if they are
\* ever to be looked at.
Insert(c) ==
    /\ At(c, "built")
    /\ entry' = wants[c]
    /\ current' = got[c]
    /\ seen' = IF wants[c] \in Reloading THEN disk ELSE seen
    /\ lock' = NoOne
    /\ Goto(c, "ready")
    /\ UNCHANGED <<config, disk, due, got, look>>

-----------------------------------------------------------------------------
(* HttpClient::request: Pool::client, then the exchange.                    *)

\* Mutant: the stamps are updated by the build, not by the look.
Look_LeavesSeen(c) ==
    /\ At(c, "ready")
    /\ due' = FALSE
    /\ IF due /\ disk # seen
       THEN look' = [look EXCEPT ![c] = disk] /\ Goto(c, "rebuild")
       ELSE UNCHANGED look /\ Goto(c, "read")
    /\ UNCHANGED <<config, disk, lock, entry, current, seen, got>>

\* The mutex of `seen` is held from the test of the period to the update. A
\* pool that does not reload has no period.
Look(c) ==
    /\ At(c, "ready")
    /\ due' = FALSE
    /\ IF due /\ disk # seen
       THEN /\ seen' = disk
            /\ look' = [look EXCEPT ![c] = disk]
            /\ Goto(c, "rebuild")
       ELSE /\ Goto(c, "read")
            /\ UNCHANGED <<seen, look>>
    /\ UNCHANGED <<config, disk, lock, entry, current, got>>

Rebuild(c) ==
    /\ At(c, "rebuild")
    /\ got' = [got EXCEPT ![c] = disk]
    /\ Goto(c, IF disk \in Broken THEN "read" ELSE "store")
    /\ UNCHANGED <<config, disk, lock, entry, current, seen, due, look>>

\* The files would load and cannot be read: the stamps are taken already.
RebuildMisses(c) ==
    /\ At(c, "rebuild")
    /\ disk \notin Broken
    /\ got' = [got EXCEPT ![c] = 0]
    /\ Goto(c, "read")
    /\ UNCHANGED <<config, disk, lock, entry, current, seen, due, look>>

\* Mutant: the client that was built is not kept.
Store_Forgets(c) ==
    /\ At(c, "store")
    /\ Goto(c, "read")
    /\ UNCHANGED <<config, disk, lock, entry, current, seen, due, got, look>>

Store(c) ==
    /\ At(c, "store")
    /\ current' = got[c]
    /\ Goto(c, "read")
    /\ UNCHANGED <<config, disk, lock, entry, seen, due, got, look>>

\* The client is cloned for this request; the caller sends and comes back.
Read(c) ==
    /\ At(c, "read")
    /\ Goto(c, "ready")
    /\ UNCHANGED <<config, disk, lock, entry, current, seen, due, got, look>>

-----------------------------------------------------------------------------
Caller(c) ==
    \/ Resolve(c) \/ NotConfigured(c) \/ ComeAgain(c)
    \/ Lock(c) \/ Found(c) \/ Build(c) \/ BuildFails(c) \/ Insert(c)
    \/ Look(c) \/ Rebuild(c) \/ RebuildMisses(c) \/ Store(c) \/ Read(c)

Next ==
    \/ \E c \in Callers : Caller(c)
    \/ \E s \in Settings \cup {NoEntry} : SetNamedClients(s)
    \/ Replace \/ PeriodPasses

Spec == Init /\ [][Next]_vars

\* Callers go on sending and the period goes on passing; the operator may
\* stop.
FairSpec ==
    /\ Spec
    /\ \A c \in Callers : WF_vars(Caller(c))
    /\ WF_vars(PeriodPasses)

-----------------------------------------------------------------------------
(* Properties.                                                              *)

\* A caller never gets a pool it did not configure, every caller that has one
\* shares the one in the registry, and to a script "configured" means by the
\* first task of the process, however many come after it.
PoolIsTheOneConfigured ==
    \A c \in Callers : pc[c] \in Holding =>
        entry = wants[c] /\ (c \in Scripts => entry = named)

\* The pool of a name is built once: nobody builds while one is in the
\* registry, or while somebody else builds.
BuiltOnce ==
    \A c \in Callers : At(c, "built") =>
        /\ entry = NotBuilt
        /\ \A d \in Callers : At(d, "built") => d = c

\* A change of the files starts one rebuild, however many requests look while
\* it runs: no two callers rebuild on the same stamps.
OneRebuildPerChange ==
    \A c, d \in Callers :
        pc[c] \in Rebuilding /\ pc[d] \in Rebuilding /\ look[c] = look[d] => c = d

\* Nobody starts to build again while another still does.
Alone == \A c, d \in Callers :
             pc[c] \in Rebuilding /\ pc[d] \in Rebuilding => c = d

\* The rebuild on the last change could not read the files.
Missed == \E c \in Callers : look[c] = seen /\ seen # 0 /\ got[c] = 0

\* Once the pool exists, a change of the files that ends in loadable files is
\* served, whichever caller notices it, as long as no rebuild takes longer than
\* the period and the last one could read what is there.
ChangePickedUp ==
    /\ <>[](disk \notin Broken)
    /\ <>[]~Missed
    /\ <>(entry \in Reloading /\ seen # disk)
    /\ []Alone
    => <>[](current = disk)

\* config.rs: "build the pool again from the files as they are now": the pool
\* never goes back to files that were replaced.
NeverOlder == [][current' >= current]_vars
=============================================================================
