------------------------------- MODULE TlsReload -------------------------------
(***************************************************************************)
(* The TLS files of one listener: read when it binds (build_server_config  *)
(* in runtime.rs), looked at again by reload_listener every reload_seconds *)
(* and read again when one's modification time differs.                    *)
(*                                                                         *)
(* An operator replaces the files while the process runs, one at a time,   *)
(* so every read and every stat of the listener may fall between two of    *)
(* the operator's steps. A file is its version: 0 when it is missing, and  *)
(* each replacement gets the next one. The version stands for the content  *)
(* and for the modification time: a replacement is one step and changes    *)
(* both. A read may also fail for a reason that is not on the disk, such   *)
(* as the process's limit of open files.                                   *)
(***************************************************************************)
EXTENDS Naturals, Sequences

CONSTANTS
    MaxVersion,     \* bounds how often a file is replaced
    Removable       \* the files the operator also removes

ASSUME MaxVersionAssumption == MaxVersion \in Nat \ {0}

Order    == <<"cert", "key", "ca">>     \* the order every pass takes them in
Files    == {"cert", "key", "ca"}
Versions == [Files -> 0..MaxVersion]
Missing  == [f \in Files |-> 0]

ASSUME RemovableAssumption == Removable \subseteq Files

VARIABLES
    disk,       \* the files as they are
    last,       \* the newest version each file ever had
    pc,         \* what the listener is doing
    step,       \* how many files the current pass went through
    got,        \* what the current pass read
    missed,     \* whether the load, or the last one, could not read a file
                \* that was there
    seen,       \* the stamps of the last look
    serving     \* what new connections are served with

vars == <<disk, last, pc, step, got, missed, seen, serving>>

Watching == pc \in {"idle", "look", "load"}

TypeOK ==
    /\ disk \in Versions
    /\ last \in Versions
    /\ pc \in {"bind", "hooks", "stamp", "idle", "look", "load", "down"}
    /\ step \in 0..Len(Order)
    /\ got \in Versions
    /\ missed \in BOOLEAN
    /\ seen \in Versions
    /\ serving \in Versions

Init ==
    /\ disk = [f \in Files |-> 1]
    /\ last = [f \in Files |-> 1]
    /\ pc = "bind"
    /\ step = 0
    /\ got = Missing
    /\ missed = FALSE
    /\ seen = Missing
    /\ serving = Missing

-----------------------------------------------------------------------------
(* The operator.                                                            *)

Replace(f) ==
    /\ last[f] < MaxVersion
    /\ last' = [last EXCEPT ![f] = @ + 1]
    /\ disk' = [disk EXCEPT ![f] = last[f] + 1]
    /\ UNCHANGED <<pc, step, got, missed, seen, serving>>

Remove(f) ==
    /\ f \in Removable
    /\ disk[f] # 0
    /\ disk' = [disk EXCEPT ![f] = 0]
    /\ UNCHANGED <<last, pc, step, got, missed, seen, serving>>

-----------------------------------------------------------------------------
(* Passes over the files.                                                   *)

Done    == step = Len(Order)
Current == Order[step + 1]

\* Mutant: a pass skips every other file.
TakeNext_SkipsOne ==
    /\ ~Done
    /\ got' = [got EXCEPT ![Current] = disk[Current]]
    /\ step' = step + 2

\* The next file of the pass is read into `got`, or its stamp is.
TakeNext ==
    /\ ~Done
    /\ got' = [got EXCEPT ![Current] = disk[Current]]
    /\ step' = step + 1

\* It is there and cannot be read.
MissNext ==
    /\ ~Done
    /\ disk[Current] # 0
    /\ got' = [got EXCEPT ![Current] = 0]
    /\ step' = step + 1
    /\ missed' = TRUE

Goto(next) == pc' = next /\ step' = 0

\* Mutant: the key is not checked against the certificate.
Loads_AnyPair(files) == \A f \in Files : files[f] # 0

\* build_server_config succeeds: every file is there, and the key is the
\* certificate's.
Loads(files) == (\A f \in Files : files[f] # 0) /\ files["cert"] = files["key"]

-----------------------------------------------------------------------------
(* bind_listener and the start of serve.                                    *)

BindRead ==
    /\ pc = "bind"
    /\ (TakeNext /\ UNCHANGED missed) \/ MissNext
    /\ UNCHANGED <<disk, last, pc, seen, serving>>

Bound ==
    /\ pc = "bind"
    /\ Done
    /\ IF Loads(got)
       THEN Goto("hooks") /\ serving' = got
       ELSE Goto("down") /\ UNCHANGED serving
    /\ UNCHANGED <<disk, last, got, missed, seen>>

\* The startup hooks are over: the listener listens and spawns
\* reload_listener.
HooksOver ==
    /\ pc = "hooks"
    /\ Goto("stamp")
    /\ UNCHANGED <<disk, last, got, missed, seen, serving>>

FirstLook ==
    /\ pc = "stamp"
    /\ TakeNext
    /\ UNCHANGED <<disk, last, pc, missed, seen, serving>>

FirstSeen ==
    /\ pc = "stamp"
    /\ Done
    /\ seen' = got
    /\ Goto("idle")
    /\ UNCHANGED <<disk, last, got, missed, serving>>

-----------------------------------------------------------------------------
(* reload_listener's loop.                                                  *)

Tick ==
    /\ pc = "idle"
    /\ Goto("look")
    /\ UNCHANGED <<disk, last, got, missed, seen, serving>>

Look ==
    /\ pc = "look"
    /\ TakeNext
    /\ UNCHANGED <<disk, last, pc, missed, seen, serving>>

Looked ==
    /\ pc = "look"
    /\ Done
    /\ IF got = seen
       THEN Goto("idle") /\ UNCHANGED <<missed, seen>>
       ELSE Goto("load") /\ seen' = got /\ missed' = FALSE
    /\ UNCHANGED <<disk, last, got, serving>>

Load ==
    /\ pc = "load"
    /\ (TakeNext /\ UNCHANGED missed) \/ MissNext
    /\ UNCHANGED <<disk, last, pc, seen, serving>>

\* Mutants: files that do not load take the listener's configuration down;
\* the stamps are taken after the load.
Loaded_DropsOld ==
    /\ pc = "load"
    /\ Done
    /\ serving' = IF Loads(got) THEN got ELSE Missing
    /\ Goto("idle")
    /\ UNCHANGED <<disk, last, got, missed, seen>>
Loaded_StampsAfter ==
    /\ pc = "load"
    /\ Done
    /\ serving' = IF Loads(got) THEN got ELSE serving
    /\ seen' = disk
    /\ Goto("idle")
    /\ UNCHANGED <<disk, last, got, missed>>

\* Files that do not load leave the configuration that is served.
Loaded ==
    /\ pc = "load"
    /\ Done
    /\ serving' = IF Loads(got) THEN got ELSE serving
    /\ Goto("idle")
    /\ UNCHANGED <<disk, last, got, missed, seen>>

-----------------------------------------------------------------------------
Listener ==
    \/ BindRead \/ Bound \/ HooksOver \/ FirstLook \/ FirstSeen
    \/ Tick \/ Look \/ Looked \/ Load \/ Loaded

Next == Listener \/ \E f \in Files : Replace(f) \/ Remove(f)

\* The startup hooks and the timer come to an end, and a pass is not left
\* half way. The operator may stop at any point.
Spec == Init /\ [][Next]_vars /\ WF_vars(Listener)

-----------------------------------------------------------------------------
(* Properties.                                                              *)

\* No connection is ever served a certificate with another certificate's key,
\* however the operator's steps fall between the listener's reads.
PairMatches == serving["cert"] = serving["key"]

\* A reload never replaces a file by an older one, and files that do not load
\* never take the configuration down.
OnlyForward == [][\A f \in Files : serving'[f] >= serving[f]]_vars

\* Once the watch is on, a change is served: if the files end up loadable, and
\* at some point differed from the last look, new connections end up with the
\* files as they are. No pass half way through a rotation loses the rest, and
\* no load that missed a file, as long as a later one does not.
ChangePickedUp ==
    /\ <>[]Loads(disk)
    /\ <>[]~missed
    /\ <>(Watching /\ seen # disk)
    => <>[](serving = disk)

\* configuration.md: "when one changed, new connections get the files as they
\* are now", of any listener that came up.
ServesFilesAsTheyAre ==
    /\ <>[]Loads(disk)
    /\ <>[]~missed
    /\ <>Watching
    => <>[](serving = disk)
=============================================================================
