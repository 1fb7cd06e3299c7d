--------------------------- MODULE ClientPoolsProofs ---------------------------
(***************************************************************************)
(* Theorems about ClientPools, for any callers, settings, files that do    *)
(* not load and number of replacements.                                    *)
(***************************************************************************)
EXTENDS ClientPools, TLAPS

\* A caller that resolved the name: it asks for an entry's pool.
Asking == {"lookup", "locked", "built"} \cup Holding

\* Who asks for a pool asks for an entry there is, and a script for the one
\* that was set, which nothing sets again.
NameInv ==
    \A c \in Callers : pc[c] \in Asking =>
        /\ wants[c] \in Settings
        /\ c \in Scripts => wants[c] = named

\* Who looks up or builds holds the registry's lock, and builds only into an
\* empty registry; who has the pool has the one in the registry.
RegistryInv ==
    \A c \in Callers :
        /\ pc[c] \in {"locked", "built"} => lock = c
        /\ pc[c] = "built" => entry = NotBuilt
        /\ pc[c] \in Holding => entry = wants[c]

\* The stamps only grow: whoever rebuilds does it on stamps that are not newer
\* than the last look.
StampInv ==
    /\ seen <= disk
    /\ \A c \in Callers : look[c] <= seen
    /\ OneRebuildPerChange

PoolInv == TypeOK /\ NameInv /\ RegistryInv /\ StampInv

LEMMA PoolInit == Init => PoolInv
<1> SUFFICES ASSUME Init PROVE PoolInv
  OBVIOUS
<1>1. 0 \in Versions /\ disk \in 1..MaxVersion /\ 0 <= disk
  BY MaxVersionAssumption DEF Init, Versions
<1>2. TypeOK
  <2>1. tasks \in 0..MaxTasks
    BY MaxTasksAssumption DEF Init
  <2>2. pc \in [Callers -> Places]
    BY DEF Init, Places
  <2> QED
    BY <1>1, <2>1, <2>2 DEF Init, TypeOK
<1>3. NameInv /\ RegistryInv
  BY DEF Init, NameInv, RegistryInv, Asking, Holding
<1>4. StampInv
  BY <1>1 DEF Init, StampInv, OneRebuildPerChange, Rebuilding
<1> QED
  BY <1>2, <1>3, <1>4 DEF PoolInv

LEMMA TypeNext == TypeOK /\ NameInv /\ [Next]_vars => TypeOK'
<1> SUFFICES ASSUME TypeOK, NameInv, [Next]_vars PROVE TypeOK'
  OBVIOUS
<1> USE MaxVersionAssumption DEF Versions, Places, Holding, Goto, config
<1>1. CASE UNCHANGED vars
  BY <1>1 DEF TypeOK, vars
<1>2. CASE Replace \/ PeriodPasses
  <2>1. disk' \in 1..MaxVersion /\ due' \in BOOLEAN
    <3>1. disk \in 1..MaxVersion /\ due \in BOOLEAN
      BY DEF TypeOK
    <3>2. CASE Replace
      BY <3>1, <3>2, MaxVersionAssumption DEF Replace
    <3>3. CASE PeriodPasses
      BY <3>1, <3>3, Zenon DEF PeriodPasses
    <3> QED
      BY <1>2, <3>2, <3>3
  <2> QED
    BY <1>2, <2>1 DEF Replace, PeriodPasses, TypeOK
<1>3. ASSUME NEW s \in Settings \cup {NoEntry}, SetNamedClients(s)
      PROVE  TypeOK'
  <2>1. tasks' \in 0..MaxTasks
    BY <1>3, MaxTasksAssumption DEF SetNamedClients, TypeOK
  <2> QED
    BY <1>3, <2>1 DEF SetNamedClients, TypeOK
<1>4. ASSUME NEW c \in Callers, Resolve(c) \/ NotConfigured(c)
      PROVE  TypeOK'
  BY <1>4 DEF Resolve, NotConfigured, TypeOK
<1>5. ASSUME NEW c \in Callers, Lock(c) \/ Found(c) \/ Build(c) \/ BuildFails(c) \/ ComeAgain(c)
      PROVE  TypeOK'
  <2>1. CASE Lock(c)
    BY <2>1 DEF Lock, TypeOK
  <2>2. CASE Found(c)
    BY <2>2 DEF Found, TypeOK
  <2>3. CASE Build(c)
    BY <2>3 DEF Build, TypeOK
  <2>4. CASE BuildFails(c) \/ ComeAgain(c)
    BY <2>4 DEF BuildFails, ComeAgain, TypeOK
  <2> QED
    BY <1>5, <2>1, <2>2, <2>3, <2>4
<1>6. ASSUME NEW c \in Callers, Insert(c) \/ Look(c) \/ Rebuild(c) \/ RebuildMisses(c) \/ Store(c) \/ Read(c)
      PROVE  TypeOK'
  <2>1. CASE Insert(c)
    <3>1. wants[c] \in Settings /\ got[c] \in Versions /\ disk \in Versions
      BY <2>1 DEF Insert, At, NameInv, Asking, TypeOK
    <3>2. entry' \in Settings \cup {NotBuilt} /\ lock' \in Callers \cup {NoOne}
      BY <2>1, <3>1 DEF Insert
    <3>3. pc' \in [Callers -> Places]
      BY <2>1 DEF Insert, TypeOK
    <3> QED
      BY <2>1, <3>1, <3>2, <3>3 DEF Insert, TypeOK
  <2>2. CASE Look(c)
    <3>1. /\ UNCHANGED <<config, disk, lock, entry, current, got>>
          /\ due' = FALSE \/ due' = due
          /\ seen' \in {disk, seen}
          /\ look' = look \/ look' = [look EXCEPT ![c] = disk]
          /\ \E place \in {"rebuild", "read"} : pc' = [pc EXCEPT ![c] = place]
      BY <2>2 DEF Look
    <3>2. due' \in BOOLEAN
      BY <3>1, Zenon DEF TypeOK
    <3>3. disk \in Versions
      BY DEF TypeOK
    <3> QED
      BY <3>1, <3>2, <3>3 DEF TypeOK
  <2>3. CASE Rebuild(c) \/ RebuildMisses(c)
    BY <2>3 DEF Rebuild, RebuildMisses, TypeOK
  <2>4. CASE Store(c) \/ Read(c)
    BY <2>4 DEF Store, Read, TypeOK
  <2> QED
    BY <1>6, <2>1, <2>2, <2>3, <2>4
<1> QED
  BY <1>1, <1>2, <1>5, <1>6, <1>3, <1>4 DEF Next, Caller

\* The name's part of the state changes where the name is set or resolved.
LEMMA NameNext == TypeOK /\ NameInv /\ [Next]_vars => NameInv'
<1> SUFFICES ASSUME TypeOK, NameInv, [Next]_vars PROVE NameInv'
  OBVIOUS
<1> USE DEF At, Goto, Asking, Holding, config
<1>1. CASE UNCHANGED vars \/ Replace \/ PeriodPasses
  BY <1>1 DEF Replace, PeriodPasses, NameInv, vars
<1>2. ASSUME NEW s \in Settings \cup {NoEntry}, SetNamedClients(s)
      PROVE  NameInv'
  <2>1. \A c \in Scripts : pc[c] \in Asking => named \in Settings
    BY ScriptsAssumption DEF NameInv
  <2>2. \A c \in Scripts : pc[c] \in Asking => named' = named
    BY <1>2, <2>1, SettingsAssumption DEF SetNamedClients
  <2> QED
    BY <1>2, <2>2 DEF SetNamedClients, NameInv
<1>3. ASSUME NEW c \in Callers, Resolve(c)
      PROVE  NameInv'
  <2>1. /\ wants'[c] \in Settings
        /\ c \in Scripts => wants'[c] = named'
        /\ \A d \in Callers \ {c} : wants'[d] = wants[d] /\ pc'[d] = pc[d]
        /\ named' = named
    BY <1>3 DEF Resolve, EntryOf, TypeOK
  <2> QED
    BY <2>1 DEF NameInv
<1>4. ASSUME NEW c \in Callers,
             \/ NotConfigured(c) \/ ComeAgain(c)
             \/ Lock(c) \/ Found(c) \/ Build(c) \/ BuildFails(c) \/ Insert(c)
             \/ Look(c) \/ Rebuild(c) \/ RebuildMisses(c) \/ Store(c) \/ Read(c)
      PROVE  NameInv'
  <2>1. /\ UNCHANGED <<named, wants>>
        /\ pc'[c] \in Asking => pc[c] \in Asking
        /\ \A d \in Callers \ {c} : pc'[d] = pc[d]
    <3>1. CASE NotConfigured(c) \/ ComeAgain(c) \/ Lock(c) \/ Found(c)
      BY <3>1 DEF NotConfigured, ComeAgain, Lock, Found, TypeOK
    <3>2. CASE Build(c) \/ BuildFails(c) \/ Insert(c)
      BY <3>2 DEF Build, BuildFails, Insert, TypeOK
    <3>3. CASE Look(c) \/ Rebuild(c) \/ RebuildMisses(c) \/ Store(c) \/ Read(c)
      BY <3>3 DEF Look, Rebuild, RebuildMisses, Store, Read, TypeOK
    <3> QED
      BY <1>4, <3>1, <3>2, <3>3
  <2> QED
    BY <2>1 DEF NameInv
<1> QED
  BY <1>1, <1>2, <1>3, <1>4 DEF Next, Caller

LEMMA RegistryNext == TypeOK /\ NameInv /\ RegistryInv /\ [Next]_vars => RegistryInv'
<1> SUFFICES ASSUME TypeOK, NameInv, RegistryInv, [Next]_vars PROVE RegistryInv'
  OBVIOUS
<1> USE DEF Holding, At, Goto, config
<1>1. CASE UNCHANGED vars \/ Replace \/ PeriodPasses
           \/ \E s \in Settings \cup {NoEntry} : SetNamedClients(s)
  BY <1>1 DEF Replace, PeriodPasses, SetNamedClients, RegistryInv, vars
<1>2. ASSUME NEW c \in Callers, Lock(c)
      PROVE  RegistryInv'
  <2>1. \A d \in Callers : pc[d] \notin {"locked", "built"}
    BY <1>2, CallersAssumption DEF Lock, RegistryInv
  <2> QED
    BY <1>2, <2>1 DEF Lock, RegistryInv, TypeOK
<1>3. ASSUME NEW c \in Callers, Found(c) \/ BuildFails(c)
      PROVE  RegistryInv'
  <2>1. \A d \in Callers : pc[d] \in {"locked", "built"} => d = c
    BY <1>3 DEF Found, BuildFails, RegistryInv
  <2> QED
    BY <1>3, <2>1 DEF Found, BuildFails, RegistryInv, TypeOK
<1>4. ASSUME NEW c \in Callers, Resolve(c) \/ NotConfigured(c) \/ Build(c) \/ ComeAgain(c)
      PROVE  RegistryInv'
  <2>1. CASE Resolve(c) \/ NotConfigured(c)
    BY <2>1 DEF Resolve, NotConfigured, RegistryInv, TypeOK
  <2>2. CASE Build(c) \/ ComeAgain(c)
    BY <2>2 DEF Build, ComeAgain, RegistryInv, TypeOK
  <2> QED
    BY <1>4, <2>1, <2>2
<1>5. ASSUME NEW c \in Callers, Insert(c)
      PROVE  RegistryInv'
  <2>1. \A d \in Callers : pc[d] \in {"locked", "built"} => d = c
    BY <1>5 DEF Insert, RegistryInv
  <2>2. \A d \in Callers : pc[d] \notin Holding
    BY <1>5, SettingsAssumption DEF Insert, RegistryInv, NameInv, Asking
  <2> QED
    BY <1>5, <2>1, <2>2 DEF Insert, RegistryInv, TypeOK
<1>6. ASSUME NEW c \in Callers, Look(c) \/ Rebuild(c) \/ RebuildMisses(c) \/ Store(c) \/ Read(c)
      PROVE  RegistryInv'
  <2>1. /\ pc[c] \in Holding
        /\ \E place \in Holding : pc' = [pc EXCEPT ![c] = place]
        /\ UNCHANGED <<wants, lock, entry>>
    BY <1>6 DEF Look, Rebuild, RebuildMisses, Store, Read
  <2> QED
    BY <2>1 DEF RegistryInv, TypeOK
<1> QED
  BY <1>1, <1>2, <1>3, <1>4, <1>5, <1>6 DEF Next, Caller

LEMMA StampNext == TypeOK /\ StampInv /\ [Next]_vars => StampInv'
<1> SUFFICES ASSUME TypeOK, StampInv, [Next]_vars PROVE StampInv'
  OBVIOUS
<1> USE DEF At, Goto, Rebuilding, config
<1>1. disk \in Nat /\ seen \in Nat /\ \A c \in Callers : look[c] \in Nat
  BY MaxVersionAssumption DEF TypeOK, Versions
<1>2. CASE UNCHANGED vars \/ Replace \/ PeriodPasses
           \/ \E s \in Settings \cup {NoEntry} : SetNamedClients(s)
  BY <1>1, <1>2 DEF Replace, PeriodPasses, SetNamedClients, StampInv, OneRebuildPerChange, vars
<1>3. ASSUME NEW c \in Callers,
             \/ Resolve(c) \/ NotConfigured(c)
             \/ Lock(c) \/ Found(c) \/ Build(c) \/ BuildFails(c) \/ ComeAgain(c)
             \/ Insert(c) \/ Store(c) \/ Read(c) \/ Rebuild(c) \/ RebuildMisses(c)
      PROVE  StampInv'
  <2>1. /\ disk' = disk /\ look' = look /\ seen' \in {seen, disk}
        /\ pc[c] \in Rebuilding \/ pc'[c] \notin Rebuilding
        /\ \A d \in Callers \ {c} : pc'[d] = pc[d]
    <3>1. CASE Resolve(c) \/ NotConfigured(c)
      BY <3>1 DEF Resolve, NotConfigured, TypeOK
    <3>2. CASE Lock(c) \/ Found(c) \/ Build(c) \/ BuildFails(c) \/ ComeAgain(c)
      BY <3>2 DEF Lock, Found, Build, BuildFails, ComeAgain, TypeOK
    <3>3. CASE Insert(c) \/ Store(c) \/ Read(c) \/ Rebuild(c) \/ RebuildMisses(c)
      BY <3>3 DEF Insert, Store, Read, Rebuild, RebuildMisses, TypeOK
    <3> QED
      BY <1>3, <3>1, <3>2, <3>3
  <2>2. \A d \in Callers : pc'[d] \in Rebuilding => pc[d] \in Rebuilding
    BY <2>1
  <2> QED
    BY <1>1, <2>1, <2>2 DEF StampInv, OneRebuildPerChange
<1>4. ASSUME NEW c \in Callers, Look(c)
      PROVE  StampInv'
  <2>1. CASE ~due \/ disk = seen
    BY <1>4, <2>1 DEF Look, StampInv, OneRebuildPerChange, TypeOK
  <2>2. CASE due /\ disk # seen
    <3>1. /\ disk' = disk /\ seen' = disk
          /\ look'[c] = disk /\ \A d \in Callers \ {c} : look'[d] = look[d] /\ pc'[d] = pc[d]
          /\ pc'[c] \in Rebuilding => disk # seen
      BY <1>4, <2>2 DEF Look, TypeOK
    <3>2. \A d \in Callers : look'[d] <= seen'
      BY <1>1, <3>1 DEF StampInv
    <3>3. pc'[c] \in Rebuilding => \A d \in Callers \ {c} : look'[d] < look'[c]
      BY <1>1, <3>1 DEF StampInv
    <3>4. OneRebuildPerChange'
      BY <1>1, <3>1, <3>3 DEF StampInv, OneRebuildPerChange
    <3> QED
      BY <1>1, <3>1, <3>2, <3>4 DEF StampInv
  <2> QED
    BY <2>1, <2>2
<1> QED
  BY <1>2, <1>3, <1>4 DEF Next, Caller

LEMMA PoolInvHolds == Spec => []PoolInv
<1>1. PoolInv /\ [Next]_vars => PoolInv'
  BY TypeNext, NameNext, RegistryNext, StampNext DEF PoolInv
<1> QED
  BY <1>1, PoolInit, PTL DEF Spec

\* For any callers, settings and number of tasks: every variable keeps its
\* type, the pool's entry because whoever builds asks for one there is.
THEOREM PoolTypesHold == Spec => []TypeOK
<1>1. PoolInv => TypeOK
  BY DEF PoolInv
<1> QED
  BY <1>1, PoolInvHolds, PTL

\* For any callers, settings and number of tasks: whoever has the pool
\* configured it so, a script by the first task.
THEOREM PoolsAreConfigured == Spec => []PoolIsTheOneConfigured
<1>1. PoolInv => PoolIsTheOneConfigured
  BY DEF PoolInv, NameInv, Asking, RegistryInv, PoolIsTheOneConfigured
<1> QED
  BY <1>1, PoolInvHolds, PTL

\* For any callers: nobody builds a pool that exists or that another builds.
THEOREM PoolsAreBuiltOnce == Spec => []BuiltOnce
<1>1. PoolInv => BuiltOnce
  BY DEF PoolInv, RegistryInv, BuiltOnce, At
<1> QED
  BY <1>1, PoolInvHolds, PTL

\* For any callers and number of replacements: one rebuild per change.
THEOREM RebuildsAreSingle == Spec => []OneRebuildPerChange
<1>1. PoolInv => OneRebuildPerChange
  BY DEF PoolInv, StampInv
<1> QED
  BY <1>1, PoolInvHolds, PTL
=============================================================================
