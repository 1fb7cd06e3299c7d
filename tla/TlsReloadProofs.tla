---------------------------- MODULE TlsReloadProofs ----------------------------
(***************************************************************************)
(* Theorems about TlsReload, for any number of replacements of each file.  *)
(***************************************************************************)
EXTENDS TlsReload, TLAPS

\* What is on the disk is the newest there ever was, and nothing newer was
\* read or is served.
DiskInv ==
    \A f \in Files : /\ disk[f] \in {0, last[f]}
                     /\ got[f] <= last[f]
                     /\ serving[f] <= last[f]

\* What a load read so far is missing or no older than what is served.
LoadInv ==
    pc = "load" => \A i \in 1..step :
        got[Order[i]] = 0 \/ got[Order[i]] >= serving[Order[i]]

\* Nothing is served before the bind is over.
BindInv == pc = "bind" => serving = Missing

ReloadInv == TypeOK /\ DiskInv /\ LoadInv /\ BindInv /\ PairMatches

\* The order has every file, and a pass ends after the last.
LEMMA OrderFacts ==
    /\ Len(Order) = 3
    /\ \A i \in 1..3 : Order[i] \in Files
    /\ \A f \in Files : \E i \in 1..3 : Order[i] = f
BY DEF Order, Files

LEMMA ReloadInit == Init => ReloadInv
<1> SUFFICES ASSUME Init PROVE ReloadInv
  OBVIOUS
<1>1. TypeOK
  <2>1. /\ disk \in Versions /\ last \in Versions /\ step \in 0..Len(Order)
        /\ got \in Versions /\ seen \in Versions /\ serving \in Versions
    BY MaxVersionAssumption, OrderFacts DEF Init, Versions, Missing
  <2> QED
    BY <2>1 DEF Init, TypeOK
<1> QED
  BY <1>1 DEF Init, ReloadInv, DiskInv, LoadInv, BindInv, PairMatches, Missing, Files

\* A pass takes the next file from the disk, or misses it.
LEMMA TakeNextFacts ==
    ASSUME TypeOK, TakeNext \/ MissNext
    PROVE  /\ step + 1 \in 1..3 /\ step' = step + 1 /\ step' \in 0..Len(Order)
           /\ Current = Order[step + 1] /\ Current \in Files
           /\ \E v \in {0, disk[Current]} : got' = [got EXCEPT ![Current] = v]
           /\ got' \in Versions
<1>1. step \in 0..3 /\ step # 3
  BY OrderFacts DEF TypeOK, TakeNext, MissNext, Done
<1>2. Current = Order[step + 1] /\ Current \in Files
  BY <1>1, OrderFacts DEF Current
<1>3. (\E v \in {0, disk[Current]} : got' = [got EXCEPT ![Current] = v]) /\ step' = step + 1
  BY DEF TakeNext, MissNext
<1>4. PICK v \in {0, disk[Current]} : got' = [got EXCEPT ![Current] = v]
  BY <1>3
<1>5. v \in 0..MaxVersion
  BY <1>2, <1>4, MaxVersionAssumption DEF TypeOK, Versions
<1>6. got' \in Versions
  BY <1>2, <1>4, <1>5 DEF TypeOK, Versions
<1>7. step + 1 \in 1..3 /\ step' = step + 1 /\ step' \in 0..Len(Order)
  BY <1>1, <1>3, OrderFacts
<1> QED
  BY <1>2, <1>3, <1>6, <1>7

\* A step of the listener: what it does to what is served.
LEMMA Serving ==
    ASSUME ReloadInv, [Next]_vars
    PROVE  \/ serving' = serving
           \/ /\ serving' = got /\ Loads(got)
              /\ \A f \in Files : got[f] >= serving[f]
              /\ pc' # "load"
              /\ UNCHANGED <<disk, last>>
<1>1. CASE Bound
  <2>1. \A f \in Files : got[f] \in Nat /\ serving[f] = 0
    BY <1>1, MaxVersionAssumption DEF ReloadInv, BindInv, Bound, TypeOK, Versions, Missing
  <2> QED
    BY <1>1, <2>1 DEF Bound, Goto
<1>2. CASE Loaded
  <2>1. CASE ~Loads(got)
    BY <1>2, <2>1 DEF Loaded
  <2>2. CASE Loads(got)
    <3>1. pc = "load" /\ step = 3
      BY <1>2, OrderFacts DEF Loaded, Done
    <3>2. ASSUME NEW f \in Files PROVE got[f] >= serving[f]
      <4>1. PICK i \in 1..3 : Order[i] = f
        BY OrderFacts
      <4>2. got[f] # 0
        BY <2>2 DEF Loads
      <4> QED
        BY <3>1, <4>1, <4>2 DEF ReloadInv, LoadInv
    <3> QED
      BY <1>2, <2>2, <3>2 DEF Loaded, Goto
  <2> QED
    BY <2>1, <2>2
<1>3. CASE ~Bound /\ ~Loaded
  BY <1>3 DEF Next, Listener, Replace, Remove, BindRead, HooksOver, FirstLook,
              FirstSeen, Tick, Look, Looked, Load, vars
<1> QED
  BY <1>1, <1>2, <1>3

LEMMA TypeNext == TypeOK /\ [Next]_vars => TypeOK'
<1> SUFFICES ASSUME TypeOK, [Next]_vars PROVE TypeOK'
  OBVIOUS
<1> USE DEF Goto
<1>1. CASE UNCHANGED vars
  BY <1>1 DEF TypeOK, vars
<1>2. ASSUME NEW f \in Files, Replace(f) \/ Remove(f) PROVE TypeOK'
  <2>1. last[f] \in 0..MaxVersion /\ 0 \in 0..MaxVersion
    BY MaxVersionAssumption DEF TypeOK, Versions
  <2>2. CASE Replace(f)
    <3>1. last[f] + 1 \in 0..MaxVersion
      BY <2>1, <2>2, MaxVersionAssumption DEF Replace
    <3> QED
      BY <2>2, <3>1 DEF Replace, TypeOK, Versions
  <2>3. CASE Remove(f)
    BY <2>1, <2>3 DEF Remove, TypeOK, Versions
  <2> QED
    BY <1>2, <2>2, <2>3
<1>3. CASE BindRead \/ FirstLook \/ Look \/ Load
  <2>1. /\ TakeNext \/ MissNext
        /\ missed' \in BOOLEAN
        /\ UNCHANGED <<disk, last, pc, seen, serving>>
    BY <1>3 DEF BindRead, FirstLook, Look, Load, MissNext, TypeOK
  <2> QED
    BY <2>1, TakeNextFacts DEF TypeOK
<1>4. CASE Bound \/ HooksOver \/ FirstSeen
  BY <1>4, OrderFacts DEF Bound, HooksOver, FirstSeen, TypeOK
<1>5. CASE Tick \/ Loaded
  BY <1>5, OrderFacts DEF Tick, Loaded, TypeOK
<1>6. CASE Looked
  <2>1. missed' \in BOOLEAN
    BY <1>6 DEF Looked, TypeOK
  <2>2. seen' \in Versions /\ pc' \in {"idle", "load"} /\ step' = 0
    BY <1>6 DEF Looked, TypeOK
  <2> QED
    BY <1>6, <2>1, <2>2, OrderFacts DEF Looked, TypeOK
<1> QED
  BY <1>1, <1>2, <1>3, <1>4, <1>5, <1>6 DEF Next, Listener

LEMMA ReloadNext == ReloadInv /\ [Next]_vars => ReloadInv'
<1> SUFFICES ASSUME ReloadInv, [Next]_vars PROVE ReloadInv'
  OBVIOUS
<1> USE DEF Goto
<1>1. TypeOK'
  BY TypeNext DEF ReloadInv
<1>2. /\ disk \in [Files -> Nat] /\ last \in [Files -> Nat]
      /\ got \in [Files -> Nat] /\ serving \in [Files -> Nat]
      /\ step \in 0..3
  BY MaxVersionAssumption, OrderFacts DEF ReloadInv, TypeOK, Versions
<1>3. PairMatches'
  BY Serving DEF ReloadInv, PairMatches, Loads
<1>4. BindInv'
  BY DEF ReloadInv, BindInv, Next, Listener, Replace, Remove, BindRead, Bound, HooksOver,
         FirstLook, FirstSeen, Tick, Look, Looked, Load, Loaded, vars
<1>5. DiskInv'
  <2>1. ASSUME NEW f \in Files, Replace(f) \/ Remove(f) PROVE DiskInv'
    BY <1>2, <2>1 DEF ReloadInv, DiskInv, Replace, Remove
  <2>2. CASE UNCHANGED <<disk, last>> /\ (got' = got \/ TakeNext \/ MissNext)
    <3>1. \A f \in Files : serving'[f] <= last[f]
      BY <1>2, Serving DEF ReloadInv, DiskInv
    <3>2. \A f \in Files : got'[f] \in {0, got[f], disk[f]}
      BY <1>2, <2>2, TakeNextFacts DEF ReloadInv
    <3> QED
      BY <1>2, <2>2, <3>1, <3>2 DEF ReloadInv, DiskInv
  <2> QED
    BY <2>1, <2>2 DEF Next, Listener, BindRead, Bound, HooksOver, FirstLook,
                      FirstSeen, Tick, Look, Looked, Load, Loaded, vars
<1>6. LoadInv'
  <2>1. CASE Load
    <3>1. /\ step' = step + 1 /\ Current = Order[step + 1] /\ Current \in Files
          /\ \E v \in {0, disk[Current]} : got' = [got EXCEPT ![Current] = v]
          /\ pc = "load" /\ serving' = serving
      BY <2>1, TakeNextFacts DEF Load, ReloadInv
    <3>2. disk[Current] = 0 \/ disk[Current] >= serving[Current]
      BY <1>2, <3>1 DEF ReloadInv, DiskInv
    <3>3. \A i \in 1..step : got[Order[i]] = 0 \/ got[Order[i]] >= serving[Order[i]]
      BY <3>1 DEF ReloadInv, LoadInv
    <3> QED
      BY <1>2, <3>1, <3>2, <3>3, OrderFacts DEF LoadInv
  <2>2. CASE Looked
    BY <2>2 DEF Looked, LoadInv
  <2>3. CASE ~Load /\ ~Looked
    BY <2>3 DEF ReloadInv, LoadInv, Next, Listener, Replace, Remove, BindRead, Bound,
                HooksOver, FirstLook, FirstSeen, Tick, Look, Loaded, vars
  <2> QED
    BY <2>1, <2>2, <2>3
<1> QED
  BY <1>1, <1>3, <1>4, <1>5, <1>6 DEF ReloadInv

LEMMA ReloadInvHolds == Spec => []ReloadInv
BY ReloadInit, ReloadNext, PTL DEF Spec

\* Whatever is replaced or removed while it is read, the listener serves
\* nothing or a version of each file, and a pass never reads past the last.
THEOREM ReloadTypesHold == Spec => []TypeOK
<1>1. ReloadInv => TypeOK
  BY DEF ReloadInv
<1> QED
  BY <1>1, ReloadInvHolds, PTL

\* For any number of replacements: a certificate is never served with another
\* one's key.
THEOREM PairsMatch == Spec => []PairMatches
<1>1. ReloadInv => PairMatches
  BY DEF ReloadInv
<1> QED
  BY <1>1, ReloadInvHolds, PTL

\* For any number of replacements: no reload goes back to an older file or
\* takes the configuration down.
THEOREM ReloadsGoForward == Spec => OnlyForward
<1>1. ReloadInv /\ [Next]_vars => [\A f \in Files : serving'[f] >= serving[f]]_vars
  <2> SUFFICES ASSUME ReloadInv, [Next]_vars, NEW f \in Files
               PROVE  serving'[f] >= serving[f]
    OBVIOUS
  <2>1. serving[f] \in Nat
    BY MaxVersionAssumption DEF ReloadInv, TypeOK, Versions
  <2> QED
    BY <2>1, Serving
<1> QED
  BY <1>1, ReloadInvHolds, PTL DEF Spec, OnlyForward
=============================================================================
