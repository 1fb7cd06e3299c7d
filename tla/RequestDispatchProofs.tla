------------------------ MODULE RequestDispatchProofs ------------------------
(***************************************************************************)
(* Theorems about RequestDispatch, for any finite set of requests, any     *)
(* number of middlewares and any limits, with or without a pool.           *)
(***************************************************************************)
EXTENDS RequestDispatch, FiniteSetTheorems, SequenceTheorems, TLAPS

\* Whom the guard's counter counts.
Counted == {r \in Requests : Inside(r) \/ task[r] = "refusing"}

\* What each step does to the guard's counter and to the place of the one
\* request it is about.
Stays(r, t)  == Inside(r) /\ t \in {"admitted", "reading", "job", "reply"} /\ busy' = busy
Enters(r, t) == /\ task[r] = "new" /\ t \in {"admitted", "refusing"}
                /\ t = "admitted" => busy < AdmitMax
                /\ busy' = busy + 1
Leaves(r, t) == /\ Inside(r) \/ task[r] = "refusing"
                /\ t \in {"answered", "gone"}
                /\ busy' = busy - 1

\* Every step leaves task and busy alone, or moves one request and counts it
\* accordingly.
LEMMA CountStep ==
    ASSUME Next
    PROVE  \/ UNCHANGED <<task, busy>>
           \/ \E r \in Requests, t \in {"new", "refusing", "admitted", "reading",
                                        "job", "reply", "answered", "gone"} :
                 /\ task' = [task EXCEPT ![r] = t]
                 /\ Stays(r, t) \/ Enters(r, t) \/ Leaves(r, t)
<1>1. CASE Quiet
  BY <1>1 DEF Quiet, vars, axumVars
<1>2. ASSUME NEW r \in Requests, Axum(r)
      PROVE  \E t \in {"new", "refusing", "admitted", "reading",
                       "job", "reply", "answered", "gone"} :
                /\ task' = [task EXCEPT ![r] = t]
                /\ Stays(r, t) \/ Enters(r, t) \/ Leaves(r, t)
  <2>1. CASE Admit(r)
    BY <2>1 DEF Admit, Enters
  <2>2. CASE Overflow(r)
    BY <2>2 DEF Overflow, Enters
  <2>3. CASE Refuse(r)
    BY <2>3 DEF Refuse, Leaves
  <2>4. CASE RejectLength(r) \/ RefuseRoute(r) \/ BodyFails(r) \/ QueueFull(r)
             \/ TakeReply(r) \/ RequestTimeout(r)
    BY <2>4 DEF RejectLength, RefuseRoute, BodyFails, QueueFull, TakeReply,
                RequestTimeout, Finish, Leaves, Inside
  <2>5. CASE RouteFound(r) \/ Submit(r)
    BY <2>5 DEF RouteFound, Submit, Stays, Inside
  <2>6. CASE TakeOutcome(r)
    BY <2>6 DEF TakeOutcome, Finish, Leaves, Stays, Inside
  <2>7. CASE Disconnect(r)
    BY <2>7 DEF Disconnect, Leaves, Inside
  <2> QED
    BY <1>2, <2>1, <2>2, <2>3, <2>4, <2>5, <2>6, <2>7 DEF Axum
<1>3. ASSUME NEW r \in Requests, Job(r) \/ Drive(r)
      PROVE  UNCHANGED <<task, busy>>
  BY <1>3 DEF Job, StartJob, StartFails, RunStage, JobPanics, HandOff,
              HandOffFails, TakeOver, Drive, DriveCall, DriveReturn, DeadlineRaises,
              DeadlineSwallowed, Settle, axumVars
<1> QED
  BY <1>1, <1>2, <1>3 DEF Next

-----------------------------------------------------------------------------
\* The counter, exactly: AdmissionAccounting in a form that is inductive.
Places == {"new", "refusing", "admitted", "reading", "job", "reply", "answered", "gone"}
InsidePlaces == {"admitted", "reading", "job", "reply"}
InsideSet == {r \in Requests : Inside(r)}
RefusingSet == {r \in Requests : task[r] = "refusing"}

CountInv ==
    /\ task \in [Requests -> Places]
    /\ busy \in Nat
    /\ busy = Cardinality(Counted)
    /\ Cardinality(InsideSet) <= AdmitMax

\* The sets the counter counts are finite.
LEMMA CountedFinite ==
    /\ IsFiniteSet(Counted) /\ IsFiniteSet(InsideSet) /\ IsFiniteSet(RefusingSet)
    /\ IsFiniteSet(Counted') /\ IsFiniteSet(InsideSet') /\ IsFiniteSet(RefusingSet')
BY RequestsAssumption, FS_Subset DEF Counted, InsideSet, RefusingSet

LEMMA CountInvInit == Init => CountInv
<1> SUFFICES ASSUME Init PROVE CountInv
  OBVIOUS
<1>1. Counted = {} /\ InsideSet = {}
  BY DEF Init, Counted, InsideSet, Inside
<1> QED
  BY <1>1, FS_EmptySet, AdmitMaxAssumption DEF CountInv, Init, Places

LEMMA CountInvNext == CountInv /\ [Next]_vars => CountInv'
<1> SUFFICES ASSUME CountInv, [Next]_vars PROVE CountInv'
  OBVIOUS
<1> USE DEF Places
<1>1. CASE UNCHANGED <<task, busy>>
  BY <1>1 DEF CountInv, Counted, InsideSet, Inside
<1>2. ASSUME NEW r \in Requests, NEW t \in Places,
             task' = [task EXCEPT ![r] = t],
             Stays(r, t) \/ Enters(r, t) \/ Leaves(r, t)
      PROVE  CountInv'
  <2>1. task' \in [Requests -> Places] /\ task'[r] = t
        /\ \A q \in Requests \ {r} : task'[q] = task[q]
    BY <1>2 DEF CountInv
  <2>2. CASE Stays(r, t)
    <3>1. Counted' = Counted /\ InsideSet' = InsideSet
      BY <2>1, <2>2 DEF Stays, Counted, InsideSet, Inside
    <3> QED
      BY <2>1, <2>2, <3>1 DEF CountInv, Stays
  <2>3. CASE Enters(r, t)
    <3>1. r \notin Counted /\ Counted' = Counted \cup {r}
      BY <2>1, <2>3 DEF Enters, Counted, Inside
    <3>2. busy' \in Nat /\ busy' = Cardinality(Counted')
      BY <2>3, <3>1, CountedFinite, FS_AddElement DEF CountInv, Enters
    <3>3. CASE t = "refusing"
      <4>1. InsideSet' = InsideSet
        BY <2>1, <2>3, <3>3 DEF Enters, InsideSet, Inside
      <4> QED
        BY <2>1, <3>2, <4>1 DEF CountInv
    <3>4. CASE t = "admitted"
      <4>1. InsideSet' \subseteq Counted'
        BY DEF InsideSet, Counted
      <4>2. Cardinality(InsideSet') <= busy'
        BY <4>1, <3>2, CountedFinite, FS_Subset
      <4>3. busy' <= AdmitMax
        BY <2>3, <3>4, AdmitMaxAssumption DEF Enters, CountInv
      <4>4. Cardinality(InsideSet') \in Nat
        BY CountedFinite, FS_CardinalityType
      <4> QED
        BY <2>1, <3>2, <4>2, <4>3, <4>4, AdmitMaxAssumption DEF CountInv
    <3> QED
      BY <2>3, <3>3, <3>4 DEF Enters
  <2>4. CASE Leaves(r, t)
    <3>1. r \in Counted /\ Counted' = Counted \ {r}
      BY <2>1, <2>4 DEF Leaves, Counted, Inside
    <3>2. busy' \in Nat /\ busy' = Cardinality(Counted')
      BY <2>4, <3>1, CountedFinite, FS_RemoveElement, FS_CardinalityType DEF CountInv, Leaves
    <3>3. InsideSet' \subseteq InsideSet
      BY <2>1, <2>4 DEF Leaves, InsideSet, Inside
    <3>4. Cardinality(InsideSet') <= AdmitMax
      BY <3>3, CountedFinite, FS_Subset, FS_CardinalityType, AdmitMaxAssumption DEF CountInv
    <3> QED
      BY <2>1, <3>2, <3>4 DEF CountInv
  <2> QED
    BY <1>2, <2>2, <2>3, <2>4
<1> QED
  BY <1>1, <1>2, CountStep DEF vars, axumVars

LEMMA CountInvAccounts == CountInv => AdmissionAccounting
<1> SUFFICES ASSUME CountInv PROVE AdmissionAccounting
  OBVIOUS
<1>1. Counted = InsideSet \cup RefusingSet /\ InsideSet \cap RefusingSet = {}
  BY DEF Counted, InsideSet, RefusingSet, Inside
<1>2. Cardinality(Counted) = Cardinality(InsideSet) + Cardinality(RefusingSet)
  <2>1. Cardinality(InsideSet \cup RefusingSet)
           = Cardinality(InsideSet) + Cardinality(RefusingSet)
                - Cardinality(InsideSet \cap RefusingSet)
    BY CountedFinite, FS_Union
  <2>2. Cardinality(InsideSet \cap RefusingSet) = 0
    BY <1>1, FS_EmptySet
  <2>3. Cardinality(InsideSet) \in Nat /\ Cardinality(RefusingSet) \in Nat
    BY CountedFinite, FS_CardinalityType
  <2> QED
    BY <1>1, <2>1, <2>2, <2>3
<1> QED
  BY <1>2 DEF AdmissionAccounting, CountInv, InsideSet, RefusingSet

\* The guard's counter counts exactly the requests in progress and those being
\* refused, and never more than the limit are in progress: no way out of a
\* request, answer, timeout or disconnect, leaks a count or gives one back
\* twice.
THEOREM AdmissionIsAccounted == Spec => []AdmissionAccounting
<1>1. Spec => []CountInv
  BY CountInvInit, CountInvNext, PTL DEF Spec
<1> QED
  BY <1>1, CountInvAccounts, PTL

-----------------------------------------------------------------------------
\* Answers of the helpers stay in Answers.
LEMMA SaidType == ASSUME NEW w \in Statuses, NEW i \in 0..Handler
                  PROVE  Said(w, i) \in Answers
BY DEF Said, Answers

LEMMA ReplyType == ASSUME NEW i \in Stages, NEW v PROVE Reply(i, v) \in Answers
BY MiddlewaresAssumption DEF Reply, Said, Answers, Statuses, Stages, Handler

\* What a step that judges a stage leaves of the types.
LEMMA JudgedType ==
    ASSUME TypeOK, NEW r \in Requests, NEW v \in Verdicts, Judged(r, v)
    PROVE  /\ verdict' \in [Requests -> [Stages -> Verdicts]]
           /\ at' \in [Requests -> Stages]
<1>1. at[r] \in Stages /\ verdict[r] \in [Stages -> Verdicts]
  BY DEF TypeOK
<1>2. Continues(at[r], v) => at[r] + 1 \in Stages
  BY <1>1, MiddlewaresAssumption DEF Continues, Stages, Handler
<1> QED
  BY <1>1, <1>2 DEF TypeOK, Judged

LEMMA CalledType ==
    ASSUME TypeOK, NEW r \in Requests, Called(r)
    PROVE  calls' \in [Requests -> [Stages -> Nat]]
<1>1. at[r] \in Stages /\ calls[r] \in [Stages -> Nat]
  BY DEF TypeOK
<1> QED
  BY <1>1 DEF TypeOK, Called

LEMMA TypeInit == Init => TypeOK
BY MiddlewaresAssumption
   DEF Init, TypeOK, Nothing, Said, Answers, Statuses, Verdicts, Bodies, Stages, Handler

\* The types but the counter's, which needs the accounting.
LEMMA TypeNext == TypeOK /\ busy' \in Nat /\ [Next]_vars => TypeOK'
<1> SUFFICES ASSUME TypeOK, busy' \in Nat, [Next]_vars PROVE TypeOK'
  OBVIOUS
<1> USE DEF vars, setup, axumVars, jobVars, coVars, runVars
<1>1. CASE UNCHANGED vars
  BY <1>1 DEF TypeOK
<1>2. ASSUME NEW r \in Requests, Axum(r) PROVE TypeOK'
  <2>1. \A w \in {"too_large", "not_found", "not_allowed", "bad_body", "internal",
                   "timeout", "no_response", "refused"} : Said(w, 0) \in Answers
    BY SaidType, MiddlewaresAssumption DEF Statuses, Handler
  <2>2. ASSUME NEW what \in Answers, Finish(r, what) PROVE TypeOK'
    BY <2>2 DEF Finish, TypeOK
  <2>3. CASE Admit(r) \/ Overflow(r) \/ Refuse(r)
    <3>1. CASE Admit(r)
      BY <3>1 DEF Admit, TypeOK
    <3>2. CASE Overflow(r)
      BY <3>2 DEF Overflow, TypeOK
    <3>3. CASE Refuse(r)
      BY <2>1, <3>3 DEF Refuse, TypeOK
    <3> QED
      BY <2>3, <3>1, <3>2, <3>3
  <2>4. CASE RejectLength(r) \/ RefuseRoute(r) \/ BodyFails(r) \/ QueueFull(r)
             \/ RequestTimeout(r)
    BY <2>1, <2>2, <2>4 DEF RejectLength, RefuseRoute, BodyFails, QueueFull, RequestTimeout
  <2>5. CASE RouteFound(r) \/ Submit(r) \/ Disconnect(r)
    <3>1. CASE RouteFound(r)
      BY <3>1 DEF RouteFound, TypeOK
    <3>2. CASE Submit(r)
      <4>1. queue' \in Seq(Requests)
        BY <3>2, AppendProperties DEF Submit, TypeOK
      <4> QED
        BY <3>2, <4>1 DEF Submit, TypeOK
    <3>3. CASE Disconnect(r)
      BY <3>3 DEF Disconnect, TypeOK
    <3> QED
      BY <2>5, <3>1, <3>2, <3>3
  <2>6. CASE TakeOutcome(r)
    <3>1. outcome[r] \in Answers
      BY DEF TypeOK
    <3> QED
      BY <2>1, <2>2, <2>6, <3>1 DEF TakeOutcome, TypeOK
  <2>7. CASE TakeReply(r)
    <3>1. sink[r] \in Answers
      BY DEF TypeOK
    <3> QED
      BY <2>1, <2>2, <2>7, <3>1 DEF TakeReply
  <2> QED
    BY <1>2, <2>3, <2>4, <2>5, <2>6, <2>7 DEF Axum
<1>3. \A w \in {"internal", "panicked", "pending", "open", "dropped"} : Said(w, 0) \in Answers
  BY SaidType, MiddlewaresAssumption DEF Statuses, Handler
<1>4. ASSUME NEW r \in Requests, Job(r) PROVE TypeOK'
  <2>1. at[r] \in Stages
    BY DEF TypeOK
  <2>2. CASE StartJob(r) \/ StartFails(r)
    <3>1. queue' \in Seq(Requests)
      <4>1. queue \in Seq(Requests) /\ queue # <<>> /\ queue' = Tail(queue)
        BY <2>2 DEF StartJob, StartFails, Dequeue, TypeOK
      <4> QED
        BY <4>1, HeadTailProperties
    <3>2. CASE StartJob(r)
      BY <3>1, <3>2 DEF StartJob, TypeOK
    <3>3. CASE StartFails(r)
      BY <1>3, <3>1, <3>3 DEF StartFails, JobReturns, TypeOK
    <3> QED
      BY <2>2, <3>2, <3>3
  <2>3. CASE RunStage(r)
    <3>1. PICK v \in {"none", "response", "other", "raised"} :
             /\ Judged(r, v)
             /\ IF Continues(at[r], v)
                THEN UNCHANGED <<job, outcome>>
                ELSE JobReturns(r, Reply(at[r], v))
      BY <2>3 DEF RunStage
    <3>2. v \in Verdicts
      BY DEF Verdicts
    <3>3. /\ verdict' \in [Requests -> [Stages -> Verdicts]]
          /\ at' \in [Requests -> Stages]
      BY <3>1, <3>2, JudgedType
    <3>4. calls' \in [Requests -> [Stages -> Nat]]
      BY <2>3, CalledType DEF RunStage
    <3>5. Reply(at[r], v) \in Answers
      BY <2>1, ReplyType
    <3>6. /\ job' \in [Requests -> {"none", "queued", "running", "done"}]
          /\ outcome' \in [Requests -> Answers]
      BY <3>1, <3>5 DEF JobReturns, TypeOK
    <3> QED
      BY <2>3, <3>3, <3>4, <3>6 DEF RunStage, TypeOK
  <2>4. CASE JobPanics(r)
    <3>1. "panicked" \in Verdicts
      BY DEF Verdicts
    <3> QED
      BY <1>3, <2>4, <3>1, JudgedType, CalledType DEF JobPanics, JobReturns, TypeOK
  <2>5. CASE HandOff(r) \/ HandOffFails(r)
    <3>1. Called(r)
      BY <2>5 DEF HandOff, HandOffFails, TakeOver
    <3>2. calls' \in [Requests -> [Stages -> Nat]]
      BY <3>1, CalledType
    <3>3. CASE HandOff(r)
      <4>1. /\ co' \in [Requests -> {"none", "call", "await", "ended"}]
            /\ deadline' \in [Requests -> {"off", "set", "fired"}]
            /\ sink' \in [Requests -> Answers]
        BY <1>3, <3>3 DEF HandOff, TakeOver, PoolTimeout, TypeOK
      <4>2. /\ job' \in [Requests -> {"none", "queued", "running", "done"}]
            /\ outcome' \in [Requests -> Answers]
        <5>1. JobReturns(r, Said("pending", 0)) \/ UNCHANGED <<job, outcome>>
          BY <3>3, Zenon DEF HandOff, TakeOver
        <5> QED
          BY <1>3, <5>1 DEF JobReturns, TypeOK
      <4> QED
        BY <3>2, <3>3, <4>1, <4>2 DEF HandOff, TakeOver, TypeOK
    <3>4. CASE HandOffFails(r)
      BY <1>3, <3>2, <3>4 DEF HandOffFails, JobReturns, TypeOK
    <3> QED
      BY <2>5, <3>3, <3>4
  <2> QED
    BY <1>4, <2>2, <2>3, <2>4, <2>5 DEF Job
<1>5. ASSUME NEW r \in Requests, NEW v \in DriveVerdicts, Settle(r, v)
      PROVE  /\ UNCHANGED <<setup, axumVars, queue>>
             /\ job' \in [Requests -> {"none", "queued", "running", "done"}]
             /\ at' \in [Requests -> Stages]
             /\ outcome' \in [Requests -> Answers]
             /\ verdict' \in [Requests -> [Stages -> Verdicts]]
             /\ co' \in [Requests -> {"none", "call", "await", "ended"}]
             /\ sink' \in [Requests -> Answers]
  <2>1. v \in Verdicts /\ at[r] \in Stages
    BY DEF DriveVerdicts, Verdicts, TypeOK
  <2>2. Reply(at[r], v) \in Answers
    BY <2>1, ReplyType
  <2>3. CASE Continues(at[r], v)
    BY <1>5, <2>1, <2>3, JudgedType DEF Settle, TypeOK
  <2>4. CASE ~Continues(at[r], v)
    <3>1. DriveEnds(r, v)
      BY <1>5, <2>4 DEF Settle
    <3>2. sink' \in [Requests -> Answers]
      BY <1>3, <2>2, <3>1 DEF DriveEnds, Deliver, TypeOK
    <3>3. job' \in [Requests -> {"none", "queued", "running", "done"}]
          /\ outcome' \in [Requests -> Answers]
      BY <1>3, <3>1 DEF DriveEnds, JobReturns, TypeOK
    <3> QED
      BY <1>5, <2>1, <3>1, <3>2, <3>3, JudgedType DEF Settle, DriveEnds, TypeOK
  <2> QED
    BY <2>3, <2>4
<1>6. ASSUME NEW r \in Requests, Drive(r) PROVE TypeOK'
  <2>1. CASE DriveCall(r)
    <3>1. calls' \in [Requests -> [Stages -> Nat]] /\ deadline' = deadline
      BY <2>1, CalledType DEF DriveCall
    <3>2. CASE \E v \in DriveVerdicts : Settle(r, v)
      BY <1>5, <3>1, <3>2 DEF TypeOK
    <3>3. CASE co' = [co EXCEPT ![r] = "await"]
               /\ UNCHANGED <<setup, axumVars, jobVars, sink, at, verdict>>
      BY <3>1, <3>3 DEF TypeOK
    <3> QED
      BY <2>1, <3>2, <3>3 DEF DriveCall
  <2>2. CASE DriveReturn(r)
    BY <1>5, <2>2 DEF DriveReturn, TypeOK
  <2>3. CASE DeadlineRaises(r)
    <3>1. "raised" \in DriveVerdicts
      BY DEF DriveVerdicts
    <3> QED
      BY <1>5, <2>3, <3>1 DEF DeadlineRaises, TypeOK
  <2>4. CASE DeadlineSwallowed(r)
    BY <2>4 DEF DeadlineSwallowed, TypeOK
  <2> QED
    BY <1>6, <2>1, <2>2, <2>3, <2>4 DEF Drive
<1> QED
  BY <1>1, <1>2, <1>4, <1>6 DEF Next, Quiet

\* The types hold, the counter's included: busy never goes below zero.
THEOREM TypesHold == Spec => []TypeOK
<1>1. Spec => []CountInv
  BY CountInvInit, CountInvNext, PTL DEF Spec
<1>2. CountInv' => busy' \in Nat
  BY DEF CountInv
<1> QED
  BY <1>1, <1>2, TypeInit, TypeNext, PTL DEF Spec

-----------------------------------------------------------------------------
\* A stage may still be called at the place the request is at: its own job
\* has not come to it, or drive is about to call it.
Fresh(r) == (co[r] = "none" /\ job[r] # "done") \/ co[r] = "call"

\* The queue holds each queued request once; a request the task did not submit
\* has no job, and one whose job did not start has no coroutine.
PlaceInv ==
    /\ \A i \in 1..Len(queue) : job[queue[i]] = "queued"
    /\ \A i, j \in 1..Len(queue) : queue[i] = queue[j] => i = j
    /\ \A r \in Requests :
          /\ task[r] \in {"new", "refusing", "admitted", "reading"} => job[r] = "none"
          /\ job[r] \in {"none", "queued"} => co[r] = "none"

\* Before the place a request is at, every stage let it on; after it, none was
\* called; at it, the stage was called unless it is fresh.
StageInv ==
    \A r \in Requests, i \in Stages :
        /\ i < at[r] => verdict[r][i] = "none"
        /\ i > at[r] => calls[r][i] = 0
        /\ i = at[r] /\ Fresh(r) => calls[r][i] = 0
        /\ calls[r][i] <= 1

\* A step that leaves queue and job alone, or ends a running job, and starts
\* or moves a coroutine only of a request whose job started, keeps PlaceInv.
LEMMA PlaceKept ==
    ASSUME TypeOK, PlaceInv, NEW r \in Requests,
           queue' = queue, task' = task,
           job' = job \/ (Running(r) /\ job' = [job EXCEPT ![r] = "done"]),
           co' = co \/ (job[r] \in {"running", "done"} /\ \E c : co' = [co EXCEPT ![r] = c])
    PROVE  PlaceInv'
<1>1. \A i \in 1..Len(queue) : queue[i] \in Requests
  BY DEF TypeOK
<1>2. \A i \in 1..Len(queue) : job'[queue[i]] = "queued"
  BY <1>1 DEF PlaceInv, TypeOK, Running
<1>3. \A q \in Requests :
         /\ job'[q] \in {"none", "queued"} => job[q] = job'[q] /\ co'[q] = co[q]
         /\ job[q] = "none" => job'[q] = "none"
  BY DEF TypeOK, Running
<1> QED
  BY <1>2, <1>3 DEF PlaceInv

LEMMA PlaceInit == Init => PlaceInv
BY DEF Init, PlaceInv

LEMMA PlaceNext == TypeOK /\ PlaceInv /\ [Next]_vars => PlaceInv'
<1> SUFFICES ASSUME TypeOK, PlaceInv, [Next]_vars PROVE PlaceInv'
  OBVIOUS
<1> USE DEF vars, setup, axumVars, jobVars, coVars, runVars
<1>1. CASE UNCHANGED vars
  BY <1>1 DEF PlaceInv
<1>2. ASSUME NEW r \in Requests, Axum(r) PROVE PlaceInv'
  <2>1. CASE Submit(r)
    <3>1. /\ queue \in Seq(Requests) /\ Len(queue) \in Nat
          /\ queue' = Append(queue, r) /\ Len(queue') = Len(queue) + 1
          /\ queue'[Len(queue) + 1] = r
          /\ \A i \in 1..Len(queue) : queue'[i] = queue[i] /\ queue[i] \in Requests
      BY <2>1, AppendProperties DEF Submit, TypeOK
    <3>2. task[r] = "reading" /\ job[r] = "none" /\ co[r] = "none"
      BY <2>1 DEF Submit, PlaceInv
    <3>3. /\ job'[r] = "queued" /\ task'[r] = "job" /\ co' = co
          /\ \A q \in Requests \ {r} : job'[q] = job[q] /\ task'[q] = task[q]
      BY <2>1 DEF Submit, TypeOK
    <3>4. \A i \in 1..Len(queue) : queue[i] # r
      BY <3>2 DEF PlaceInv
    <3>5. \A i \in 1..Len(queue') : job'[queue'[i]] = "queued"
      BY <3>1, <3>3, <3>4 DEF PlaceInv
    <3>6. \A i, j \in 1..Len(queue') : queue'[i] = queue'[j] => i = j
      BY <3>1, <3>4 DEF PlaceInv
    <3> QED
      BY <3>2, <3>3, <3>5, <3>6 DEF PlaceInv
  <2>2. CASE Admit(r) \/ Overflow(r) \/ RouteFound(r)
    <3>1. /\ UNCHANGED <<queue, job, co>>
          /\ task[r] \in {"new", "admitted"}
          /\ \E t \in {"refusing", "admitted", "reading"} : task' = [task EXCEPT ![r] = t]
      BY <2>2 DEF Admit, Overflow, RouteFound
    <3> QED
      BY <3>1 DEF PlaceInv, TypeOK
  <2>3. CASE ~Submit(r) /\ ~Admit(r) /\ ~Overflow(r) /\ ~RouteFound(r)
    <3>1. /\ UNCHANGED <<queue, job, co>>
          /\ \E t \in {"reply", "answered", "gone"} : task' = [task EXCEPT ![r] = t]
      BY <1>2, <2>3 DEF Axum, Refuse, RejectLength, RefuseRoute, BodyFails, QueueFull,
                        TakeOutcome, TakeReply, RequestTimeout, Disconnect, Finish
    <3> QED
      BY <3>1 DEF PlaceInv, TypeOK
  <2> QED
    BY <2>1, <2>2, <2>3
<1>3. ASSUME NEW r \in Requests, StartJob(r) \/ StartFails(r) PROVE PlaceInv'
  <2>1. queue \in Seq(Requests) /\ queue # <<>> /\ queue' = Tail(queue) /\ r = Head(queue)
    BY <1>3 DEF StartJob, StartFails, Dequeue, TypeOK
  <2>2. /\ Len(queue) \in Nat /\ Len(queue) >= 1 /\ Len(queue') = Len(queue) - 1
        /\ \A i \in 1..Len(queue') : queue'[i] = queue[i + 1]
        /\ queue[1] = r
    BY <2>1, HeadTailProperties
  <2>3. job[r] = "queued"
    BY <2>2 DEF PlaceInv
  <2>4. /\ job'[r] \in {"running", "done"} /\ task' = task /\ co' = co
        /\ \A q \in Requests \ {r} : job'[q] = job[q]
    BY <1>3 DEF StartJob, StartFails, JobReturns, TypeOK
  <2>5. \A i \in 1..Len(queue') : i + 1 \in 1..Len(queue) /\ queue[i + 1] # r
    BY <2>2 DEF PlaceInv
  <2>6. \A i \in 1..Len(queue') : job'[queue'[i]] = "queued"
    <3>1. \A i \in 1..Len(queue) : queue[i] \in Requests
      BY <2>1, ElementOfSeq
    <3> QED
      BY <2>2, <2>4, <2>5, <3>1 DEF PlaceInv
  <2>7. \A i, j \in 1..Len(queue') : queue'[i] = queue'[j] => i = j
    BY <2>2, <2>5 DEF PlaceInv
  <2>8. task[r] \notin {"new", "refusing", "admitted", "reading"}
    BY <2>3 DEF PlaceInv
  <2> QED
    BY <2>4, <2>6, <2>7, <2>8 DEF PlaceInv
<1>4. ASSUME NEW r \in Requests, RunStage(r) \/ JobPanics(r) \/ HandOff(r) \/ HandOffFails(r)
      PROVE  PlaceInv'
  <2>1. /\ queue' = queue /\ task' = task /\ Running(r)
        /\ job' = job \/ job' = [job EXCEPT ![r] = "done"]
        /\ co' = co \/ \E c : co' = [co EXCEPT ![r] = c]
    BY <1>4 DEF RunStage, JobPanics, HandOff, HandOffFails, TakeOver, JobReturns
  <2> QED
    BY <2>1, PlaceKept DEF Running
<1>5. ASSUME NEW r \in Requests, Drive(r) PROVE PlaceInv'
  <2>1. co[r] # "none"
    BY <1>5 DEF Drive, DriveCall, DriveReturn, DeadlineRaises, DeadlineSwallowed
  <2>2. job[r] \in {"running", "done"}
    BY <2>1 DEF PlaceInv, TypeOK
  <2>3. /\ queue' = queue /\ task' = task
        /\ job' = job \/ (Running(r) /\ job' = [job EXCEPT ![r] = "done"])
        /\ co' = co \/ \E c : co' = [co EXCEPT ![r] = c]
    BY <1>5 DEF Drive, DriveCall, DriveReturn, DeadlineRaises, DeadlineSwallowed,
                Settle, DriveEnds, JobReturns
  <2> QED
    BY <2>2, <2>3, PlaceKept
<1> QED
  BY <1>1, <1>2, <1>3, <1>4, <1>5 DEF Next, Quiet, Job

\* What a step does to the stages of the request r it is about.
StageMove(r, v) ==
    /\ \/ Fresh(r) /\ Called(r)
       \/ calls' = calls
    /\ \/ Judged(r, v) /\ (Fresh(r)' => Continues(at[r], v))
       \/ UNCHANGED <<at, verdict>> /\ ~Fresh(r)'

\* Every step leaves the stages alone, or calls the fresh stage of one request
\* or judges the stage it is at, and makes no other stage fresh.
LEMMA StageStep ==
    ASSUME TypeOK, PlaceInv, Next
    PROVE  \/ /\ UNCHANGED <<at, calls, verdict>>
              /\ \A q \in Requests : Fresh(q)' => Fresh(q)
           \/ \E r \in Requests, v \in Verdicts :
                 /\ StageMove(r, v)
                 /\ \A q \in Requests \ {r} : Fresh(q)' => Fresh(q)
<1> USE DEF vars, setup, axumVars, jobVars, coVars, runVars
<1>1. CASE Quiet
  BY <1>1 DEF Quiet, Fresh
<1>2. ASSUME NEW r \in Requests, Axum(r) \/ StartJob(r) \/ StartFails(r)
      PROVE  /\ UNCHANGED <<at, calls, verdict>>
             /\ \A q \in Requests : Fresh(q)' => Fresh(q)
  <2>1. CASE Submit(r)
    <3>1. job[r] = "none"
      BY <2>1 DEF Submit, PlaceInv
    <3> QED
      BY <2>1, <3>1 DEF Submit, Fresh, TypeOK
  <2>2. CASE Axum(r) /\ ~Submit(r)
    <3>1. UNCHANGED <<at, calls, verdict, job, co>>
      BY <2>2 DEF Axum, Admit, Overflow, RouteFound, Refuse, RejectLength, RefuseRoute,
                  BodyFails, QueueFull, TakeOutcome, TakeReply, RequestTimeout,
                  Disconnect, Finish
    <3> QED
      BY <3>1 DEF Fresh
  <2>3. CASE StartJob(r) \/ StartFails(r)
    <3>1. queue \in Seq(Requests) /\ queue # <<>> /\ r = Head(queue)
      BY <2>3 DEF StartJob, StartFails, Dequeue, TypeOK
    <3>2. Len(queue) >= 1 /\ Len(queue) \in Nat /\ queue[1] = r
      BY <3>1
    <3>3. job[r] = "queued"
      BY <3>2 DEF PlaceInv
    <3> QED
      BY <2>3, <3>3 DEF StartJob, StartFails, JobReturns, Fresh, TypeOK
  <2> QED
    BY <1>2, <2>1, <2>2, <2>3
<1>3. ASSUME NEW r \in Requests, RunStage(r) \/ JobPanics(r) \/ HandOff(r) \/ HandOffFails(r)
      PROVE  \E v \in Verdicts : StageMove(r, v)
                /\ \A q \in Requests \ {r} : Fresh(q)' => Fresh(q)
  <2>1. Fresh(r) /\ Called(r)
    BY <1>3 DEF RunStage, JobPanics, HandOff, HandOffFails, TakeOver, Running, Fresh
  <2>2. \A q \in Requests \ {r} : Fresh(q)' => Fresh(q)
    <3>1. /\ job' = job \/ job' = [job EXCEPT ![r] = "done"]
          /\ co' = co \/ \E c : co' = [co EXCEPT ![r] = c]
      BY <1>3 DEF RunStage, JobPanics, HandOff, HandOffFails, TakeOver, JobReturns
    <3> QED
      BY <3>1 DEF Fresh, TypeOK
  <2>3. CASE RunStage(r)
    <3>1. PICK v \in {"none", "response", "other", "raised"} :
             /\ Judged(r, v)
             /\ Continues(at[r], v) \/ JobReturns(r, Reply(at[r], v))
      BY <2>3 DEF RunStage
    <3>2. JobReturns(r, Reply(at[r], v)) => ~Fresh(r)'
      BY <2>3 DEF RunStage, JobReturns, Fresh, TypeOK
    <3>3. v \in Verdicts
      BY DEF Verdicts
    <3> QED
      BY <2>1, <2>2, <3>1, <3>2, <3>3 DEF StageMove
  <2>4. CASE JobPanics(r)
    <3>1. ~Fresh(r)' /\ Judged(r, "panicked") /\ "panicked" \in Verdicts
      BY <2>4 DEF JobPanics, JobReturns, Fresh, TypeOK, Verdicts
    <3> QED
      BY <2>1, <2>2, <3>1 DEF StageMove
  <2>5. CASE HandOff(r) \/ HandOffFails(r)
    <3>1. ~Fresh(r)' /\ UNCHANGED <<at, verdict>> /\ "unset" \in Verdicts
      BY <2>5 DEF HandOff, HandOffFails, TakeOver, Fresh, TypeOK, Verdicts
    <3> QED
      BY <2>1, <2>2, <3>1 DEF StageMove
  <2> QED
    BY <1>3, <2>3, <2>4, <2>5
<1>4. ASSUME NEW r \in Requests, NEW v \in DriveVerdicts, Settle(r, v)
      PROVE  /\ Judged(r, v) /\ (Fresh(r)' => Continues(at[r], v)) /\ v \in Verdicts
             /\ \A q \in Requests \ {r} : Fresh(q)' => Fresh(q)
  <2>1. v \in Verdicts
    BY DEF DriveVerdicts, Verdicts
  <2>2. /\ job' = job \/ job' = [job EXCEPT ![r] = "done"]
        /\ co' = [co EXCEPT ![r] = IF Continues(at[r], v) THEN "call" ELSE "ended"]
    BY <1>4 DEF Settle, DriveEnds, JobReturns
  <2> QED
    BY <1>4, <2>1, <2>2 DEF Settle, Fresh, TypeOK
<1>5. ASSUME NEW r \in Requests, DriveCall(r)
      PROVE  \E v \in Verdicts : StageMove(r, v)
                /\ \A q \in Requests \ {r} : Fresh(q)' => Fresh(q)
  <2>1. Fresh(r) /\ Called(r)
    BY <1>5 DEF DriveCall, Fresh
  <2>2. CASE \E v \in DriveVerdicts : Settle(r, v)
    BY <1>4, <2>1, <2>2 DEF StageMove
  <2>3. CASE co' = [co EXCEPT ![r] = "await"] /\ UNCHANGED <<job, at, verdict>>
    <3>1. "unset" \in Verdicts /\ ~Fresh(r)'
      BY <2>3 DEF Verdicts, Fresh, TypeOK
    <3>2. \A q \in Requests \ {r} : Fresh(q)' => Fresh(q)
      BY <2>3 DEF Fresh, TypeOK
    <3> QED
      BY <2>1, <2>3, <3>1, <3>2 DEF StageMove
  <2> QED
    BY <1>5, <2>2, <2>3 DEF DriveCall
<1>6. ASSUME NEW r \in Requests, DriveReturn(r) \/ DeadlineRaises(r)
      PROVE  \E v \in Verdicts : StageMove(r, v)
                /\ \A q \in Requests \ {r} : Fresh(q)' => Fresh(q)
  <2>1. calls' = calls /\ \E v \in DriveVerdicts : Settle(r, v)
    BY <1>6 DEF DriveReturn, DeadlineRaises, DriveVerdicts
  <2> QED
    BY <1>4, <2>1 DEF StageMove
<1>7. ASSUME NEW r \in Requests, DeadlineSwallowed(r)
      PROVE  /\ UNCHANGED <<at, calls, verdict>>
             /\ \A q \in Requests : Fresh(q)' => Fresh(q)
  BY <1>7 DEF DeadlineSwallowed, Fresh
<1> QED
  BY <1>1, <1>2, <1>3, <1>5, <1>6, <1>7 DEF Next, Job, Drive

LEMMA StageInit == Init => StageInv
BY MiddlewaresAssumption DEF Init, StageInv, Stages, Handler

LEMMA StageNext == TypeOK /\ PlaceInv /\ StageInv /\ [Next]_vars => StageInv'
<1> SUFFICES ASSUME TypeOK, PlaceInv, StageInv, [Next]_vars PROVE StageInv'
  OBVIOUS
<1>1. CASE UNCHANGED vars
  BY <1>1 DEF StageInv, Fresh, vars, jobVars, coVars, runVars
<1>2. CASE UNCHANGED <<at, calls, verdict>> /\ \A q \in Requests : Fresh(q)' => Fresh(q)
  BY <1>2 DEF StageInv
<1>3. ASSUME NEW r \in Requests, NEW v \in Verdicts, StageMove(r, v),
             \A q \in Requests \ {r} : Fresh(q)' => Fresh(q)
      PROVE  StageInv'
  <2>1. /\ at[r] \in Nat /\ at[r] \in Stages
        /\ Stages \subseteq Nat
    BY MiddlewaresAssumption DEF TypeOK, Stages, Handler
  <2>2. \A q \in Requests \ {r} :
           at'[q] = at[q] /\ calls'[q] = calls[q] /\ verdict'[q] = verdict[q]
    BY <1>3 DEF StageMove, Called, Judged, TypeOK
  <2>3. /\ \A i \in Stages : i # at[r] => calls'[r][i] = calls[r][i]
        /\ calls'[r][at[r]] <= 1
    <3>1. /\ calls[r] \in [Stages -> Nat]
          /\ calls[r][at[r]] <= 1
          /\ Fresh(r) => calls[r][at[r]] = 0
      BY <2>1 DEF TypeOK, StageInv
    <3>2. CASE calls' = calls
      BY <3>1, <3>2
    <3>3. CASE Fresh(r) /\ Called(r)
      <4>1. calls'[r] = [calls[r] EXCEPT ![at[r]] = @ + 1]
        BY <3>3 DEF Called, TypeOK
      <4> QED
        BY <2>1, <3>1, <3>3, <4>1
    <3> QED
      BY <1>3, <3>2, <3>3 DEF StageMove
  <2>4. \A i \in Stages : i < at[r] => verdict'[r][i] = "none"
    <3>1. verdict[r] \in [Stages -> Verdicts]
          /\ \A i \in Stages : i < at[r] => verdict[r][i] = "none"
      BY DEF TypeOK, StageInv
    <3> QED
      BY <1>3, <2>1, <3>1 DEF StageMove, Judged, TypeOK
  <2>5. \/ at'[r] = at[r] /\ ~Fresh(r)'
        \/ at'[r] = at[r] + 1 /\ verdict'[r][at[r]] = "none"
    <3>1. CASE Judged(r, v) /\ (Fresh(r)' => Continues(at[r], v))
      BY <2>1, <3>1 DEF Judged, Continues, TypeOK
    <3>2. CASE UNCHANGED <<at, verdict>> /\ ~Fresh(r)'
      BY <3>2
    <3> QED
      BY <1>3, <3>1, <3>2 DEF StageMove
  <2>6. ASSUME NEW q \in Requests, NEW i \in Stages
        PROVE  /\ i < at'[q] => verdict'[q][i] = "none"
               /\ i > at'[q] => calls'[q][i] = 0
               /\ i = at'[q] /\ Fresh(q)' => calls'[q][i] = 0
               /\ calls'[q][i] <= 1
    <3>1. CASE q # r
      BY <1>3, <2>2, <3>1 DEF StageInv
    <3>2. CASE q = r
      <4>1. i > at[r] => calls[r][i] = 0
        BY DEF StageInv
      <4>2. calls[r][i] <= 1
        BY DEF StageInv
      <4>3. i \in Nat
        BY <2>1
      <4> QED
        BY <2>1, <2>3, <2>4, <2>5, <3>2, <4>1, <4>2, <4>3
    <3> QED
      BY <3>1, <3>2
  <2> QED
    BY <2>6 DEF StageInv
<1> QED
  BY <1>1, <1>2, <1>3, StageStep

LEMMA StageInvOrders == TypeOK /\ StageInv => GuardOrder /\ CalledOnce
<1> SUFFICES ASSUME TypeOK, StageInv,
                    NEW r \in Requests, NEW i \in Stages,
                    calls[r][i] > 0, NEW j \in 1..(i - 1)
             PROVE  verdict[r][j] = "none"
  BY DEF GuardOrder, CalledOnce, StageInv
<1>1. j \in Stages /\ j < i /\ i \in Nat /\ at[r] \in Nat
  BY MiddlewaresAssumption DEF Stages, Handler, TypeOK
<1>2. ~(i > at[r])
  BY DEF StageInv
<1> QED
  BY <1>1, <1>2 DEF StageInv

LEMMA StagesHold == Spec => [](TypeOK /\ PlaceInv /\ StageInv)
<1>1. Spec => []TypeOK
  BY TypesHold
<1>2. Spec => []PlaceInv
  BY <1>1, PlaceInit, PlaceNext, PTL DEF Spec
<1> QED
  BY <1>1, <1>2, StageInit, StageNext, PTL DEF Spec

\* For any number of middlewares: a stage is called only when every middleware
\* before it returned None, across the hand-off from the job to drive.
THEOREM StagesInOrder == Spec => []GuardOrder
BY StagesHold, StageInvOrders, PTL

\* For any number of middlewares: no stage of a request is called twice,
\* whoever runs it.
THEOREM StagesOnce == Spec => []CalledOnce
BY StagesHold, StageInvOrders, PTL

-----------------------------------------------------------------------------
\* Somebody runs the stages of the request, or will.
Alive(r) == (co[r] = "none" /\ job[r] # "done") \/ co[r] \in {"call", "await"}

\* What the stage the request is at came to.
Last(r) == verdict[r][at[r]]

\* The answer is the reply to the stage the request is at, which decided.
Decided(r, what) == Decides(at[r], Last(r)) /\ what = Reply(at[r], Last(r))

\* A request is at the first stage until its job starts. The stages past its
\* place came to nothing yet, nor did the one it is at while somebody runs it;
\* and the request is past every None but the handler's.
ChainInv(r) ==
    /\ job[r] \in {"none", "queued"} => at[r] = 1
    /\ \A i \in Stages : i > at[r] => verdict[r][i] = "unset"
    /\ Alive(r) => Last(r) = "unset"
    /\ Last(r) = "none" => at[r] = Handler

\* Where the decision of a request is: in the outcome of its job, or in the
\* sink of its coroutine with an outcome that sends the task there. When no
\* stage decided, outcome or sink says so.
DecisionInv(r) ==
    /\ co[r] = "none" /\ job[r] = "done" =>
          \/ Decided(r, outcome[r])
          \/ outcome[r] = Said("internal", 0) /\ Last(r) = "unset"
          \/ outcome[r] = Said("panicked", 0) /\ Last(r) = "panicked"
    /\ co[r] \in {"call", "await"} =>
          /\ sink[r] = Said("open", 0)
          /\ IF pool THEN job[r] = "done" /\ outcome[r] = Said("pending", 0) ELSE Running(r)
    /\ co[r] = "ended" =>
          /\ job[r] = "done"
          /\ \/ Decided(r, sink[r]) /\ outcome[r] = Said("pending", 0)
             \/ /\ sink[r] = Said("dropped", 0) /\ Last(r) \in {"unset", "escaped"}
                /\ \/ outcome[r] = Said("internal", 0)
                   \/ outcome[r] = Said("pending", 0) /\ pool

\* Answers of the server's own: before there is a job, and instead of a
\* decision.
Early   == {Said(w, 0) : w \in {"refused", "too_large", "not_found", "not_allowed",
                                "bad_body", "internal"}}
Instead == {Said("internal", 0), Said("no_response", 0)}

\* The task waits where the decision will be; a request answered otherwise
\* than by the timeout never had a job, or nobody runs it any more.
TaskInv(r) ==
    /\ task[r] # "answered" => answer[r] = Nothing
    /\ task[r] = "job" => job[r] # "none"
    /\ task[r] = "reply" => job[r] = "done" /\ outcome[r] = Said("pending", 0)
    /\ task[r] = "answered" /\ answer[r] # Said("timeout", 0) =>
          \/ job[r] = "none" /\ answer[r] \in Early
          \/ /\ job[r] = "done" /\ ~Alive(r)
             /\ \/ Decided(r, answer[r])
                \/ answer[r] \in Instead /\ ~Decides(at[r], Last(r))

RequestInv == \A r \in Requests : ChainInv(r) /\ DecisionInv(r) /\ TaskInv(r)

\* What the invariant says of a request, it says of these.
Same(q) ==
    /\ task'[q] = task[q] /\ answer'[q] = answer[q]
    /\ job'[q] = job[q] /\ outcome'[q] = outcome[q]
    /\ at'[q] = at[q] /\ verdict'[q] = verdict[q]
    /\ co'[q] = co[q] /\ sink'[q] = sink[q]

\* A step is about one request, and the pool is there or not from the start.
LEMMA OneRequest ==
    ASSUME TypeOK, NEW r \in Requests, Axum(r) \/ Job(r) \/ Drive(r)
    PROVE  pool' = pool /\ \A q \in Requests \ {r} : Same(q)
<1> USE DEF TypeOK, Same, setup, axumVars, jobVars, coVars, runVars
<1>1. ASSUME Axum(r) PROVE pool' = pool /\ \A q \in Requests \ {r} : Same(q)
  <2>1. CASE Admit(r) \/ Overflow(r) \/ Refuse(r) \/ RouteFound(r) \/ Submit(r) \/ Disconnect(r)
    BY <2>1 DEF Admit, Overflow, Refuse, RouteFound, Submit, Disconnect
  <2>2. CASE RejectLength(r) \/ RefuseRoute(r) \/ BodyFails(r) \/ QueueFull(r)
             \/ TakeOutcome(r) \/ TakeReply(r) \/ RequestTimeout(r)
    <3>1. \/ \E what : Finish(r, what)
          \/ task' = [task EXCEPT ![r] = "reply"]
             /\ UNCHANGED <<setup, answer, jobVars, coVars, runVars>>
      BY <2>2 DEF RejectLength, RefuseRoute, BodyFails, QueueFull, TakeOutcome,
                  TakeReply, RequestTimeout
    <3> QED
      BY <3>1 DEF Finish
  <2> QED
    BY <1>1, <2>1, <2>2 DEF Axum
<1>2. ASSUME Job(r) PROVE pool' = pool /\ \A q \in Requests \ {r} : Same(q)
  <2>1. CASE StartJob(r) \/ StartFails(r)
    BY <2>1 DEF StartJob, StartFails, JobReturns
  <2>2. CASE RunStage(r) \/ JobPanics(r)
    BY <2>2 DEF RunStage, JobPanics, JobReturns, Judged
  <2>3. CASE HandOff(r) \/ HandOffFails(r)
    BY <2>3 DEF HandOff, HandOffFails, TakeOver, JobReturns
  <2> QED
    BY <1>2, <2>1, <2>2, <2>3 DEF Job
<1>3. ASSUME NEW v, Settle(r, v) PROVE pool' = pool /\ \A q \in Requests \ {r} : Same(q)
  BY <1>3 DEF Settle, DriveEnds, Deliver, JobReturns, Judged
<1>4. ASSUME Drive(r) PROVE pool' = pool /\ \A q \in Requests \ {r} : Same(q)
  <2>1. \/ \E v : Settle(r, v)
        \/ (co' = co \/ co' = [co EXCEPT ![r] = "await"])
           /\ UNCHANGED <<setup, axumVars, jobVars, sink, at, verdict>>
    BY <1>4 DEF Drive, DriveCall, DriveReturn, DeadlineRaises, DeadlineSwallowed
  <2> QED
    BY <1>3, <2>1
<1> QED
  BY <1>1, <1>2, <1>4

\* What is said of a request stays true while others move.
LEMMA SameKeeps ==
    ASSUME NEW q \in Requests, Same(q), pool' = pool,
           ChainInv(q), DecisionInv(q), TaskInv(q)
    PROVE  ChainInv(q)' /\ DecisionInv(q)' /\ TaskInv(q)'
BY DEF Same, ChainInv, DecisionInv, TaskInv, Alive, Last, Decided, Running

\* A reply is one of three answers and has the stage's number.
LEMMA ReplyIs ==
    ASSUME NEW i, NEW v
    PROVE  /\ Reply(i, v).stage = i
           /\ Reply(i, v).what \in {"response", "not_response", "raised"}
BY DEF Reply, Said

\* The stage a request is at is judged.
LEMMA JudgedPlace ==
    ASSUME TypeOK, NEW r \in Requests, NEW v \in Verdicts \ {"unset"},
           ChainInv(r), Last(r) = "unset", Judged(r, v)
    PROVE  /\ \A i \in Stages : i > at'[r] => verdict'[r][i] = "unset"
           /\ Last(r)' = "none" => at'[r] = Handler
           /\ IF Continues(at[r], v)
              THEN Last(r)' = "unset"
              ELSE at'[r] = at[r] /\ Last(r)' = v
<1>1. /\ at[r] \in Stages /\ verdict[r] \in [Stages -> Verdicts]
      /\ Stages = 1..Handler /\ Handler \in Nat
  BY MiddlewaresAssumption DEF TypeOK, Stages, Handler
<1>2. /\ verdict'[r] = [verdict[r] EXCEPT ![at[r]] = v]
      /\ at'[r] = IF Continues(at[r], v) THEN at[r] + 1 ELSE at[r]
  BY DEF Judged, TypeOK
<1>3. CASE Continues(at[r], v)
  <2>1. at'[r] = at[r] + 1 /\ at'[r] \in Stages
    BY <1>1, <1>2, <1>3 DEF Continues
  <2>2. \A i \in Stages : i > at[r] => verdict'[r][i] = "unset"
    BY <1>1, <1>2 DEF ChainInv
  <2> QED
    BY <1>1, <1>3, <2>1, <2>2 DEF Last, ChainInv
<1>4. CASE ~Continues(at[r], v)
  <2>1. at'[r] = at[r] /\ verdict'[r][at[r]] = v
    BY <1>1, <1>2, <1>4
  <2>2. \A i \in Stages : i > at[r] => verdict'[r][i] = "unset"
    BY <1>1, <1>2 DEF ChainInv
  <2>3. v = "none" => at[r] = Handler
    BY <1>1, <1>4 DEF Continues
  <2> QED
    BY <1>4, <2>1, <2>2, <2>3 DEF Last, ChainInv
<1> QED
  BY <1>3, <1>4

\* A task that answers leaves the invariant when the answer is the timeout,
\* or there is no job, or the job is over and the answer is its decision or
\* says that there is none.
LEMMA FinishKeeps ==
    ASSUME TypeOK, NEW r \in Requests, NEW what, Finish(r, what),
           ChainInv(r), DecisionInv(r),
           \/ what = Said("timeout", 0)
           \/ job[r] = "none" /\ what \in Early
           \/ /\ job[r] = "done" /\ ~Alive(r)
              /\ \/ Decided(r, what)
                 \/ what \in Instead /\ ~Decides(at[r], Last(r))
    PROVE  ChainInv(r)' /\ DecisionInv(r)' /\ TaskInv(r)'
<1>1. /\ task'[r] = "answered" /\ answer'[r] = what
      /\ UNCHANGED <<pool, job, outcome, at, verdict, co, sink>>
  BY DEF Finish, TypeOK, setup, jobVars, coVars, runVars
<1>2. ChainInv(r)' /\ DecisionInv(r)'
  BY <1>1 DEF ChainInv, DecisionInv, Alive, Last, Decided, Running
<1>3. TaskInv(r)'
  BY <1>1 DEF TaskInv, Alive, Last, Decided
<1> QED
  BY <1>2, <1>3

LEMMA AxumKeeps ==
    ASSUME TypeOK, PlaceInv, NEW r \in Requests, Axum(r),
           ChainInv(r), DecisionInv(r), TaskInv(r)
    PROVE  ChainInv(r)' /\ DecisionInv(r)' /\ TaskInv(r)'
<1> USE DEF setup, jobVars, coVars, runVars
<1>1. CASE Admit(r) \/ Overflow(r) \/ RouteFound(r) \/ Disconnect(r)
  <2>1. /\ task[r] # "answered"
        /\ task'[r] \in {"admitted", "refusing", "reading", "gone"}
        /\ UNCHANGED <<pool, answer, job, outcome, at, verdict, co, sink>>
    BY <1>1 DEF Admit, Overflow, RouteFound, Disconnect, TypeOK
  <2> QED
    BY <2>1 DEF ChainInv, DecisionInv, TaskInv, Alive, Last, Decided, Running
<1>2. CASE Refuse(r)
  <2>1. /\ job[r] = "none" /\ task'[r] = "answered" /\ answer'[r] = Said("refused", 0)
        /\ UNCHANGED <<pool, job, outcome, at, verdict, co, sink>>
    BY <1>2 DEF Refuse, TypeOK, PlaceInv
  <2>2. ChainInv(r)' /\ DecisionInv(r)'
    BY <2>1 DEF ChainInv, DecisionInv, Alive, Last, Decided, Running
  <2>3. TaskInv(r)'
    BY <2>1 DEF TaskInv, Early
  <2> QED
    BY <2>2, <2>3
<1>3. CASE RejectLength(r) \/ RefuseRoute(r) \/ BodyFails(r) \/ QueueFull(r)
  <2>1. job[r] = "none" /\ \E what \in Early : Finish(r, what)
    BY <1>3 DEF RejectLength, RefuseRoute, BodyFails, QueueFull, PlaceInv, Early
  <2> QED
    BY <2>1, FinishKeeps
<1>4. CASE RequestTimeout(r)
  BY <1>4, FinishKeeps DEF RequestTimeout
<1>5. CASE Submit(r)
  <2>1. /\ job[r] = "none" /\ co[r] = "none"
        /\ job'[r] = "queued" /\ task'[r] = "job" /\ answer[r] = Nothing
        /\ UNCHANGED <<pool, answer, outcome, at, verdict, co, sink>>
    BY <1>5 DEF Submit, TypeOK, PlaceInv, TaskInv
  <2> QED
    BY <2>1 DEF ChainInv, DecisionInv, TaskInv, Alive, Last
<1>6. CASE TakeOutcome(r)
  <2>1. task[r] = "job" /\ job[r] = "done"
    BY <1>6 DEF TakeOutcome
  <2>2. /\ \A i \in Stages : Reply(i, Last(r)).what \notin {"pending", "panicked"}
        /\ at[r] \in Stages
    BY ReplyIs DEF TypeOK
  <2>3. CASE outcome[r].what = "pending"
    <3>1. /\ task'[r] = "reply" /\ answer[r] = Nothing
          /\ UNCHANGED <<pool, answer, job, outcome, at, verdict, co, sink>>
      BY <1>6, <2>1, <2>3 DEF TakeOutcome, Finish, Said, TypeOK, TaskInv
    <3>2. outcome[r] = Said("pending", 0)
      BY <2>1, <2>2, <2>3 DEF DecisionInv, Decided, Said, Running, TypeOK
    <3> QED
      BY <2>1, <3>1, <3>2 DEF ChainInv, DecisionInv, TaskInv, Alive, Last, Decided, Running
  <2>4. CASE outcome[r].what = "panicked"
    <3>1. co[r] = "none" /\ Last(r) = "panicked"
      BY <2>1, <2>2, <2>4 DEF DecisionInv, Decided, Said, Running, TypeOK
    <3>2. ~Alive(r) /\ ~Decides(at[r], Last(r))
      BY <2>1, <3>1 DEF Alive, Decides
    <3>3. Finish(r, Said("internal", 0)) /\ Said("internal", 0) \in Instead
      BY <1>6, <2>4 DEF TakeOutcome, Instead
    <3> QED
      BY <2>1, <3>2, <3>3, FinishKeeps
  <2>5. CASE outcome[r].what \notin {"pending", "panicked"}
    <3>1. Finish(r, outcome[r])
      BY <1>6, <2>5 DEF TakeOutcome
    <3>2. \/ co[r] = "none" /\ Decided(r, outcome[r])
          \/ /\ co[r] \in {"none", "ended"} /\ outcome[r] = Said("internal", 0)
             /\ Last(r) \in {"unset", "escaped"}
      BY <2>1, <2>5 DEF DecisionInv, Said, Running, TypeOK
    <3>3. ~Alive(r)
      BY <2>1, <3>2 DEF Alive
    <3>4. \/ Decided(r, outcome[r])
          \/ outcome[r] \in Instead /\ ~Decides(at[r], Last(r))
      BY <3>2 DEF Decides, Instead
    <3> QED
      BY <2>1, <3>1, <3>3, <3>4, FinishKeeps
  <2> QED
    BY <2>3, <2>4, <2>5
<1>7. CASE TakeReply(r)
  <2>1. job[r] = "done" /\ outcome[r] = Said("pending", 0)
    BY <1>7 DEF TakeReply, TaskInv
  <2>2. \A i \in Stages : Reply(i, Last(r)) \notin {Said("pending", 0), Said("dropped", 0)}
    BY ReplyIs DEF Said
  <2>3. co[r] # "none"
    BY <2>1, <2>2 DEF DecisionInv, Decided, Said, TypeOK
  <2>4. sink[r].what # "open"
    BY <1>7 DEF TakeReply
  <2>5. co[r] = "ended"
    BY <2>3, <2>4 DEF DecisionInv, Said, TypeOK
  <2>6. ~Alive(r)
    BY <2>1, <2>5 DEF Alive
  <2>7. CASE sink[r].what = "dropped"
    <3>1. at[r] \in Stages /\ Reply(at[r], Last(r)).what # "dropped"
      BY ReplyIs DEF TypeOK
    <3>2. Last(r) \in {"unset", "escaped"}
      BY <2>5, <2>7, <3>1 DEF DecisionInv, Decided
    <3>3. ~Decides(at[r], Last(r))
      BY <3>2 DEF Decides
    <3>4. Finish(r, Said("no_response", 0)) /\ Said("no_response", 0) \in Instead
      BY <1>7, <2>7 DEF TakeReply, Instead
    <3> QED
      BY <2>1, <2>6, <3>3, <3>4, FinishKeeps
  <2>8. CASE sink[r].what # "dropped"
    <3>1. Decided(r, sink[r])
      BY <2>5, <2>8 DEF DecisionInv, Said
    <3>2. Finish(r, sink[r])
      BY <1>7, <2>8 DEF TakeReply
    <3> QED
      BY <2>1, <2>6, <3>1, <3>2, FinishKeeps
  <2> QED
    BY <2>7, <2>8
<1> QED
  BY <1>1, <1>2, <1>3, <1>4, <1>5, <1>6, <1>7 DEF Axum

\* The queue's head waits for its job, and the job for its first stage.
LEMMA DequeuedIsQueued ==
    ASSUME TypeOK, PlaceInv, NEW r \in Requests, Dequeue(r)
    PROVE  job[r] = "queued" /\ co[r] = "none"
<1>1. queue \in Seq(Requests) /\ queue # <<>> /\ r = Head(queue)
  BY DEF Dequeue, TypeOK
<1>2. Len(queue) >= 1 /\ Len(queue) \in Nat /\ queue[1] = r
  BY <1>1
<1> QED
  BY <1>2 DEF PlaceInv

\* What a step of the job or of drive leaves of the task's part.
LEMMA TaskFollows ==
    ASSUME NEW r \in Requests, TaskInv(r), UNCHANGED <<task, answer>>,
           Alive(r), job[r] # "none", job'[r] # "none",
           job[r] = "done" => job'[r] = "done" /\ outcome'[r] = outcome[r]
    PROVE  TaskInv(r)'
BY DEF TaskInv

LEMMA JobKeeps ==
    ASSUME TypeOK, PlaceInv, NEW r \in Requests, Job(r),
           ChainInv(r), DecisionInv(r), TaskInv(r)
    PROVE  ChainInv(r)' /\ DecisionInv(r)' /\ TaskInv(r)'
<1> USE DEF setup, axumVars, coVars, runVars
<1>1. CASE StartJob(r) \/ StartFails(r)
  <2>1. job[r] = "queued" /\ co[r] = "none"
    BY <1>1, DequeuedIsQueued DEF StartJob, StartFails
  <2>2. Alive(r) /\ Last(r) = "unset"
    BY <2>1 DEF Alive, ChainInv
  <2>3. /\ UNCHANGED <<pool, task, answer, at, verdict, co, sink>>
        /\ job'[r] = "running" \/ (job'[r] = "done" /\ outcome'[r] = Said("internal", 0))
    BY <1>1 DEF StartJob, StartFails, JobReturns, TypeOK
  <2>4. TaskInv(r)'
    BY <2>1, <2>2, <2>3, TaskFollows
  <2>5. ChainInv(r)' /\ DecisionInv(r)'
    BY <2>1, <2>2, <2>3 DEF ChainInv, DecisionInv, Alive, Last
  <2> QED
    BY <2>4, <2>5
<1>2. CASE RunStage(r) \/ JobPanics(r)
  <2>1. /\ job[r] = "running" /\ co[r] = "none"
        /\ UNCHANGED <<pool, task, answer, co, sink>>
    BY <1>2 DEF RunStage, JobPanics, Running
  <2>2. Alive(r) /\ Last(r) = "unset"
    BY <2>1 DEF Alive, ChainInv
  <2>3. PICK v \in {"none", "response", "other", "raised", "panicked"} :
           /\ Judged(r, v)
           /\ IF v # "panicked" /\ Continues(at[r], v)
              THEN UNCHANGED <<job, outcome>>
              ELSE JobReturns(r, IF v = "panicked" THEN Said("panicked", 0)
                                                   ELSE Reply(at[r], v))
    BY <1>2 DEF RunStage, JobPanics
  <2>4. v \in Verdicts \ {"unset"}
    BY DEF Verdicts
  <2>5. /\ \A i \in Stages : i > at'[r] => verdict'[r][i] = "unset"
        /\ Last(r)' = "none" => at'[r] = Handler
        /\ IF Continues(at[r], v) THEN Last(r)' = "unset"
                                  ELSE at'[r] = at[r] /\ Last(r)' = v
    BY <2>2, <2>3, <2>4, JudgedPlace
  <2>6. CASE Continues(at[r], v)
    <3>1. v # "panicked" /\ UNCHANGED <<job, outcome>>
      BY <2>3, <2>6 DEF Continues
    <3>2. Alive(r)' /\ Last(r)' = "unset"
      BY <2>1, <2>5, <2>6, <3>1 DEF Alive
    <3>3. TaskInv(r)'
      BY <2>1, <2>2, <3>1, TaskFollows
    <3> QED
      BY <2>1, <2>5, <3>1, <3>2, <3>3 DEF ChainInv, DecisionInv
  <2>7. CASE ~Continues(at[r], v)
    <3>1. /\ job'[r] = "done"
          /\ outcome'[r] = IF v = "panicked" THEN Said("panicked", 0) ELSE Reply(at[r], v)
      BY <2>3, <2>7 DEF JobReturns, TypeOK
    <3>2. v # "panicked" => Decided(r, outcome[r])'
      BY <2>5, <2>7, <3>1 DEF Decided, Decides
    <3>3. ~Alive(r)'
      BY <2>1, <3>1 DEF Alive
    <3>4. TaskInv(r)'
      BY <2>1, <2>2, <3>1, TaskFollows
    <3> QED
      BY <2>1, <2>5, <2>7, <3>1, <3>2, <3>3, <3>4 DEF ChainInv, DecisionInv
  <2> QED
    BY <2>6, <2>7
<1>3. CASE HandOff(r) \/ HandOffFails(r)
  <2>1. /\ job[r] = "running" /\ co[r] = "none"
        /\ UNCHANGED <<pool, task, answer, at, verdict>>
    BY <1>3 DEF HandOff, HandOffFails, TakeOver, Running
  <2>2. Alive(r) /\ Last(r) = "unset"
    BY <2>1 DEF Alive, ChainInv
  <2>3. \/ /\ co'[r] = "await" /\ sink'[r] = Said("open", 0)
           /\ IF pool THEN job'[r] = "done" /\ outcome'[r] = Said("pending", 0)
                      ELSE job'[r] = "running"
        \/ /\ co'[r] = "ended" /\ sink'[r] = Said("dropped", 0)
           /\ job'[r] = "done" /\ outcome'[r] = Said("internal", 0)
    BY <1>3, <2>1 DEF HandOff, HandOffFails, TakeOver, JobReturns, TypeOK
  <2>4. TaskInv(r)'
    BY <2>1, <2>2, <2>3, TaskFollows
  <2>5. Last(r)' = "unset"
    BY <2>1, <2>2 DEF Last
  <2>6. ChainInv(r)'
    BY <2>1, <2>3, <2>5 DEF ChainInv
  <2>7. DecisionInv(r)'
    BY <2>1, <2>3, <2>5 DEF DecisionInv, Running
  <2> QED
    BY <2>4, <2>6, <2>7
<1> QED
  BY <1>1, <1>2, <1>3 DEF Job

LEMMA DriveKeeps ==
    ASSUME TypeOK, PlaceInv, NEW r \in Requests, Drive(r),
           ChainInv(r), DecisionInv(r), TaskInv(r)
    PROVE  ChainInv(r)' /\ DecisionInv(r)' /\ TaskInv(r)'
<1> USE DEF setup, axumVars, jobVars, runVars
<1>1. co[r] \in {"call", "await"}
  BY DEF Drive, DriveCall, DriveReturn, DeadlineRaises, DeadlineSwallowed
<1>2. /\ Alive(r) /\ Last(r) = "unset" /\ sink[r] = Said("open", 0)
      /\ job[r] \in {"running", "done"}
      /\ IF pool THEN job[r] = "done" /\ outcome[r] = Said("pending", 0) ELSE Running(r)
  BY <1>1 DEF Alive, ChainInv, DecisionInv, Running
<1>3. ASSUME NEW v \in DriveVerdicts, Settle(r, v)
      PROVE  ChainInv(r)' /\ DecisionInv(r)' /\ TaskInv(r)'
  <2>1. v \in Verdicts \ {"unset"} /\ Judged(r, v) /\ UNCHANGED <<pool, task, answer>>
    BY <1>3 DEF DriveVerdicts, Verdicts, Settle
  <2>2. /\ \A i \in Stages : i > at'[r] => verdict'[r][i] = "unset"
        /\ Last(r)' = "none" => at'[r] = Handler
        /\ IF Continues(at[r], v) THEN Last(r)' = "unset"
                                  ELSE at'[r] = at[r] /\ Last(r)' = v
    BY <1>2, <2>1, JudgedPlace
  <2>3. CASE Continues(at[r], v)
    <3>1. co'[r] = "call" /\ UNCHANGED <<job, outcome, sink>>
      BY <1>3, <2>3 DEF Settle, TypeOK
    <3>2. TaskInv(r)'
      BY <1>2, <2>1, <3>1, TaskFollows
    <3> QED
      BY <1>2, <2>1, <2>2, <2>3, <3>1, <3>2 DEF ChainInv, DecisionInv, Running
  <2>4. CASE ~Continues(at[r], v)
    <3>1. DriveEnds(r, v)
      BY <1>3, <2>4 DEF Settle
    <3>2. /\ co'[r] = "ended" /\ job'[r] = "done"
          /\ sink'[r] = IF v = "escaped" THEN Said("dropped", 0) ELSE Reply(at[r], v)
          /\ outcome'[r] = IF ~pool /\ v = "escaped" THEN Said("internal", 0)
                                                     ELSE Said("pending", 0)
      <4>1. co'[r] = "ended"
        BY <3>1 DEF DriveEnds, TypeOK
      <4>2. sink'[r] = IF v = "escaped" THEN Said("dropped", 0) ELSE Reply(at[r], v)
        BY <1>2, <3>1 DEF DriveEnds, Deliver, Said, TypeOK
      <4>3. CASE pool
        BY <1>2, <3>1, <4>1, <4>2, <4>3 DEF DriveEnds, Running
      <4>4. CASE ~pool
        BY <1>2, <3>1, <4>1, <4>2, <4>4 DEF DriveEnds, JobReturns, TypeOK
      <4> QED
        BY <4>3, <4>4
    <3>3. v # "escaped" => Decided(r, sink[r])'
      BY <1>3, <2>2, <2>4, <3>2 DEF Decided, Decides, DriveVerdicts
    <3>4. TaskInv(r)'
      BY <1>2, <2>1, <3>1, <3>2, TaskFollows DEF DriveEnds, Running
    <3>5. ~Alive(r)'
      BY <3>2 DEF Alive
    <3>6. ChainInv(r)'
      BY <2>2, <3>2, <3>5 DEF ChainInv
    <3>7. DecisionInv(r)'
      BY <2>1, <2>2, <2>4, <3>2, <3>3 DEF DecisionInv
    <3> QED
      BY <3>4, <3>6, <3>7
  <2> QED
    BY <2>3, <2>4
<1>4. CASE \E v \in DriveVerdicts : Settle(r, v)
  BY <1>3, <1>4
<1>5. CASE ~\E v \in DriveVerdicts : Settle(r, v)
  <2>1. /\ co'[r] = "await"
        /\ UNCHANGED <<pool, task, answer, job, outcome, sink, at, verdict>>
    BY <1>1, <1>5 DEF Drive, DriveCall, DriveReturn, DeadlineRaises, DeadlineSwallowed,
                      DriveVerdicts, TypeOK
  <2> QED
    BY <1>2, <2>1 DEF ChainInv, DecisionInv, TaskInv, Alive, Last, Running
<1> QED
  BY <1>4, <1>5

LEMMA RequestInvInit == Init => RequestInv
<1> SUFFICES ASSUME Init, NEW r \in Requests
             PROVE  ChainInv(r) /\ DecisionInv(r) /\ TaskInv(r)
  BY DEF RequestInv
<1>1. 1 \in Stages /\ \A i \in Stages : verdict[r][i] = "unset"
  BY MiddlewaresAssumption DEF Init, Stages, Handler
<1> QED
  BY <1>1 DEF Init, ChainInv, DecisionInv, TaskInv, Alive, Last

LEMMA RequestInvNext == TypeOK /\ PlaceInv /\ RequestInv /\ [Next]_vars => RequestInv'
<1> SUFFICES ASSUME TypeOK, PlaceInv, RequestInv, [Next]_vars PROVE RequestInv'
  OBVIOUS
<1>1. CASE UNCHANGED vars
  BY <1>1 DEF RequestInv, ChainInv, DecisionInv, TaskInv, Alive, Last, Decided, Running,
              vars, setup, axumVars, jobVars, coVars, runVars
<1>2. ASSUME NEW r \in Requests, Axum(r) \/ Job(r) \/ Drive(r) PROVE RequestInv'
  <2>1. ChainInv(r)' /\ DecisionInv(r)' /\ TaskInv(r)'
    BY <1>2, AxumKeeps, JobKeeps, DriveKeeps DEF RequestInv
  <2>2. \A q \in Requests \ {r} : ChainInv(q)' /\ DecisionInv(q)' /\ TaskInv(q)'
    BY <1>2, OneRequest, SameKeeps DEF RequestInv
  <2> QED
    BY <2>1, <2>2 DEF RequestInv
<1> QED
  BY <1>1, <1>2 DEF Next, Quiet

LEMMA RequestsHold == Spec => [](TypeOK /\ PlaceInv /\ StageInv /\ RequestInv)
<1>1. Spec => [](TypeOK /\ PlaceInv /\ StageInv)
  BY StagesHold
<1> QED
  BY <1>1, RequestInvInit, RequestInvNext, PTL DEF Spec

\* Only the stage a request is at can have decided.
LEMMA OnlyLastDecides ==
    ASSUME TypeOK, StageInv, NEW r \in Requests, ChainInv(r),
           NEW i \in Stages, Decides(i, verdict[r][i])
    PROVE  i = at[r]
<1>1. i \in 1..Handler /\ at[r] \in 1..Handler /\ Handler \in Nat
  BY MiddlewaresAssumption DEF TypeOK, Stages, Handler
<1>2. CASE i < at[r]
  <2>1. verdict[r][i] = "none" /\ i # Handler
    BY <1>1, <1>2 DEF StageInv
  <2> QED
    BY <2>1 DEF Decides
<1>3. CASE i > at[r]
  <2>1. verdict[r][i] = "unset"
    BY <1>3 DEF ChainInv
  <2> QED
    BY <2>1 DEF Decides
<1> QED
  BY <1>1, <1>2, <1>3

LEMMA AnswersDecide ==
    TypeOK /\ PlaceInv /\ StageInv /\ RequestInv => AnswerIsTheDecision
<1> SUFFICES ASSUME TypeOK, PlaceInv, StageInv, RequestInv,
                    NEW r \in Requests, NEW i \in Stages, task[r] = "answered"
             PROVE  /\ answer[r].stage = i =>
                          Decides(i, verdict[r][i]) /\ answer[r] = Reply(i, verdict[r][i])
                    /\ Decides(i, verdict[r][i]) =>
                          answer[r] \in {Reply(i, verdict[r][i]), Said("timeout", 0)}
  BY DEF AnswerIsTheDecision
<1>1. ChainInv(r) /\ TaskInv(r)
  BY DEF RequestInv
<1>2. i # 0 /\ Handler \in Nat /\ 1 \in Stages
  BY MiddlewaresAssumption DEF Stages, Handler
<1>3. Decides(i, verdict[r][i]) => i = at[r]
  BY <1>1, OnlyLastDecides
<1>4. CASE answer[r] = Said("timeout", 0)
  BY <1>2, <1>4 DEF Said
<1>5. CASE job[r] = "none" /\ answer[r] \in Early
  <2>1. answer[r].stage = 0
    BY <1>5 DEF Early, Said
  <2>2. Alive(r)
    BY <1>5 DEF Alive, PlaceInv
  <2>3. ~Decides(at[r], Last(r))
    BY <1>1, <2>2 DEF ChainInv, Decides
  <2> QED
    BY <1>2, <1>3, <2>1, <2>3 DEF Last
<1>6. CASE Decided(r, answer[r])
  <2>1. answer[r].stage = at[r]
    BY <1>6, ReplyIs DEF Decided
  <2> QED
    BY <1>3, <1>6, <2>1 DEF Decided, Last
<1>7. CASE answer[r] \in Instead /\ ~Decides(at[r], Last(r))
  <2>1. answer[r].stage = 0
    BY <1>7 DEF Instead, Said
  <2> QED
    BY <1>2, <1>3, <1>7, <2>1 DEF Last
<1> QED
  BY <1>1, <1>4, <1>5, <1>6, <1>7 DEF TaskInv

\* The client is answered what the deciding stage made, whichever of job and
\* drive ran it, and nothing but the request timeout replaces a decision; for
\* any number of requests and stages.
THEOREM AnswersAreDecisions == Spec => []AnswerIsTheDecision
BY RequestsHold, AnswersDecide, PTL

LEMMA JobSpans == RequestInv => JobSpansCoroutine
<1> SUFFICES ASSUME RequestInv, NEW r \in Requests, ~pool
             PROVE  /\ co[r] \in {"call", "await"} => Running(r)
                    /\ co[r] = "ended" => /\ job[r] = "done"
                                          /\ outcome[r].what = "pending" =>
                                                sink[r].what \notin {"open", "dropped"}
  BY DEF JobSpansCoroutine
<1>1. DecisionInv(r)
  BY DEF RequestInv
<1>2. Decided(r, sink[r]) => sink[r].what \notin {"open", "dropped"}
  BY ReplyIs DEF Decided
<1> QED
  BY <1>1, <1>2 DEF DecisionInv, Said

\* Without a pool a job holds its thread exactly as long as its coroutine
\* lives, and sends the waiting task to a channel only when that is settled.
THEOREM JobsSpanCoroutines == Spec => []JobSpansCoroutine
BY RequestsHold, JobSpans, PTL

-----------------------------------------------------------------------------
(* RequestDispatch implements RequestChain.                                 *)

Waiting == {r \in Requests : task[r] \notin {"answered", "gone"}}

\* A stage that is judged, by the job or by drive, ends in the chain.
LEMMA StageMaps ==
    ASSUME TypeOK, StageInv, NEW r \in Requests, NEW v \in Verdicts \ {"unset"},
           Last(r) = "unset", Judged(r, v), UNCHANGED <<task, answer>>
    PROVE  Chain!Next
<1>1. /\ at[r] \in Chain!Stages
      /\ verdict[r][at[r]] = "unset"
  BY DEF TypeOK, Last, Chain!Stages, Stages
<1>2. ASSUME NEW j \in 1..(at[r] - 1) PROVE verdict[r][j] = "none"
  <2>1. j \in Stages /\ j < at[r]
    BY MiddlewaresAssumption DEF TypeOK, Stages, Handler
  <2> QED
    BY <2>1 DEF StageInv
<1>3. verdict' = [verdict EXCEPT ![r][at[r]] = v]
  BY DEF Judged
<1>4. Chain!StageEnds(r, at[r], v)
  BY <1>1, <1>2, <1>3 DEF Chain!StageEnds
<1>5. v \in {"none", "response", "other", "raised", "escaped", "panicked"}
  BY DEF Verdicts
<1> QED
  BY <1>1, <1>4, <1>5 DEF Chain!Next

\* The guard lets an answer out: it is the chain's answer to the request.
LEMMA FinishMaps ==
    ASSUME TypeOK, NEW r \in Requests, NEW w, NEW i, Finish(r, Said(w, i)), r \in Waiting
    PROVE  Chain!Answer(r, w, i)
<1>1. Waiting' = Waiting \ {r}
  BY DEF Waiting, Finish, TypeOK
<1>2. answer' = [answer EXCEPT ![r] = [what |-> w, stage |-> i]] /\ verdict' = verdict
  BY DEF Finish, Said, runVars
<1> QED
  BY <1>1, <1>2 DEF Chain!Answer, Waiting

\* A request without a job is one no stage of which ran.
LEMMA NoJobUntouched ==
    ASSUME TypeOK, PlaceInv, RequestInv, StageInv, NEW r \in Requests, job[r] = "none"
    PROVE  Chain!Untouched(r)
<1>1. Alive(r) /\ ChainInv(r) /\ at[r] = 1
  BY DEF PlaceInv, RequestInv, ChainInv, Alive
<1>2. \A i \in Stages : i = 1 \/ i > 1
  BY MiddlewaresAssumption DEF Stages, Handler
<1> QED
  BY <1>1, <1>2 DEF Chain!Untouched, Chain!Stages, Stages, ChainInv, Last

\* When the stage a request is at did not decide, none did.
LEMMA LastUndecided ==
    ASSUME TypeOK, StageInv, RequestInv, NEW r \in Requests, ~Decides(at[r], Last(r))
    PROVE  Chain!Undecided(r)
<1>1. ASSUME NEW i \in Stages, Chain!Decides(r, i) PROVE FALSE
  <2>1. Decides(i, verdict[r][i])
    BY <1>1 DEF Chain!Decides, Decides
  <2>2. i = at[r]
    BY <2>1, OnlyLastDecides DEF RequestInv
  <2> QED
    BY <2>1, <2>2 DEF Last
<1> QED
  BY <1>1 DEF Chain!Undecided, Chain!Stages, Stages

\* A decision that the task found is the chain's decision.
LEMMA DecisionMaps ==
    ASSUME TypeOK, NEW r \in Requests, NEW what, Decided(r, what),
           Finish(r, what), r \in Waiting
    PROVE  Chain!Next
<1>1. at[r] \in Chain!Stages
  BY DEF TypeOK, Chain!Stages, Stages
<1>2. PICK w : w = Chain!Wording(verdict[r][at[r]])
  OBVIOUS
<1>3. PICK i \in Chain!Stages : i = at[r]
  BY <1>1
<1>4. what = Said(w, i)
  BY <1>2, <1>3 DEF Decided, Decides, Reply, Last, Said, Chain!Wording
<1>5. Finish(r, Said(w, i))
  BY <1>4 DEF Finish
<1>6. Chain!Answer(r, w, i)
  BY <1>5, FinishMaps
<1>7. Chain!Decides(r, i)
  BY <1>3 DEF Decided, Decides, Last, Chain!Decides
<1>8. Chain!Deliver(r, i)
  BY <1>2, <1>3, <1>6, <1>7 DEF Chain!Deliver, Chain!Answer
<1> QED
  BY <1>3, <1>8 DEF Chain!Next

\* Steps of the task are answers, departures or stutters of the chain.
LEMMA AxumMaps ==
    ASSUME TypeOK, PlaceInv, StageInv, RequestInv, NEW r \in Requests, Axum(r)
    PROVE  [Chain!Next]_(Chain!chainVars)
<1> USE DEF Waiting
<1>1. CASE Admit(r) \/ Overflow(r) \/ RouteFound(r) \/ Submit(r)
           \/ (TakeOutcome(r) /\ outcome[r].what = "pending")
  <2>1. UNCHANGED <<answer, verdict>> /\ Waiting' = Waiting
    BY <1>1 DEF Admit, Overflow, RouteFound, Submit, TakeOutcome, Finish, TypeOK,
                runVars, Said
  <2> QED
    BY <2>1 DEF Chain!chainVars
<1>2. CASE Refuse(r)
  <2>1. Waiting' = Waiting \ {r} /\ r \in Waiting
    BY <1>2 DEF Refuse, TypeOK
  <2>2. Chain!Answer(r, "refused", 0)
    BY <1>2, <2>1 DEF Refuse, Said, Chain!Answer, runVars
  <2>3. Chain!Untouched(r)
    BY <1>2, NoJobUntouched DEF Refuse, PlaceInv
  <2> QED
    BY <2>2, <2>3 DEF Chain!Next, Chain!Reject
<1>3. CASE RejectLength(r) \/ RefuseRoute(r) \/ BodyFails(r)
  <2>1. PICK w \in {"too_large", "not_found", "not_allowed", "bad_body"} :
           Finish(r, Said(w, 0))
    BY <1>3 DEF RejectLength, RefuseRoute, BodyFails
  <2>2. r \in Waiting /\ job[r] = "none"
    BY <1>3 DEF RejectLength, RefuseRoute, BodyFails, PlaceInv
  <2>3. Chain!Answer(r, w, 0) /\ Chain!Untouched(r)
    BY <2>1, <2>2, FinishMaps, NoJobUntouched
  <2> QED
    BY <2>3 DEF Chain!Next, Chain!Reject
<1>4. ASSUME NEW w \in {"internal", "no_response"}, Finish(r, Said(w, 0)),
             r \in Waiting, ~Decides(at[r], Last(r))
      PROVE  Chain!Next
  <2>1. Chain!Answer(r, w, 0) /\ Chain!Undecided(r)
    BY <1>4, FinishMaps, LastUndecided
  <2> QED
    BY <2>1 DEF Chain!Next, Chain!Fail
<1>5. CASE QueueFull(r)
  <2>1. job[r] = "none" /\ co[r] = "none" /\ r \in Waiting
    BY <1>5 DEF QueueFull, PlaceInv
  <2>2. Last(r) = "unset"
    BY <2>1 DEF RequestInv, ChainInv, Alive
  <2> QED
    BY <1>4, <1>5, <2>1, <2>2 DEF QueueFull, Decides
<1>6. CASE TakeOutcome(r) /\ outcome[r].what # "pending"
  <2>1. job[r] = "done" /\ r \in Waiting /\ DecisionInv(r)
    BY <1>6 DEF TakeOutcome, RequestInv
  <2>2. at[r] \in Stages /\ Reply(at[r], Last(r)).what # "panicked"
    BY ReplyIs DEF TypeOK
  <2>3. CASE outcome[r].what = "panicked"
    <3>1. Last(r) = "panicked"
      BY <2>1, <2>2, <2>3 DEF DecisionInv, Decided, Said, Running, TypeOK
    <3>2. Finish(r, Said("internal", 0))
      BY <1>6, <2>3 DEF TakeOutcome
    <3> QED
      BY <1>4, <2>1, <3>1, <3>2 DEF Decides
  <2>4. CASE outcome[r].what # "panicked"
    <3>1. Finish(r, outcome[r])
      BY <1>6, <2>4 DEF TakeOutcome
    <3>2. \/ Decided(r, outcome[r])
          \/ outcome[r] = Said("internal", 0) /\ Last(r) \in {"unset", "escaped"}
      BY <1>6, <2>1, <2>4 DEF DecisionInv, Said, Running, TypeOK
    <3> QED
      BY <1>4, <2>1, <3>1, <3>2, DecisionMaps DEF Decides
  <2> QED
    BY <2>3, <2>4
<1>7. CASE TakeReply(r)
  <2>1. DecisionInv(r) /\ TaskInv(r) /\ r \in Waiting
    BY <1>7 DEF TakeReply, RequestInv
  <2>2. job[r] = "done" /\ outcome[r] = Said("pending", 0)
    BY <1>7, <2>1 DEF TakeReply, TaskInv
  <2>3. Reply(at[r], Last(r)).what \notin {"pending", "dropped"}
    BY ReplyIs
  <2>4. co[r] # "none"
    BY <2>1, <2>2, <2>3 DEF DecisionInv, Decided, Said
  <2>5. co[r] = "ended"
    BY <1>7, <2>1, <2>4 DEF TakeReply, DecisionInv, Said, TypeOK
  <2>6. CASE sink[r].what = "dropped"
    <3>1. Last(r) \in {"unset", "escaped"}
      BY <2>1, <2>3, <2>5, <2>6 DEF DecisionInv, Decided
    <3>2. Finish(r, Said("no_response", 0))
      BY <1>7, <2>6 DEF TakeReply
    <3> QED
      BY <1>4, <2>1, <3>1, <3>2 DEF Decides
  <2>7. CASE sink[r].what # "dropped"
    <3>1. Decided(r, sink[r]) /\ Finish(r, sink[r])
      BY <1>7, <2>1, <2>5, <2>7 DEF TakeReply, DecisionInv, Said
    <3> QED
      BY <2>1, <3>1, DecisionMaps
  <2> QED
    BY <2>6, <2>7
<1>8. CASE RequestTimeout(r)
  <2>1. Chain!Answer(r, "timeout", 0)
    BY <1>8, FinishMaps DEF RequestTimeout
  <2> QED
    BY <2>1 DEF Chain!Next, Chain!Expire
<1>9. CASE Disconnect(r)
  <2>1. Waiting' = Waiting \ {r} /\ r \in Waiting /\ UNCHANGED <<answer, verdict>>
    BY <1>9 DEF Disconnect, TypeOK, runVars
  <2> QED
    BY <2>1 DEF Chain!Next, Chain!Abandon
<1> QED
  BY <1>1, <1>2, <1>3, <1>5, <1>6, <1>7, <1>8, <1>9 DEF Axum

\* Steps of the job are ends of a stage or stutters of the chain.
LEMMA JobMaps ==
    ASSUME TypeOK, StageInv, RequestInv, NEW r \in Requests, Job(r)
    PROVE  [Chain!Next]_(Chain!chainVars)
<1>1. CASE StartJob(r) \/ StartFails(r) \/ HandOff(r) \/ HandOffFails(r)
  BY <1>1 DEF StartJob, StartFails, HandOff, HandOffFails, TakeOver,
              axumVars, runVars, Chain!chainVars
<1>2. CASE RunStage(r) \/ JobPanics(r)
  <2>1. Last(r) = "unset"
    BY <1>2 DEF RunStage, JobPanics, Running, RequestInv, ChainInv, Alive
  <2>2. UNCHANGED <<task, answer>> /\ \E v \in Verdicts \ {"unset"} : Judged(r, v)
    BY <1>2 DEF RunStage, JobPanics, axumVars, Verdicts
  <2> QED
    BY <2>1, <2>2, StageMaps
<1> QED
  BY <1>1, <1>2 DEF Job

\* So are those of drive.
LEMMA DriveMaps ==
    ASSUME TypeOK, StageInv, RequestInv, NEW r \in Requests, Drive(r)
    PROVE  [Chain!Next]_(Chain!chainVars)
<1>1. Last(r) = "unset"
  BY DEF Drive, DriveCall, DriveReturn, DeadlineRaises, DeadlineSwallowed,
         RequestInv, ChainInv, Alive
<1>2. CASE \E v \in DriveVerdicts : Settle(r, v)
  <2>1. UNCHANGED <<task, answer>> /\ \E v \in Verdicts \ {"unset"} : Judged(r, v)
    BY <1>2 DEF Settle, axumVars, DriveVerdicts, Verdicts
  <2> QED
    BY <1>1, <2>1, StageMaps
<1>3. CASE ~\E v \in DriveVerdicts : Settle(r, v)
  <2>1. UNCHANGED <<task, answer, verdict>>
    BY <1>3 DEF Drive, DriveCall, DriveReturn, DeadlineRaises, DeadlineSwallowed,
                DriveVerdicts, axumVars, runVars
  <2> QED
    BY <2>1 DEF Chain!chainVars
<1> QED
  BY <1>2, <1>3

LEMMA ChainInitMaps == Init => Chain!Init
<1> SUFFICES ASSUME Init PROVE Chain!Init
  OBVIOUS
<1>1. {r \in Requests : task[r] \notin {"answered", "gone"}} = Requests
  BY DEF Init
<1> QED
  BY <1>1 DEF Init, Chain!Init, Chain!NoAnswer, Chain!Stages, Stages, Nothing, Said

LEMMA ChainNextMaps ==
    TypeOK /\ PlaceInv /\ StageInv /\ RequestInv /\ [Next]_vars
        => [Chain!Next]_(Chain!chainVars)
<1> SUFFICES ASSUME TypeOK, PlaceInv, StageInv, RequestInv, [Next]_vars
             PROVE  [Chain!Next]_(Chain!chainVars)
  OBVIOUS
<1>1. CASE UNCHANGED vars
  BY <1>1 DEF vars, axumVars, runVars, Chain!chainVars
<1> QED
  BY <1>1, AxumMaps, JobMaps, DriveMaps DEF Next, Quiet

\* Guard, executor, hand-off and coroutine together keep the promise that one
\* request runs its stages in order, each once, and is answered once, with the
\* decision of a stage or with an answer of the server's own in its place.
THEOREM DispatchImplementsChain == Spec => ChainSpec
BY RequestsHold, ChainInitMaps, ChainNextMaps, PTL DEF Spec, ChainSpec, Chain!Spec
=============================================================================
