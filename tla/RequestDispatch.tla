--------------------------- MODULE RequestDispatch ---------------------------
(***************************************************************************)
(* One HTTP request through siphon-http, from the admission guard to the   *)
(* response: runtime.rs (dispatch and the router's layers), admission.rs   *)
(* (guard) and dispatch.rs (answer, start, hand_off, drive).               *)
(*                                                                         *)
(* Three actors serve a request and none waits for the others while it     *)
(* holds a thread:                                                         *)
(*   - the axum task (task): guard, body limit, route gate, body, then it  *)
(*     submits a job and awaits channels; the router's timeout and the     *)
(*     client's disconnect end it at any await;                            *)
(*   - the executor job (job): runs stages until one decides or one whose  *)
(*     coroutine can suspend takes over;                                   *)
(*   - the coroutine (co): `drive` on an asyncio pool loop, from that      *)
(*     stage on, bounded by the pool's own timeout.                        *)
(* The executor and the pool are siphon's: they are modelled from how      *)
(* dispatch.rs uses them.                                                  *)
(***************************************************************************)
EXTENDS Naturals, Sequences, FiniteSets

CONSTANTS
    Requests,       \* the requests of one run, each sent once
    Middlewares,    \* how many http.middleware the script registered
    AdmitMax,       \* the admission guard's limit of requests in progress
    Workers,        \* threads of the Python executor
    QueueCap        \* jobs its queue holds

ASSUME RequestsAssumption == IsFiniteSet(Requests)
ASSUME MiddlewaresAssumption == Middlewares \in Nat
ASSUME AdmitMaxAssumption == AdmitMax \in Nat
ASSUME WorkersAssumption == Workers \in Nat \ {0}
ASSUME QueueCapAssumption == QueueCap \in Nat

Handler == Middlewares + 1          \* the route handler is the last stage
Stages  == 1..Handler

\* How a stage runs: a plain def, an async def whose coroutine provably
\* cannot suspend, an async def that can.
Kinds == {"sync", "inline", "suspend"}

Bodies == {"whole", "declared_over", "chunked_over", "broken"}

\* What became of a stage. "escaped" is a BaseException that is no Exception
\* (a cancellation) out of a pool coroutine, "panicked" a Rust panic.
Verdicts == {"unset", "none", "response", "other", "raised", "escaped", "panicked"}

Statuses == {"none", "pending", "panicked", "open", "dropped",
             "refused", "too_large", "not_found", "not_allowed", "bad_body",
             "internal", "timeout", "no_response",
             "response", "not_response", "raised"}

\* An answer names the stage it comes from, 0 when the server made it up.
Said(what, stage) == [what |-> what, stage |-> stage]
Answers == [what : Statuses, stage : 0..Handler]
Nothing == Said("none", 0)

VARIABLES
    kind,       \* the stages spawn_with snapshotted, fixed at startup
    pool,       \* whether the process has an asyncio pool, fixed as well
    body,       \* what the client sends after the head
    task,       \* the axum task of each request
    answer,     \* what the client was answered
    busy,       \* the guard's counter
    stamped,    \* whether Admitted::respond ran for the request
    queue,      \* the executor's queue
    job,        \* the executor job of each request
    at,         \* the stage the job or the coroutine is at
    outcome,    \* what the job handed back to the task
    calls,      \* how often each stage's function was called (history)
    verdict,    \* what each stage returned (history)
    co,         \* the drive coroutine of each request
    deadline,   \* the coroutine's asyncio.timeout: not set, set, or fired
    sink        \* the ResponseSink and its channel

setup    == <<kind, pool>>
axumVars == <<body, task, answer, busy, stamped>>
jobVars  == <<queue, job, outcome>>
coVars   == <<co, deadline, sink>>
runVars  == <<at, calls, verdict>>
vars     == <<setup, axumVars, jobVars, coVars, runVars>>

\* The request holds an admission value: its response is not built yet.
Inside(r)  == task[r] \in {"admitted", "reading", "job", "reply"}
Running(r) == job[r] = "running"

TypeOK ==
    /\ kind \in [Stages -> Kinds]
    /\ pool \in BOOLEAN
    /\ body \in [Requests -> Bodies]
    /\ task \in [Requests -> {"new", "refusing", "admitted", "reading",
                              "job", "reply", "answered", "gone"}]
    /\ answer \in [Requests -> Answers]
    /\ busy \in Nat
    /\ stamped \in [Requests -> BOOLEAN]
    /\ queue \in Seq(Requests)
    /\ job \in [Requests -> {"none", "queued", "running", "done"}]
    /\ at \in [Requests -> Stages]
    /\ outcome \in [Requests -> Answers]
    /\ calls \in [Requests -> [Stages -> Nat]]
    /\ verdict \in [Requests -> [Stages -> Verdicts]]
    /\ co \in [Requests -> {"none", "call", "await", "ended"}]
    /\ deadline \in [Requests -> {"off", "set", "fired"}]
    /\ sink \in [Requests -> Answers]

Init ==
    /\ kind \in [Stages -> Kinds]
    /\ pool \in BOOLEAN
    /\ body = [r \in Requests |-> "whole"]
    /\ task = [r \in Requests |-> "new"]
    /\ answer = [r \in Requests |-> Nothing]
    /\ busy = 0
    /\ stamped = [r \in Requests |-> FALSE]
    /\ queue = <<>>
    /\ job = [r \in Requests |-> "none"]
    /\ at = [r \in Requests |-> 1]
    /\ outcome = [r \in Requests |-> Nothing]
    /\ calls = [r \in Requests |-> [i \in Stages |-> 0]]
    /\ verdict = [r \in Requests |-> [i \in Stages |-> "unset"]]
    /\ co = [r \in Requests |-> "none"]
    /\ deadline = [r \in Requests |-> "off"]
    /\ sink = [r \in Requests |-> Nothing]

-----------------------------------------------------------------------------
(* The axum task: guard, layers, dispatch.                                  *)

\* The response leaves through the guard: Admitted::respond sees it, then
\* the admission value is dropped.
Finish(r, what) ==
    /\ task' = [task EXCEPT ![r] = "answered"]
    /\ answer' = [answer EXCEPT ![r] = what]
    /\ stamped' = [stamped EXCEPT ![r] = TRUE]
    /\ busy' = busy - 1
    /\ UNCHANGED <<setup, body, jobVars, coVars, runVars>>

\* The guard counts the request first and looks at the count it found.
Admit(r) ==
    /\ task[r] = "new"
    /\ busy < AdmitMax
    /\ busy' = busy + 1
    /\ \E b \in Bodies : body' = [body EXCEPT ![r] = b]
    /\ task' = [task EXCEPT ![r] = "admitted"]
    /\ UNCHANGED <<setup, answer, stamped, jobVars, coVars, runVars>>

Overflow(r) ==
    /\ task[r] = "new"
    /\ busy >= AdmitMax
    /\ busy' = busy + 1
    /\ task' = [task EXCEPT ![r] = "refusing"]
    /\ UNCHANGED <<setup, body, answer, stamped, jobVars, coVars, runVars>>

Refuse(r) ==
    /\ task[r] = "refusing"
    /\ busy' = busy - 1
    /\ task' = [task EXCEPT ![r] = "answered"]
    /\ answer' = [answer EXCEPT ![r] = Said("refused", 0)]
    /\ UNCHANGED <<setup, body, stamped, jobVars, coVars, runVars>>

\* RequestBodyLimitLayer refuses a Content-Length over the cap by itself.
RejectLength(r) ==
    /\ task[r] = "admitted"
    /\ body[r] = "declared_over"
    /\ Finish(r, Said("too_large", 0))

\* The route gate finds no handler for the listener or for the method.
RefuseRoute(r) ==
    /\ task[r] = "admitted"
    /\ body[r] # "declared_over"
    /\ \E what \in {"not_found", "not_allowed"} : Finish(r, Said(what, 0))

RouteFound(r) ==
    /\ task[r] = "admitted"
    /\ body[r] # "declared_over"
    /\ task' = [task EXCEPT ![r] = "reading"]
    /\ UNCHANGED <<setup, body, answer, busy, stamped, jobVars, coVars, runVars>>

\* collect_body fails: the transport broke, or a body without a length ran
\* over the cap.
BodyFails(r) ==
    /\ task[r] = "reading"
    /\ body[r] \in {"chunked_over", "broken"}
    /\ Finish(r, Said("bad_body", 0))

Submit(r) ==
    /\ task[r] = "reading"
    /\ body[r] = "whole"
    /\ Len(queue) < QueueCap
    /\ queue' = Append(queue, r)
    /\ job' = [job EXCEPT ![r] = "queued"]
    /\ task' = [task EXCEPT ![r] = "job"]
    /\ UNCHANGED <<setup, body, answer, busy, stamped, outcome, coVars, runVars>>

QueueFull(r) ==
    /\ task[r] = "reading"
    /\ body[r] = "whole"
    /\ Len(queue) >= QueueCap
    /\ Finish(r, Said("internal", 0))

\* try_run resolves: the job's reply, the channel of its coroutine, or an
\* error when the job panicked.
TakeOutcome(r) ==
    /\ task[r] = "job"
    /\ job[r] = "done"
    /\ \/ /\ outcome[r].what = "pending"
          /\ task' = [task EXCEPT ![r] = "reply"]
          /\ UNCHANGED <<setup, body, answer, busy, stamped, jobVars, coVars, runVars>>
       \/ /\ outcome[r].what = "panicked"
          /\ Finish(r, Said("internal", 0))
       \/ /\ outcome[r].what \notin {"pending", "panicked"}
          /\ Finish(r, outcome[r])

\* The coroutine's channel resolves, or its sender is gone.
TakeReply(r) ==
    /\ task[r] = "reply"
    /\ \/ /\ sink[r].what = "dropped"
          /\ Finish(r, Said("no_response", 0))
       \/ /\ sink[r].what \notin {"open", "dropped"}
          /\ Finish(r, sink[r])

\* Mutant: the timeout covers the job and not the wait for the coroutine.
RequestTimeout_JobOnly(r) ==
    /\ task[r] \in {"reading", "job"}
    /\ Finish(r, Said("timeout", 0))

\* The router's TimeoutLayer answers 504 and drops the task, at any await.
RequestTimeout(r) ==
    /\ task[r] \in {"reading", "job", "reply"}
    /\ Finish(r, Said("timeout", 0))

\* Mutant: a request whose client left stays counted.
Disconnect_StaysCounted(r) ==
    /\ task[r] \in {"reading", "job", "reply"}
    /\ task' = [task EXCEPT ![r] = "gone"]
    /\ UNCHANGED <<setup, body, answer, busy, stamped, jobVars, coVars, runVars>>

\* The client went away: hyper drops the task, and the guard's value with it.
Disconnect(r) ==
    /\ task[r] \in {"reading", "job", "reply"}
    /\ task' = [task EXCEPT ![r] = "gone"]
    /\ busy' = busy - 1
    /\ UNCHANGED <<setup, body, answer, stamped, jobVars, coVars, runVars>>

-----------------------------------------------------------------------------
(* Stages, in the job and in the coroutine.                                 *)

\* Mutant: every reply is the handler's, as with a stale is_middleware.
Reply_AlwaysHandler(i, v) ==
    Said(CASE v = "response" -> "response"
           [] v \in {"none", "other"} -> "not_response"
           [] OTHER -> "raised", Handler)

\* stage_response and stage_raised: the reply to a stage that decided.
Reply(i, v) ==
    Said(CASE v = "response" -> "response"
           [] v \in {"none", "other"} -> "not_response"
           [] OTHER -> "raised", i)

\* Mutants: None goes on past the handler; any value but a Response goes on.
Continues_PastHandler(i, v) == v = "none"
Continues_UnlessResponse(i, v) == i < Handler /\ v \in {"none", "other"}

\* A middleware's None lets the request on; anything else decides.
Continues(i, v) == i < Handler /\ v = "none"

Called(r) == calls' = [calls EXCEPT ![r][at[r]] = @ + 1]
Judged(r, v) ==
    /\ verdict' = [verdict EXCEPT ![r][at[r]] = v]
    /\ at' = [at EXCEPT ![r] = IF Continues(@, v) THEN @ + 1 ELSE @]

-----------------------------------------------------------------------------
(* The executor job: start.                                                 *)

FreeWorker == Cardinality({r \in Requests : Running(r)}) < Workers

JobReturns(r, what) ==
    /\ job' = [job EXCEPT ![r] = "done"]
    /\ outcome' = [outcome EXCEPT ![r] = what]

Dequeue(r) ==
    /\ queue # <<>>
    /\ Head(queue) = r
    /\ FreeWorker
    /\ queue' = Tail(queue)

StartJob(r) ==
    /\ Dequeue(r)
    /\ job' = [job EXCEPT ![r] = "running"]
    /\ UNCHANGED <<setup, axumVars, outcome, coVars, runVars>>

\* The Python Request object cannot be made.
StartFails(r) ==
    /\ Dequeue(r)
    /\ JobReturns(r, Said("internal", 0))
    /\ UNCHANGED <<setup, axumVars, coVars, runVars>>

\* The job calls the stage it is at, unless that one takes the rest over.
RunStage(r) ==
    /\ Running(r)
    /\ co[r] = "none"
    /\ kind[at[r]] # "suspend"
    /\ Called(r)
    /\ \E v \in {"none", "response", "other", "raised"} :
          /\ Judged(r, v)
          /\ IF Continues(at[r], v)
             THEN UNCHANGED <<job, outcome>>
             ELSE JobReturns(r, Reply(at[r], v))
    /\ UNCHANGED <<setup, axumVars, queue, coVars>>

\* A panic under a stage unwinds the job; try_run reports an error.
JobPanics(r) ==
    /\ Running(r)
    /\ co[r] = "none"
    /\ kind[at[r]] # "suspend"
    /\ Called(r)
    /\ Judged(r, "panicked")
    /\ JobReturns(r, Said("panicked", 0))
    /\ UNCHANGED <<setup, axumVars, queue, coVars>>

\* The stage's function was called and its coroutine can suspend: `drive`
\* starts in state `start` under `timeout`; the job returns unless it is the
\* one that runs it.
TakeOver(r, start, timeout, returns) ==
    /\ Running(r)
    /\ co[r] = "none"
    /\ kind[at[r]] = "suspend"
    /\ Called(r)
    /\ co' = [co EXCEPT ![r] = start]
    /\ deadline' = [deadline EXCEPT ![r] = timeout]
    /\ sink' = [sink EXCEPT ![r] = Said("open", 0)]
    /\ IF returns
       THEN JobReturns(r, Said("pending", 0))
       ELSE UNCHANGED <<job, outcome>>
    /\ UNCHANGED <<setup, axumVars, queue, at, verdict>>

PoolTimeout == IF pool THEN "set" ELSE "off"

\* Mutants: drive calls the stage again; the job stays to run the coroutine
\* with a pool as well; it returns at once without a pool as well; the
\* coroutine gets no timeout.
HandOff_CallsAgain(r)  == TakeOver(r, "call", PoolTimeout, pool)
HandOff_OnTheThread(r) == TakeOver(r, "await", PoolTimeout, FALSE)
HandOff_AtOnce(r)      == TakeOver(r, "await", PoolTimeout, TRUE)
HandOff_Unbounded(r)   == TakeOver(r, "await", "off", pool)

\* The coroutine the stage returned goes to the pool and the job is done;
\* without a pool the job runs it to completion, with no timeout.
HandOff(r) == TakeOver(r, "await", PoolTimeout, pool)

\* Mutant: a coroutine the pool refused is not closed and still runs.
HandOffFails_StillRuns(r) ==
    /\ Running(r)
    /\ co[r] = "none"
    /\ kind[at[r]] = "suspend"
    /\ Called(r)
    /\ co' = [co EXCEPT ![r] = "await"]
    /\ sink' = [sink EXCEPT ![r] = Said("open", 0)]
    /\ JobReturns(r, Said("internal", 0))
    /\ UNCHANGED <<setup, axumVars, queue, deadline, at, verdict>>

\* The pool takes no coroutine: both are closed before they ran.
HandOffFails(r) ==
    /\ Running(r)
    /\ co[r] = "none"
    /\ kind[at[r]] = "suspend"
    /\ Called(r)
    /\ co' = [co EXCEPT ![r] = "ended"]
    /\ sink' = [sink EXCEPT ![r] = Said("dropped", 0)]
    /\ JobReturns(r, Said("internal", 0))
    /\ UNCHANGED <<setup, axumVars, queue, deadline, at, verdict>>

-----------------------------------------------------------------------------
(* The coroutine: drive and ResponseSink.                                   *)

\* The sink takes its sender once: a second delivery finds none.
Deliver(r, what) ==
    sink' = [sink EXCEPT ![r] = IF @.what = "open" THEN what ELSE @]

\* `drive` ends. Without a pool it ran inside the job, on the executor's
\* thread: the job returns now, with an error if an exception got out.
DriveEnds(r, v) ==
    /\ co' = [co EXCEPT ![r] = "ended"]
    /\ Deliver(r, IF v = "escaped" THEN Said("dropped", 0) ELSE Reply(at[r], v))
    /\ IF Running(r)
       THEN JobReturns(r, Said(IF v = "escaped" THEN "internal" ELSE "pending", 0))
       ELSE UNCHANGED <<job, outcome>>

\* The stage `drive` is at is done, with v.
Settle(r, v) ==
    /\ Judged(r, v)
    /\ IF Continues(at[r], v)
       THEN /\ co' = [co EXCEPT ![r] = "call"]
            /\ UNCHANGED <<job, outcome, sink>>
       ELSE DriveEnds(r, v)
    /\ UNCHANGED <<setup, axumVars, queue>>

DriveVerdicts == {"none", "response", "other", "raised", "escaped"}

\* `handler(request)`: a sync stage is done with that, an async one returns
\* the coroutine to await.
DriveCall(r) ==
    /\ co[r] = "call"
    /\ Called(r)
    /\ \/ /\ kind[at[r]] = "sync"
          /\ \E v \in DriveVerdicts : Settle(r, v)
       \/ /\ kind[at[r]] # "sync"
          /\ co' = [co EXCEPT ![r] = "await"]
          /\ UNCHANGED <<setup, axumVars, jobVars, sink, at, verdict>>
    /\ UNCHANGED deadline

\* The awaited stage ends.
DriveReturn(r) ==
    /\ co[r] = "await"
    /\ \E v \in DriveVerdicts : Settle(r, v)
    /\ UNCHANGED <<deadline, calls>>

\* asyncio.timeout fires while a stage is suspended: TimeoutError is raised
\* out of the stage.
DeadlineRaises(r) ==
    /\ co[r] = "await"
    /\ deadline[r] = "set"
    /\ kind[at[r]] = "suspend"
    /\ deadline' = [deadline EXCEPT ![r] = "fired"]
    /\ Settle(r, "raised")
    /\ UNCHANGED calls

\* The stage swallows the cancellation and goes on: the timeout is spent.
DeadlineSwallowed(r) ==
    /\ co[r] = "await"
    /\ deadline[r] = "set"
    /\ kind[at[r]] = "suspend"
    /\ deadline' = [deadline EXCEPT ![r] = "fired"]
    /\ UNCHANGED <<setup, axumVars, jobVars, runVars, co, sink>>

-----------------------------------------------------------------------------
\* Every request is over and nothing works for one any more.
Quiet ==
    /\ \A r \in Requests : /\ task[r] \in {"answered", "gone"}
                           /\ job[r] \in {"none", "done"}
                           /\ co[r] \in {"none", "ended"}
    /\ UNCHANGED vars

Axum(r) ==
    \/ Admit(r) \/ Overflow(r) \/ Refuse(r)
    \/ RejectLength(r) \/ RefuseRoute(r) \/ RouteFound(r)
    \/ BodyFails(r) \/ Submit(r) \/ QueueFull(r)
    \/ TakeOutcome(r) \/ TakeReply(r)
    \/ RequestTimeout(r) \/ Disconnect(r)

Job(r) ==
    \/ StartJob(r) \/ StartFails(r) \/ RunStage(r) \/ JobPanics(r)
    \/ HandOff(r) \/ HandOffFails(r)

Drive(r) ==
    \/ DriveCall(r) \/ DriveReturn(r)
    \/ DeadlineRaises(r) \/ DeadlineSwallowed(r)

Next == (\E r \in Requests : Axum(r) \/ Job(r) \/ Drive(r)) \/ Quiet

Spec == Init /\ [][Next]_vars
-----------------------------------------------------------------------------
(* Fairness.                                                                *)

\* What tokio and hyper do by themselves: a ready task is polled, a timer
\* fires. Nothing is assumed of Python.
AxumFairness == \A r \in Requests :
    /\ WF_vars(Refuse(r))
    /\ WF_vars(RejectLength(r) \/ RefuseRoute(r) \/ RouteFound(r))
    /\ WF_vars(RequestTimeout(r))

\* Executor threads take jobs, the loops run ready coroutines and their
\* timers, and script code that cannot suspend returns. A coroutine that can
\* suspend may stay suspended for ever.
PythonFairness == \A r \in Requests :
    /\ WF_vars(StartJob(r) \/ StartFails(r))
    /\ WF_vars(RunStage(r) \/ JobPanics(r) \/ HandOff(r) \/ HandOffFails(r))
    /\ WF_vars(DriveCall(r))
    /\ WF_vars(DriveReturn(r) /\ kind[at[r]] # "suspend")
    /\ WF_vars(DeadlineRaises(r) \/ DeadlineSwallowed(r))

AxumSpec == Spec /\ AxumFairness

-----------------------------------------------------------------------------
(* Properties.                                                              *)

\* A stage is called only when every middleware before it returned None,
\* whoever calls it: the job's loop or, after the hand-off, drive's.
GuardOrder ==
    \A r \in Requests, i \in Stages :
        calls[r][i] > 0 => \A j \in 1..(i - 1) : verdict[r][j] = "none"

\* No stage of a request is called twice: the stage whose coroutine is handed
\* over is not called again by drive.
CalledOnce == \A r \in Requests, i \in Stages : calls[r][i] <= 1

Decides(i, v) == v \in {"response", "other", "raised"} \/ (v = "none" /\ i = Handler)

\* The client is answered what the deciding stage made, attributed to that
\* stage; and once a stage decided, nothing but the request timeout replaces
\* its decision.
AnswerIsTheDecision ==
    \A r \in Requests, i \in Stages : task[r] = "answered" =>
        /\ answer[r].stage = i =>
              Decides(i, verdict[r][i]) /\ answer[r] = Reply(i, verdict[r][i])
        /\ Decides(i, verdict[r][i]) =>
              answer[r] \in {Reply(i, verdict[r][i]), Said("timeout", 0)}

\* The guard's counter is the number of requests in progress and of those
\* being refused, on every way out of a request; and never more than the
\* limit are in progress.
AdmissionAccounting ==
    LET inside == {r \in Requests : Inside(r)}
    IN /\ busy = Cardinality(inside) + Cardinality({r \in Requests : task[r] = "refusing"})
       /\ Cardinality(inside) <= AdmitMax

\* Without a pool the job holds its executor thread exactly as long as the
\* coroutine it runs is alive: it neither returns before nor keeps the thread
\* after, and it tells the waiting task the coroutine's channel is settled.
JobSpansCoroutine ==
    \A r \in Requests : ~pool =>
        /\ co[r] \in {"call", "await"} => Running(r)
        /\ co[r] = "ended" => /\ job[r] = "done"
                              /\ outcome[r].what = "pending" =>
                                    sink[r].what \notin {"open", "dropped"}

\* The abstract promise: see RequestChain.
Chain == INSTANCE RequestChain
    WITH waiting <- {r \in Requests : task[r] \notin {"answered", "gone"}}
ChainSpec == Chain!Spec

\* A request that reached the guard ends within the request timeout, whatever
\* Python does: no stage, queue or coroutine can keep its client.
ClientAnswered ==
    \A r \in Requests :
        task[r] # "new" ~> task[r] \in {"answered", "gone"}

\* With a pool and fair Python, every job that was queued is run and gives its
\* thread back, even when no coroutine ever resumes.
JobsDrain ==
    PythonFairness =>
        \A r \in Requests : pool /\ job[r] = "queued" ~> job[r] = "done"

\* With a pool and fair Python, a coroutine outlives its request only until the
\* pool's timeout, unless a stage swallowed the cancellation that timeout sends.
CoroutineEnds ==
    PythonFairness =>
        \A r \in Requests :
            pool /\ co[r] \in {"call", "await"} ~> (co[r] = "ended" \/ deadline[r] = "fired")

\* admission.rs: respond is called "when the handler answered; not called when
\* [...] the handler timed out".
RespondMeansHandlerAnswered ==
    \A r \in Requests : stamped[r] => answer[r].what # "timeout"
=============================================================================
