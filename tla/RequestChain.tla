----------------------------- MODULE RequestChain -----------------------------
(***************************************************************************)
(* What siphon-http promises of one request, with no word of threads,      *)
(* queues or coroutines: the script's stages run in order and each at most *)
(* once, a stage runs only when every middleware before it returned None,  *)
(* and the client is answered at most once, with what the deciding stage   *)
(* made or with an answer of the server's own that no decision preceded.   *)
(* RequestDispatch implements it.                                          *)
(***************************************************************************)
EXTENDS Naturals

CONSTANTS Requests, Handler

Stages == 1..Handler

VARIABLES
    waiting,    \* requests whose client is owed an answer
    verdict,    \* what each stage of each request returned, "unset" before
    answer      \* the answer, or the record that stands for none

chainVars == <<waiting, verdict, answer>>

NoAnswer == [what |-> "none", stage |-> 0]

Init ==
    /\ waiting = Requests
    /\ verdict = [r \in Requests |-> [i \in Stages |-> "unset"]]
    /\ answer = [r \in Requests |-> NoAnswer]

\* Stage i has the last word on the request.
Decides(r, i) ==
    \/ verdict[r][i] \in {"response", "other", "raised"}
    \/ verdict[r][i] = "none" /\ i = Handler

Untouched(r) == \A i \in Stages : verdict[r][i] = "unset"
Undecided(r) == \A i \in Stages : ~Decides(r, i)

\* The reply a deciding stage makes.
Wording(v) == CASE v = "response" -> "response"
                [] v \in {"none", "other"} -> "not_response"
                [] OTHER -> "raised"

\* The next stage of the chain runs to its end.
StageEnds(r, i, v) ==
    /\ verdict[r][i] = "unset"
    /\ \A j \in 1..(i - 1) : verdict[r][j] = "none"
    /\ verdict' = [verdict EXCEPT ![r][i] = v]
    /\ UNCHANGED <<waiting, answer>>

Answer(r, what, i) ==
    /\ r \in waiting
    /\ waiting' = waiting \ {r}
    /\ answer' = [answer EXCEPT ![r] = [what |-> what, stage |-> i]]
    /\ UNCHANGED verdict

\* The script decided.
Deliver(r, i) == Decides(r, i) /\ Answer(r, Wording(verdict[r][i]), i)

\* The server answers before any stage ran.
Reject(r) ==
    /\ Untouched(r)
    /\ \E what \in {"refused", "too_large", "not_found", "not_allowed", "bad_body"} :
          Answer(r, what, 0)

\* The server could not run the stages to a decision.
Fail(r) ==
    /\ Undecided(r)
    /\ \E what \in {"internal", "no_response"} : Answer(r, what, 0)

\* Time is up, whatever the stages are at.
Expire(r) == Answer(r, "timeout", 0)

\* The client leaves without an answer.
Abandon(r) ==
    /\ r \in waiting
    /\ waiting' = waiting \ {r}
    /\ UNCHANGED <<verdict, answer>>

Next == \E r \in Requests :
    \/ \E i \in Stages :
          \/ Deliver(r, i)
          \/ \E v \in {"none", "response", "other", "raised", "escaped", "panicked"} :
                StageEnds(r, i, v)
    \/ Reject(r) \/ Fail(r) \/ Expire(r) \/ Abandon(r)

Spec == Init /\ [][Next]_chainVars
=============================================================================
