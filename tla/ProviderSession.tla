--------------------------- MODULE ProviderSession --------------------------
(***************************************************************************)
(* One provider handle: the child process, the framed pipes to it, the     *)
(* one exchange at a time that mutex_ allows, and stop().                  *)
(*                                                                         *)
(* The child answers late, in part, wrongly or not at all, dies at any     *)
(* time, and may leave behind processes it has started.                    *)
(***************************************************************************)
EXTENDS Integers, Sequences, FiniteSets, SequencesExt

CONSTANTS Starter,      \* the thread in start()
          Routers,      \* threads that call call() (CallRouter)
          Readers,      \* threads that call read_signals() (the pollers)
          Probers,      \* threads that call try_get_health()
          Nobody,
          MaxRequests,  \* bound: requests numbered
          MaxFaults,    \* bound: answers a correct provider would not give
          MaxStops      \* bound: calls of stop()

Users == Routers \cup Readers \cup Probers
Threads == Users \cup {Starter}

ASSUME SessionAssumption ==
    /\ Starter \notin Users /\ Nobody \notin Threads
    /\ {MaxRequests, MaxFaults, MaxStops} \subseteq Nat

VARIABLES startStep,  \* how far start() is
          healthy,    \* session_healthy_
          holder,     \* who has mutex_
          step, req,  \* of each thread: where it is, its request's number
          nextId,     \* next_request_id_
          own,        \* the status of each thread's exchange
          failed,     \* whether it failed
          reported,   \* the status its caller goes by
          lastStatus, \* last_status_code_
          taken,      \* the request whose answer each thread was given
          asked,      \* requests written and not yet answered
          answers,    \* frames in the pipe from the child
          half,       \* the last of them is not complete
          child, helper,  \* the child; whether a process it started runs
          group,      \* pgid: the process group is tracked
          stopStep, stopped,  \* where stop() is, what it has found and then returned
          faults, stops

procVars == <<child, helper, group>>
pipeVars == <<asked, answers, half>>
exchVars == <<step, req, nextId, own, failed, reported, lastStatus, taken>>
stopVars == <<stopStep, stopped, stops>>
vars == <<startStep, healthy, holder, step, req, nextId, own, failed, reported, lastStatus, taken,
          asked, answers, half, child, helper, group, stopStep, stopped, faults, stops>>

\* A response: its request, and whether it is a success, a refusal, or lacks the field
\* its request calls for.  Garbage does not parse, or its length is over the limit.
Bodies == {"ok", "refused", "bodyless"}
Garbage == [id |-> 0, body |-> "garbage"]
Frames == [id : 1..MaxRequests, body : Bodies] \cup {Garbage}

Statuses == {"OK", "INVALID_ARGUMENT", "UNAVAILABLE", "DEADLINE_EXCEEDED", "INTERNAL"}

TypeOK ==
    /\ startStep \in {"spawn", "hello", "ready", "up", "failed"}
    /\ healthy \in BOOLEAN
    /\ holder \in Threads \cup {Nobody, "stop"}
    /\ step \in [Threads -> {"idle", "waiting", "reading", "returned"}]
    /\ req \in [Threads -> 0..MaxRequests] /\ nextId \in 1..(MaxRequests + 1)
    /\ {own, reported} \subseteq [Threads -> Statuses] /\ lastStatus \in Statuses
    /\ failed \in [Threads -> BOOLEAN]
    /\ taken \in [Threads -> 0..MaxRequests]
    /\ asked \in Seq(1..MaxRequests) /\ answers \in Seq(Frames) /\ half \in BOOLEAN
    /\ child \in {"none", "running", "dead"} /\ {helper, group} \subseteq BOOLEAN
    /\ stopStep \in {"none", "eof", "killed", "group", "swept", "done"} /\ stopped \in BOOLEAN
    /\ \A t \in Threads : step[t] = "reading" <=> holder = t
    /\ stopStep \in {"none", "done"} <=> holder # "stop"

Init ==
    /\ startStep = "spawn"
    /\ healthy = FALSE
    /\ holder = Nobody
    /\ step = [t \in Threads |-> "idle"]
    /\ req = [t \in Threads |-> 0] /\ taken = [t \in Threads |-> 0]
    /\ nextId = 1
    /\ own = [t \in Threads |-> "OK"] /\ reported = [t \in Threads |-> "OK"]
    /\ failed = [t \in Threads |-> FALSE]
    /\ lastStatus = "OK"
    /\ asked = <<>> /\ answers = <<>> /\ half = FALSE
    /\ child = "none" /\ helper = FALSE /\ group = FALSE
    /\ stopStep = "none" /\ stopped = FALSE /\ stops = 0
    /\ faults = 0

-----------------------------------------------------------------------------
(* ProviderHandle::start.  The handle is published once it is up.          *)

\* ProviderProcess::spawn: no executable, pipe or fork, or a child in its own group.
Spawn ==
    /\ startStep = "spawn"
    /\ \/ startStep' = "failed" /\ UNCHANGED <<healthy, procVars>>
       \/ /\ startStep' = "hello"
          /\ child' = "running" /\ group' = TRUE /\ UNCHANGED helper
          /\ healthy' = TRUE
    /\ UNCHANGED <<holder, exchVars, pipeVars, stopVars, faults>>

\* The locals of an exchange go with it.
Forget(t) ==
    /\ step' = [step EXCEPT ![t] = "idle"]
    /\ req' = [req EXCEPT ![t] = 0] /\ taken' = [taken EXCEPT ![t] = 0]
    /\ own' = [own EXCEPT ![t] = "OK"] /\ failed' = [failed EXCEPT ![t] = FALSE]

\* hello(), then wait_ready() if the provider says it has it; a failure ends the session.
\* A version other than v1 is a failure like any other.
Handshake ==
    /\ startStep \in {"hello", "ready"} /\ step[Starter] = "returned"
    /\ Forget(Starter)
    /\ UNCHANGED <<nextId, reported, lastStatus>>
    /\ \/ failed[Starter] /\ startStep' = "failed" /\ healthy' = FALSE
       \/ ~failed[Starter] /\ startStep = "hello" /\ startStep' = "failed" /\ healthy' = FALSE
       \/ ~failed[Starter] /\ startStep = "hello" /\ startStep' = "ready" /\ UNCHANGED healthy
       \/ ~failed[Starter] /\ startStep' = "up" /\ UNCHANGED healthy
    /\ UNCHANGED <<holder, pipeVars, procVars, stopVars, faults>>

-----------------------------------------------------------------------------
(* send_request and wait_for_response.                                     *)

MayAsk(t) == IF t = Starter THEN startStep \in {"hello", "ready"} ELSE startStep = "up"

\* The number is taken before the lock.
Ask(t) ==
    /\ step[t] = "idle" /\ MayAsk(t) /\ nextId <= MaxRequests
    /\ nextId' = nextId + 1
    /\ req' = [req EXCEPT ![t] = nextId]
    /\ step' = [step EXCEPT ![t] = "waiting"]
    /\ UNCHANGED <<startStep, healthy, holder, own, failed, reported, lastStatus, taken, pipeVars, procVars, stopVars, faults>>

\* The end of an exchange, under the lock: its status is also the shared last status.
Return(t, status, fails) ==
    /\ own' = [own EXCEPT ![t] = status]
    /\ failed' = [failed EXCEPT ![t] = fails]
    /\ lastStatus' = status
    /\ step' = [step EXCEPT ![t] = "returned"]
    /\ holder' = Nobody
    /\ UNCHANGED <<req, nextId, reported>>

\* An exchange that leaves the session in doubt ends it.
Break(t, status) == healthy' = FALSE /\ Return(t, status, TRUE) /\ UNCHANGED taken

\* The checks under the lock, and write_frame, which may fail or take too long.
Enter(t) ==
    /\ step[t] = "waiting" /\ holder = Nobody
    /\ \/ /\ ~healthy
          /\ Return(t, "UNAVAILABLE", TRUE)
          /\ UNCHANGED <<healthy, asked, taken>>
       \/ /\ healthy
          /\ Break(t, "UNAVAILABLE")
          /\ UNCHANGED asked
       \/ /\ healthy /\ child = "running"
          /\ holder' = t
          /\ step' = [step EXCEPT ![t] = "reading"]
          /\ asked' = Append(asked, req[t])
          /\ UNCHANGED <<healthy, req, nextId, own, failed, reported, lastStatus, taken>>
    /\ UNCHANGED <<startStep, answers, half, procVars, stopVars, faults>>

\* try_get_health gives up on a lock that stays busy: nothing sent, nothing shared.
TooBusy(t) ==
    /\ t \in Probers /\ step[t] = "waiting" /\ holder # Nobody
    /\ own' = [own EXCEPT ![t] = "DEADLINE_EXCEEDED"]
    /\ failed' = [failed EXCEPT ![t] = TRUE]
    /\ step' = [step EXCEPT ![t] = "returned"]
    /\ UNCHANGED <<startStep, healthy, holder, req, nextId, reported, lastStatus, taken, pipeVars, procVars, stopVars, faults>>

\* An answer is taken if it parses and is to this request.
Accepts(t, frame) == frame # Garbage /\ frame.id = req[t]

NoWholeFrame == answers = <<>> \/ (half /\ Len(answers) = 1)

ReadAnswer(t) ==
    /\ step[t] = "reading" /\ ~NoWholeFrame
    /\ answers' = Tail(answers)
    /\ LET frame == Head(answers) IN
       \/ ~Accepts(t, frame) /\ Break(t, "INTERNAL")
       \/ /\ Accepts(t, frame)
          /\ Return(t, IF frame.body = "refused" THEN "INVALID_ARGUMENT" ELSE "OK", frame.body # "ok")
          /\ taken' = [taken EXCEPT ![t] = frame.id]
          /\ UNCHANGED healthy
    /\ UNCHANGED <<startStep, asked, half, procVars, stopVars, faults>>

\* A broken timeout: the session is kept.
TimedOutStaysHealthy(t) ==
    /\ step[t] = "reading"
    /\ Return(t, "DEADLINE_EXCEEDED", TRUE)
    /\ UNCHANGED <<startStep, healthy, taken, pipeVars, procVars, stopVars, faults>>


\* The timeout, before a frame begins or inside one; it may beat an answer that is there.
TimedOut(t) ==
    /\ step[t] = "reading"
    /\ Break(t, IF answers # <<>> THEN "UNAVAILABLE" ELSE "DEADLINE_EXCEEDED")
    /\ UNCHANGED <<startStep, pipeVars, procVars, stopVars, faults>>

\* End of file, or the child is found dead.
ChildGone(t) ==
    /\ step[t] = "reading" /\ child # "running" /\ NoWholeFrame
    /\ Break(t, "UNAVAILABLE")
    /\ UNCHANGED <<startStep, pipeVars, procVars, stopVars, faults>>

Exchange(t) == Enter(t) \/ ReadAnswer(t) \/ TimedOut(t) \/ ChildGone(t)


\* What the caller goes by: a read has its own status, INTERNAL for a missing field; a
\* call's caller asks for the last status, after the lock was released.
StatusFor(t) ==
    CASE t \in Routers -> lastStatus
      [] t \in Readers /\ failed[t] /\ own[t] = "OK" -> "INTERNAL"
      [] OTHER -> own[t]

Report(t) ==
    /\ t \in Users /\ step[t] = "returned"
    /\ reported' = [reported EXCEPT ![t] = StatusFor(t)]
    /\ Forget(t)
    /\ UNCHANGED <<startStep, healthy, holder, nextId, lastStatus, pipeVars, procVars, stopVars, faults>>

-----------------------------------------------------------------------------
(* The provider.                                                           *)

childKeeps == <<startStep, healthy, holder, exchVars, group, stopVars>>

\* It answers its oldest request, at once or late, whole or in part.
Answer ==
    /\ child = "running" /\ asked # <<>> /\ ~half
    /\ asked' = Tail(asked)
    /\ \E body \in Bodies : answers' = Append(answers, [id |-> Head(asked), body |-> body])
    /\ half' \in BOOLEAN
    /\ UNCHANGED <<childKeeps, child, helper, faults>>

FinishAnswer ==
    /\ child = "running" /\ half
    /\ half' = FALSE
    /\ UNCHANGED <<childKeeps, asked, answers, child, helper, faults>>

\* It repeats an earlier answer or writes something else.
AnswerWrongly ==
    /\ child = "running" /\ faults < MaxFaults /\ ~half /\ nextId > 1 /\ stopStep # "done"
    /\ faults' = faults + 1
    /\ \/ answers' = Append(answers, Garbage)
       \/ \E i \in 1..(nextId - 1) : answers' = Append(answers, [id |-> i, body |-> "ok"])
    /\ UNCHANGED <<childKeeps, asked, half, child, helper>>

StartHelper ==
    /\ child = "running" /\ ~helper /\ stopStep \in {"none", "eof"}
    /\ helper' = TRUE
    /\ UNCHANGED <<childKeeps, pipeVars, child, faults>>

\* Either exits by itself, on the end of its input, or of a signal that took its time.
Exit ==
    /\ \/ child = "running" /\ child' = "dead" /\ UNCHANGED helper
       \/ helper /\ helper' = FALSE /\ UNCHANGED child
    /\ UNCHANGED <<childKeeps, pipeVars, faults>>

-----------------------------------------------------------------------------
(* ProviderHandle::stop and ProviderProcess::shutdown, which the           *)
(* destructor also calls.                                                  *)

stopKeeps == <<startStep, exchVars, pipeVars, faults>>

\* Under mutex_: the flag, the end of the child's input if it runs.
Stop ==
    /\ startStep \in {"up", "failed"} /\ holder = Nobody /\ stops < MaxStops
    /\ holder' = "stop" /\ stops' = stops + 1
    /\ healthy' = FALSE
    /\ stopStep' = IF child = "running" THEN "eof" ELSE "group"
    /\ stopped' = TRUE
    /\ UNCHANGED <<stopKeeps, procVars>>

\* force_terminate: SIGKILL to the group; a process stuck in the kernel outlives the wait.
Kill ==
    /\ child' \in {child, IF child = "running" THEN "dead" ELSE child}
    /\ helper' \in {helper, FALSE}

\* It exits in time, or is killed.
WaitForExit ==
    /\ stopStep = "eof"
    /\ \/ child = "dead" /\ stopStep' = "group" /\ UNCHANGED <<child, helper>>
       \/ child = "running" /\ stopStep' = "killed" /\ Kill
    /\ UNCHANGED <<stopKeeps, healthy, holder, stopped, stops, group>>

WaitForKilled ==
    /\ stopStep = "killed"
    /\ stopStep' = "group"
    /\ stopped' = (child # "running")
    /\ UNCHANGED <<stopKeeps, healthy, holder, stops, procVars>>

\* A broken group_alive: a child that exited is taken for the whole group.
GroupAliveChildOnly == group /\ child = "running"

\* group_alive: zombies do not count.
GroupAlive == group /\ (child = "running" \/ helper)

\* What the child left behind is killed too.
Sweep ==
    /\ stopStep = "group"
    /\ stopStep' = "swept"
    /\ IF GroupAlive THEN Kill ELSE UNCHANGED <<child, helper>>
    /\ UNCHANGED <<stopKeeps, healthy, holder, stopped, stops, group>>

\* What has not exited stays tracked.
GroupKept == GroupAlive

\* The last wait, the pipes closed, and the answer.
StopReturns ==
    /\ stopStep = "swept"
    /\ stopStep' = "done"
    /\ stopped' = (stopped /\ ~GroupAlive)
    /\ group' = GroupKept
    /\ holder' = Nobody
    /\ asked' = <<>> /\ answers' = <<>> /\ half' = FALSE
    /\ UNCHANGED <<startStep, exchVars, faults, healthy, stops, child, helper>>

Stopping == WaitForExit \/ WaitForKilled \/ Sweep \/ StopReturns

-----------------------------------------------------------------------------
Next ==
    \/ Spawn \/ Handshake
    \/ \E t \in Threads : Ask(t) \/ Exchange(t) \/ TooBusy(t) \/ Report(t)
    \/ Answer \/ FinishAnswer \/ AnswerWrongly \/ StartHelper \/ Exit
    \/ Stop \/ Stopping

Spec == Init /\ [][Next]_vars

\* A thread inside an exchange or inside stop() goes on: every wait has a timeout.
Fairness == WF_vars(Stopping) /\ \A t \in Threads : WF_vars(ReadAnswer(t) \/ TimedOut(t) \/ ChildGone(t))

FairSpec == Spec /\ Fairness

-----------------------------------------------------------------------------
\* Between exchanges a healthy session with a provider that did not misbehave owes
\* nothing: no request is unanswered and no answer is left for a later request to find
\* (every timeout and read error in send_request ends the session).
SessionInStep ==
    healthy /\ holder = Nobody /\ faults = 0 => asked = <<>> /\ answers = <<>> /\ ~half

\* No thread is given the answer to another's request, late, repeated or misnumbered.
AnswerIsOwn == \A t \in Threads : step[t] = "returned" /\ taken[t] # 0 /\ ~failed[t] => taken[t] = req[t]


\* When stop() says the provider has exited, nothing of it runs, nor will.
StoppedMeansGone == stopped /\ stopStep = "done" => child # "running" /\ ~helper

\* What still runs can still be killed by a later stop().
SurvivorsTracked == child = "running" \/ helper => group

\* Requests and answers stay paired (provider_handle.cpp send_request,
\* wait_for_response), and every variable has its type.
SessionInv == TypeOK /\ SessionInStep /\ AnswerIsOwn

\* What stop() reports of the processes is so, and what it could not end is not
\* forgotten (provider_process.cpp shutdown).
ProcessInv == StoppedMeansGone /\ SurvivorsTracked


=============================================================================
