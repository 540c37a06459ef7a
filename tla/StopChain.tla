----------------------------- MODULE StopChain ------------------------------
(***************************************************************************)
(* The emergency stop as the runtime sees it: the status signal and one    *)
(* device with a declared expectation, the polls that bring their readings *)
(* into the state cache, and the monitor the main loop runs over them.     *)
(*                                                                         *)
(* Time is kept as ages in ticks, no further than the code or a property   *)
(* tells them apart.  A read takes up to MaxDelay to be applied and the    *)
(* main loop comes round every LoopPeriod.                                 *)
(***************************************************************************)
EXTENDS Integers, FiniteSets

CONSTANTS Pollers,     \* threads that poll: the poll loop, a post-call poll
          Polls,       \* the signals each of them reads
          Stale,       \* stale_after_
          MaxDelay,    \* longest time from taking a reading to applying it
          LoopPeriod,  \* longest time between two rounds of the main loop
          Expects,     \* expectations tried
          Answers      \* readings tried of each: is the value a boolean, and the quality

Status == "status"
Device == "device"
Signals == {Status, Device}

Qualities == {"OK", "UNSPECIFIED", "STALE", "FAULT", "UNKNOWN"}

ASSUME StopChainAssumption ==
    /\ {Stale, MaxDelay, LoopPeriod} \subseteq Nat /\ Stale > 0
    /\ Expects \subseteq {"power_loss", "reports_estop"}
    /\ \A s \in Signals : Answers[s] \subseteq [bool : BOOLEAN, quality : Qualities]

Old == Stale + MaxDelay + LoopPeriod + 1
Older(age, most) == IF age < most THEN age + 1 ELSE most

VARIABLES expect, reached, \* configuration; whether the stop reaches the device
          stamped,    \* whether the providers say when a reading was taken
          pressed,    \* the stop is in force
          pressedAge, \* for how long it has been
          cache,      \* the cached readings
          jobs,       \* the reading each poller is about to apply
          chain,      \* current_
          mismatch,   \* whether the device is in mismatches_
          loopAge,    \* since the main loop last came round
          due         \* how long the device has contradicted a stop seen in force,
                      \* with no alarm

vars == <<expect, reached, stamped, pressed, pressedAge, cache, jobs, chain, mismatch, loopAge, due>>

\* A cached reading: "lag" is how long before its timestamp it was really taken.
Readings == [value : {"yes", "no", "other"}, quality : Qualities, age : 0..Stale + 1, lag : 0..MaxDelay]
NoReading == [value |-> "none", quality |-> "UNKNOWN", age |-> Stale + 1, lag |-> 0]
Idle == [signal |-> "none", value |-> "none", quality |-> "UNKNOWN", held |-> 0]

TypeOK ==
    /\ expect \in Expects /\ {reached, stamped, pressed, mismatch} \subseteq BOOLEAN
    /\ pressedAge \in 0..Old /\ loopAge \in 0..LoopPeriod /\ due \in 0..Old
    /\ cache \in [Signals -> Readings \cup {NoReading}]
    /\ \A p \in Pollers : jobs[p].signal \in Signals \cup {"none"} /\ jobs[p].held \in 0..MaxDelay
    /\ chain \in [state : {"not_configured", "in_force", "clear", "unknown"}, age : 0..Stale]

Init ==
    /\ expect \in Expects /\ reached \in BOOLEAN /\ stamped \in BOOLEAN
    /\ pressed = FALSE /\ pressedAge = 0
    /\ cache = [s \in Signals |-> NoReading]
    /\ jobs = [p \in Pollers |-> Idle]
    /\ chain = [state |-> "not_configured", age |-> 0]
    /\ mismatch = FALSE
    /\ loopAge = 0 /\ due = 0

-----------------------------------------------------------------------------
(* The plant, and reads of it.                                             *)

Press ==
    /\ pressed' = ~pressed /\ pressedAge' = 0
    /\ UNCHANGED <<expect, reached, stamped, cache, jobs, chain, mismatch, loopAge>>

\* The device has no power under a stop that reaches it and cuts it off.
Dark == expect = "power_loss" /\ reached /\ pressed

Truth(s) == IF s = Status THEN pressed ELSE expect = "reports_estop" /\ reached /\ pressed

\* The provider takes a reading.
Take(p, s) ==
    /\ s \in Polls[p] /\ jobs[p] = Idle /\ ~(s = Device /\ Dark)
    /\ \E a \in Answers[s] :
          LET value == IF ~a.bool THEN "other" ELSE IF Truth(s) THEN "yes" ELSE "no" IN
          jobs' = [jobs EXCEPT ![p] = [signal |-> s, value |-> value, quality |-> a.quality, held |-> 0]]
    /\ UNCHANGED <<expect, reached, stamped, pressed, pressedAge, cache, chain, mismatch, loopAge>>

\* update_device_state: the timestamp is the provider's, or that of this moment.
Apply(p) ==
    /\ jobs[p] # Idle
    /\ LET j == jobs[p] IN
       cache' = [cache EXCEPT ![j.signal] =
                   [value |-> j.value, quality |-> j.quality,
                    age |-> IF stamped THEN j.held ELSE 0, lag |-> IF stamped THEN 0 ELSE j.held]]
    /\ jobs' = [jobs EXCEPT ![p] = Idle]
    /\ UNCHANGED <<expect, reached, stamped, pressed, pressedAge, chain, mismatch, loopAge>>

\* A failed read clears the device's signals.
ReadFails(s) ==
    /\ cache' = [cache EXCEPT ![s] = NoReading]
    /\ UNCHANGED <<expect, reached, stamped, pressed, pressedAge, jobs, chain, mismatch, loopAge>>

-----------------------------------------------------------------------------
(* StopChainMonitor.                                                       *)

\* CachedSignalValue::is_stale.
IsStale(r) == r.quality \in {"STALE", "FAULT", "UNKNOWN"} \/ r.age > Stale

\* A broken classify: the age of the reading is not looked at.
ClassifyAnyAge ==
    LET r == cache[Status] IN
    CASE r = NoReading \/ r.quality # "OK" \/ r.value = "other" -> "unknown"
      [] OTHER -> IF r.value = "yes" THEN "in_force" ELSE "clear"

\* StopChainMonitor::classify.
Classify ==
    LET r == cache[Status] IN
    CASE r = NoReading \/ IsStale(r) \/ r.quality # "OK" \/ r.value = "other" -> "unknown"
      [] OTHER -> IF r.value = "yes" THEN "in_force" ELSE "clear"

\* StopChainMonitor::contradiction: a device that should have lost power still answers,
\* or one that should report the stop denies it.
Contradiction ==
    LET r == cache[Device] IN
    /\ r # NoReading /\ ~IsStale(r)
    /\ expect = "reports_estop" => r.quality = "OK" /\ r.value = "no"


\* A device is judged once the stop has been in force for the stale bound.
Judged(state, age) == state = "in_force" /\ age >= Stale

\* StopChainMonitor::update: for how long the state has been what it is.
Since(state) == IF state = chain.state THEN chain.age ELSE 0

\* Runtime::update_stop_chain: update() and update_mismatches().
Loop ==
    /\ LET state == Classify
           age == Since(state)
       IN /\ chain' = [state |-> state, age |-> age]
          /\ mismatch' = (Judged(state, age) /\ Contradiction)
    /\ loopAge' = 0
    /\ UNCHANGED <<expect, reached, stamped, pressed, pressedAge, cache, jobs>>

-----------------------------------------------------------------------------
\* A tick of the clock; the readings on their way and the main loop keep their bounds.
Tick ==
    /\ loopAge < LoopPeriod /\ \A p \in Pollers : jobs[p].held < MaxDelay
    /\ loopAge' = loopAge + 1
    /\ pressedAge' = IF pressed THEN Older(pressedAge, Old) ELSE 0
    /\ cache' = [s \in Signals |-> IF cache[s].age > Stale THEN cache[s] ELSE [cache[s] EXCEPT !.age = @ + 1]]
    /\ jobs' = [p \in Pollers |-> IF jobs[p] = Idle THEN Idle ELSE [jobs[p] EXCEPT !.held = @ + 1]]
    /\ chain' = [chain EXCEPT !.age = Older(@, Stale)]
    /\ UNCHANGED <<expect, reached, stamped, pressed, mismatch>>

Unalarmed == chain.state = "in_force" /\ Contradiction /\ ~mismatch

\* How long an alarm has been owed.
Watch == due' = IF ~Unalarmed' THEN 0 ELSE IF loopAge' > loopAge THEN Older(due, Old) ELSE due

Next ==
    /\ \/ Press \/ Loop \/ Tick
       \/ \E p \in Pollers : Apply(p) \/ \E s \in Signals : Take(p, s)
       \/ \E s \in Signals : ReadFails(s)
    /\ Watch

Spec == Init /\ [][Next]_vars

-----------------------------------------------------------------------------
\* The monitor never goes on saying clear once the stop has been in force for the stale
\* bound and the delays of a read and a round: "a status that has stopped updating must
\* not keep reading clear" (runtime.cpp).  It covers a poll's older reading applied over a
\* post-call poll's newer one.
ClearIsRecent == pressed /\ chain.state = "clear" => pressedAge <= Stale + MaxDelay + LoopPeriod


\* A device that contradicts a stop seen in force is alarmed within the stale bound and
\* a round, however the status and the device are polled meanwhile.
AlarmInTime == due <= Stale + LoopPeriod

\* The monitor neither trusts an old status nor puts off an alarm (stop_chain.cpp
\* classify, update, update_mismatches), and every variable has its type.
MonitorInv == TypeOK /\ ClearIsRecent /\ AlarmInTime

=============================================================================
