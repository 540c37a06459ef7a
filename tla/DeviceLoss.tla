----------------------------- MODULE DeviceLoss -----------------------------
(***************************************************************************)
(* Device loss: StateCache decides reachability edges from its reads,      *)
(* DeviceLossLatch applies them, and ReissueWorker re-asserts the safe     *)
(* state of a latched device that returns.                                 *)
(*                                                                         *)
(* The poll thread, CallRouter's post-call polls and the worker's own      *)
(* calls all read devices.  Each reader reads, decides the edge under      *)
(* StateCache's lock, applies it under the latch's lock and posts under    *)
(* the worker's lock; it holds none of them in between, so edges arrive in *)
(* any order.  A provider restart rebuilds StateCache's device states      *)
(* beneath them.  All devices belong to the provider that restarts.        *)
(***************************************************************************)
EXTENDS Naturals, Sequences, FiniteSets

CONSTANTS Devices,
          Readers,    \* threads that poll devices
          Worker,     \* ReissueWorker's thread, which polls after its calls
          Results,    \* what a read may come back with
          MaxEdges,   \* bound on reachability_edge_seq_
          MaxRebuilds,\* bound on provider restarts
          None

ASSUME LossAssumption ==
    /\ Worker \in Readers
    /\ Results \subseteq {"ok", "transport", "decode", "provider_lost"}
    /\ MaxEdges \in Nat /\ MaxRebuilds \in Nat
    /\ None \notin Devices

VARIABLES known,        \* device_states_: the devices that have a state
          lossReported, \* devices with loss_reported
          unavailEmitted, \* devices with unavailable_emitted
          carried,      \* None, or what a rebuild in progress carries over
          departed,     \* departed_: devices dropped with a loss on record
          seq,          \* reachability_edge_seq_
          job,          \* the poll each reader has in progress
          latched,      \* DeviceLossLatch::latched_
          lastEdge,     \* last_edge_
          queue,        \* ReissueWorker::queue_
          running,      \* the device the worker is re-asserting
          shutdown,     \* SignalHandler::is_shutdown_requested()
          stopping,     \* ReissueWorker::stopping_
          rebuilds,     \* rebuilds so far
          newest,       \* kind of the newest edge decided
          safed,        \* devices re-asserted since their newest return
          excused,      \* devices re-armed, or first failed to decode, since
                        \* they last answered
          owed,         \* unreachable devices that were not excused
          told          \* the last event sent for each device; "gone_removed" is a
                        \* removal with a loss before it and no return between

cacheVars == <<known, lossReported, unavailEmitted, carried, departed, seq, rebuilds, told>>
latchVars == <<latched, lastEdge>>
workerVars == <<queue, running, stopping>>
ghostVars == <<newest, safed, excused, owed>>
vars == <<cacheVars, job, latchVars, workerVars, shutdown, ghostVars>>

\* A poll: a read that returned, an edge decided, or a re-issue to post.
Idle == [at |-> "idle"]
ReadJob(d, r) == [at |-> "read", dev |-> d, result |-> r, stop |-> shutdown]
EdgeJob(d, up, transport, n) ==
    [at |-> "edge", dev |-> d, up |-> up, transport |-> transport, n |-> n]
PostJob(d) == [at |-> "post", dev |-> d]

Jobs ==
    {Idle}
    \cup [at : {"read"}, dev : Devices, result : Results, stop : BOOLEAN]
    \cup [at : {"edge"}, dev : Devices, up : BOOLEAN, transport : BOOLEAN, n : 1..MaxEdges]
    \cup [at : {"post"}, dev : Devices]

Carried == [of : SUBSET Devices, loss : SUBSET Devices, unavail : SUBSET Devices]

TypeOK ==
    /\ known \subseteq Devices
    /\ lossReported \subseteq known
    /\ unavailEmitted \subseteq known
    /\ carried \in Carried \cup {None}
    /\ departed \in [Devices -> {"no", "loss", "loss_told"}]
    /\ seq \in 0..MaxEdges
    /\ job \in [Readers -> Jobs]
    /\ latched \subseteq Devices
    /\ lastEdge \in [Devices -> [n : 0..MaxEdges, up : BOOLEAN]]
    /\ queue \in Seq(Devices)
    /\ running \in Devices \cup {None}
    /\ shutdown \in BOOLEAN /\ stopping \in BOOLEAN
    /\ rebuilds \in 0..MaxRebuilds
    /\ newest \in [Devices -> {"none", "loss", "return"}]
    /\ safed \subseteq Devices
    /\ excused \subseteq Devices
    /\ owed \subseteq Devices
    /\ told \in [Devices -> {"none", "gone", "back", "removed", "gone_removed"}]

Init ==
    /\ known = Devices
    /\ lossReported = {} /\ unavailEmitted = {}
    /\ carried = None
    /\ departed = [d \in Devices |-> "no"]
    /\ seq = 0
    /\ job = [t \in Readers |-> Idle]
    /\ latched = {}
    /\ lastEdge = [d \in Devices |-> [n |-> 0, up |-> FALSE]]
    /\ queue = <<>>
    /\ running = None
    /\ shutdown = FALSE /\ stopping = FALSE
    /\ rebuilds = 0
    /\ newest = [d \in Devices |-> "none"]
    /\ safed = {}
    /\ excused = {}
    /\ owed = {}
    /\ told = [d \in Devices |-> "none"]

-----------------------------------------------------------------------------
(* StateCache.                                                             *)

\* read_signals() returns, and the shutdown flag is sampled.  The worker polls
\* only the device it is re-asserting; the others stop before the worker does.
\* A read is not started when its edge could pass the bound.
Read(t, d, r) ==
    /\ job[t] = Idle
    /\ d \in known
    /\ IF t = Worker THEN running = d ELSE ~stopping
    /\ seq + Cardinality({u \in Readers : job[u].at = "read"}) < MaxEdges
    /\ job' = [job EXCEPT ![t] = ReadJob(d, r)]
    /\ UNCHANGED <<cacheVars, latchVars, workerVars, shutdown, ghostVars>>

\* Number the edge and hand it to the sink, after the lock is released.
Report(t, d, up, transport) ==
    /\ seq' = seq + 1
    /\ job' = [job EXCEPT ![t] = EdgeJob(d, up, transport, seq + 1)]
    /\ newest' = [newest EXCEPT ![d] = IF up THEN "return" ELSE "loss"]
    /\ safed' = safed \ {d}

ReportNothing(t) ==
    /\ job' = [job EXCEPT ![t] = Idle]
    /\ UNCHANGED <<seq, newest, safed>>

\* A device dropped by a rebuild in the meantime has no state to update.
ReadUnknown(t) ==
    /\ job[t].at = "read" /\ job[t].dev \notin known
    /\ ReportNothing(t)
    /\ UNCHANGED <<known, lossReported, unavailEmitted, carried, departed, rebuilds, told,
                   latchVars, workerVars, shutdown, excused, owed>>

EmitGone(d) ==
    /\ unavailEmitted' = unavailEmitted \cup {d}
    /\ told' = IF d \in unavailEmitted THEN told ELSE [told EXCEPT ![d] = "gone"]

\* A broken poll_device: the loss edge is derived from unavailable_emitted, which a
\* provider loss also sets.
ReadFailedByAvailability(t) ==
    LET d == job[t].dev
        inBand == job[t].result # "provider_lost" /\ ~job[t].stop
        first == inBand /\ d \notin unavailEmitted
        transport == job[t].result = "transport"
    IN
    /\ job[t].at = "read" /\ d \in known /\ job[t].result # "ok"
    /\ IF job[t].stop THEN UNCHANGED <<unavailEmitted, told>> ELSE EmitGone(d)
    /\ IF first
       THEN lossReported' = lossReported \cup {d} /\ Report(t, d, FALSE, transport)
       ELSE ReportNothing(t) /\ UNCHANGED lossReported
    /\ owed' = IF inBand /\ transport /\ d \notin excused THEN owed \cup {d} ELSE owed
    /\ excused' = IF first /\ ~transport THEN excused \cup {d} ELSE excused
    /\ UNCHANGED <<known, carried, departed, rebuilds, latchVars, workerVars, shutdown>>

\* poll_device after a failed read: the loss is an edge when the provider is there
\* and none was reported since the last return.
ReadFailed(t) ==
    LET d == job[t].dev
        inBand == job[t].result # "provider_lost" /\ ~job[t].stop
        first == inBand /\ d \notin lossReported
        transport == job[t].result = "transport"
    IN
    /\ job[t].at = "read" /\ d \in known /\ job[t].result # "ok"
    /\ IF job[t].stop THEN UNCHANGED <<unavailEmitted, told>> ELSE EmitGone(d)
    /\ IF first
       THEN lossReported' = lossReported \cup {d} /\ Report(t, d, FALSE, transport)
       ELSE ReportNothing(t) /\ UNCHANGED lossReported
    /\ owed' = IF inBand /\ transport /\ d \notin excused THEN owed \cup {d} ELSE owed
    /\ excused' = IF first /\ ~transport THEN excused \cup {d} ELSE excused
    /\ UNCHANGED <<known, carried, departed, rebuilds, latchVars, workerVars, shutdown>>

\* update_device_state after a good read.
ReadOk(t) ==
    LET d == job[t].dev IN
    /\ job[t].at = "read" /\ d \in known /\ job[t].result = "ok"
    /\ unavailEmitted' = unavailEmitted \ {d}
    /\ told' = IF d \in unavailEmitted THEN [told EXCEPT ![d] = "back"] ELSE told
    /\ lossReported' = lossReported \ {d}
    /\ IF d \in lossReported THEN Report(t, d, TRUE, FALSE) ELSE ReportNothing(t)
    /\ excused' = excused \ {d}
    /\ UNCHANGED <<known, carried, departed, rebuilds, latchVars, workerVars, shutdown,
                   owed>>

\* mark_provider_devices_unavailable: the provider is missing or not available.
ProviderDown(t) ==
    /\ job[t] = Idle /\ t # Worker /\ ~stopping /\ ~shutdown
    /\ unavailEmitted' = known
    /\ told' = [d \in Devices |-> IF d \in known \ unavailEmitted THEN "gone" ELSE told[d]]
    /\ UNCHANGED <<known, lossReported, carried, departed, seq, rebuilds, job, latchVars,
                   workerVars, shutdown, ghostVars>>

\* rebuild_poll_configs, first half: forget the provider's devices, carrying their
\* reachability.
RebuildDrop ==
    /\ carried = None /\ rebuilds < MaxRebuilds /\ ~shutdown
    /\ carried' = [of |-> known, loss |-> lossReported, unavail |-> unavailEmitted]
    /\ known' = {} /\ lossReported' = {} /\ unavailEmitted' = {}
    /\ rebuilds' = rebuilds + 1
    /\ UNCHANGED <<departed, seq, told, job, latchVars, workerVars, shutdown, ghostVars>>

\* A broken rebuild: nothing is carried, and fresh states start out unavailable.
RebuildAddForgets(inventory) ==
    LET gone == carried.of \ inventory IN
    /\ carried # None
    /\ carried' = None
    /\ known' = inventory
    /\ lossReported' = {}
    /\ unavailEmitted' = inventory
    /\ departed' = [d \in Devices |-> "no"]
    /\ told' = [d \in Devices |-> IF d \in gone THEN "removed" ELSE told[d]]
    /\ UNCHANGED <<seq, rebuilds, job, latchVars, workerVars, shutdown, ghostVars>>

\* rebuild_poll_configs, second half: the devices of the new inventory take up
\* what was carried, or what was on record when they left.
RebuildAdd(inventory) ==
    LET had(d) == d \in carried.of
        gone == carried.of \ inventory
    IN
    /\ carried # None
    /\ carried' = None
    /\ known' = inventory
    /\ lossReported' =
         {d \in inventory : IF had(d) THEN d \in carried.loss ELSE departed[d] # "no"}
    /\ unavailEmitted' =
         {d \in inventory : IF had(d) THEN d \in carried.unavail
                                      ELSE departed[d] = "loss_told"}
    /\ departed' = [d \in Devices |->
         IF d \in inventory THEN "no"
         ELSE IF d \in gone \cap carried.loss
              THEN (IF d \in carried.unavail THEN "loss_told" ELSE "loss")
         ELSE departed[d]]
    /\ told' = [d \in Devices |->
         IF d \in gone
         THEN (IF told[d] \in {"gone", "gone_removed"} THEN "gone_removed" ELSE "removed")
         ELSE told[d]]
    /\ UNCHANGED <<seq, rebuilds, job, latchVars, workerVars, shutdown, ghostVars>>

-----------------------------------------------------------------------------
(* DeviceLossLatch.                                                        *)

\* apply_reachability_edge: what it latches and whether it asks for a re-issue.
Engages(e) == ~e.up /\ e.transport /\ e.dev \notin latched

AsksReissue(e) ==
    IF e.n <= lastEdge[e.dev].n
    THEN Engages(e) /\ lastEdge[e.dev].up
    ELSE e.up /\ e.dev \in latched

Apply(t) ==
    LET e == job[t] IN
    /\ e.at = "edge"
    /\ latched' = IF Engages(e) THEN latched \cup {e.dev} ELSE latched
    /\ lastEdge' = IF e.n <= lastEdge[e.dev].n THEN lastEdge
                   ELSE [lastEdge EXCEPT ![e.dev] = [n |-> e.n, up |-> e.up]]
    /\ job' = [job EXCEPT ![t] = IF AsksReissue(e) THEN PostJob(e.dev) ELSE Idle]
    /\ UNCHANGED <<cacheVars, workerVars, shutdown, ghostVars>>

\* The cache holds a loss of the device, in its state, in a rebuild or on record.
LossOnRecord(d) ==
    \/ d \in lossReported
    \/ carried # None /\ d \in carried.loss
    \/ departed[d] # "no"

\* release_all, on the committed MANUAL -> AUTO.
ReleaseAll ==
    /\ latched # {}
    /\ latched' = {}
    /\ owed' = {}
    /\ excused' = excused \cup {d \in Devices : LossOnRecord(d)}
    /\ UNCHANGED <<cacheVars, job, lastEdge, workerVars, shutdown, newest, safed>>

-----------------------------------------------------------------------------
(* ReissueWorker.                                                          *)

Range(q) == {q[i] : i \in DOMAIN q}

\* post(): dropped while stopping, once in the queue is enough.
Post(t) ==
    LET d == job[t].dev IN
    /\ job[t].at = "post"
    /\ queue' = IF stopping \/ d \in Range(queue) THEN queue ELSE Append(queue, d)
    /\ job' = [job EXCEPT ![t] = Idle]
    /\ UNCHANGED <<cacheVars, latchVars, running, stopping, shutdown, ghostVars>>

\* A broken run(): the worker leaves its queue at the signal, not at stop().
TakeUntilSignal ==
    /\ running = None /\ queue # <<>> /\ ~shutdown
    /\ running' = Head(queue)
    /\ queue' = Tail(queue)
    /\ safed' = safed \cup {Head(queue)}
    /\ UNCHANGED <<cacheVars, job, latchVars, stopping, shutdown, newest, excused, owed>>

\* run(): take the front, re-assert it unlocked, and come back for the next.  The
\* calls of the re-assert start here, so what was decided before is covered.
Take ==
    /\ running = None /\ queue # <<>>
    /\ running' = Head(queue)
    /\ queue' = Tail(queue)
    /\ safed' = safed \cup {Head(queue)}
    /\ UNCHANGED <<cacheVars, job, latchVars, stopping, shutdown, newest, excused, owed>>

Finish ==
    /\ running # None /\ job[Worker] = Idle
    /\ running' = None
    /\ UNCHANGED <<cacheVars, job, latchVars, queue, stopping, shutdown, ghostVars>>

\* The stop signal; then Runtime::shutdown stops the worker after the readers.
RequestShutdown ==
    /\ ~shutdown
    /\ shutdown' = TRUE
    /\ UNCHANGED <<cacheVars, job, latchVars, workerVars, ghostVars>>

StopWorker ==
    /\ shutdown /\ ~stopping
    /\ \A t \in Readers \ {Worker} : job[t] = Idle
    /\ stopping' = TRUE
    /\ UNCHANGED <<cacheVars, job, latchVars, queue, running, shutdown, ghostVars>>

-----------------------------------------------------------------------------
Decide(t) == ReadUnknown(t) \/ ReadFailed(t) \/ ReadOk(t)

Next ==
    \/ \E t \in Readers :
         \/ \E d \in Devices, r \in Results : Read(t, d, r)
         \/ Decide(t) \/ ProviderDown(t) \/ Apply(t) \/ Post(t)
    \/ RebuildDrop
    \/ \E inventory \in SUBSET Devices : RebuildAdd(inventory)
    \/ ReleaseAll \/ Take \/ Finish \/ RequestShutdown \/ StopWorker

Spec == Init /\ [][Next]_vars

\* Threads finish the poll they have in progress, and the worker serves its queue.
\* A re-assert makes finitely many calls, each followed by one poll: strong fairness
\* of Finish, which the polls disable.
Fairness ==
    /\ \A t \in Readers : WF_vars(Decide(t) \/ Apply(t) \/ Post(t))
    /\ WF_vars(Take)
    /\ SF_vars(Finish)

FairSpec == Spec /\ Fairness

-----------------------------------------------------------------------------
\* Nothing about device d is under way between the cache and the worker.
Settled(d) ==
    /\ \A t \in Readers : job[t].at \in {"edge", "post"} => job[t].dev # d
    /\ d \notin Range(queue)

\* A latched device that has come back has had its safe state re-asserted since it
\* came back, once every edge about it has arrived, in whatever order they did
\* (device_loss_latch.hpp: "Every arrival order ends where the in-order one does";
\* runtime.cpp wire_device_loss_latch).  A post after the worker was told to stop
\* is dropped, so the shutdown is left out.
ReturnReasserted ==
    \A d \in latched : ~stopping /\ Settled(d) /\ newest[d] = "return" => d \in safed

\* A device that goes from answering to a transport failure is latched once the
\* edges about it are delivered, in whatever order, and stays so until the next
\* re-arm: a provider loss or a rebuild in between, with the device dark, does not
\* swallow the loss (state_cache.hpp on loss_reported, device_loss_latch.hpp).
LossLatches ==
    \A d \in owed :
        (\A t \in Readers : job[t].at = "edge" => job[t].dev # d) => d \in latched

\* Once the edges about a device are delivered, the latch and the re-assert are where
\* delivery in order would have left them (device_loss_latch.hpp), and every variable
\* has its type.
LossInv == TypeOK /\ ReturnReasserted /\ LossLatches

\* An availability event says a device is back only after one that said it was
\* gone, through removals and rebuilds (state_cache.hpp: "a subscriber never sees a
\* `true` with no `false` before it").
EventsAlternate ==
    [][ \A d \in Devices :
          told'[d] = "back" /\ told[d] # "back" => told[d] \in {"gone", "gone_removed"} ]_vars

\* A latched device that came back is eventually re-asserted, unless it is lost
\* again, re-armed, or the worker has been told to stop.
ReturnEventuallySafed ==
    \A d \in Devices :
        (newest[d] = "return" /\ d \in latched)
            ~> (d \in safed \/ newest[d] = "loss" \/ d \notin latched \/ stopping)

=============================================================================
