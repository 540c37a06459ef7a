----------------------------- MODULE Telemetry ------------------------------
(***************************************************************************)
(* The event emitter and its subscribers: the SSE streams of the HTTP      *)
(* server and the InfluxDB sink with its batch, its retry buffer and the   *)
(* health task that feeds it.                                              *)
(*                                                                         *)
(* emit() gives an event its number and picks the queues under mutex_, and *)
(* pushes to them after releasing it, each under its own lock.  A row is   *)
(* known by its place in the order in which rows joined the batch.         *)
(***************************************************************************)
EXTENDS Integers, Sequences, FiniteSets, SequencesExt

CONSTANTS Producers,   \* threads that emit
          Clients,     \* HTTP threads serving GET /v0/events
          Sink,        \* the telemetry sink's subscription
          Scopes,      \* the devices events are about
          Filters,     \* what SSE clients ask for
          Emissions,   \* the events emitted, without their numbers
          MaxClients,  \* MAX_SSE_CLIENTS; the emitter has one slot more
          QueueSize,   \* of each subscriber's queue
          BatchSize, MaxRetry,
          MaxEvents,   \* bound: events emitted
          MaxHealth    \* bound: health rows

Subscribers == Clients \cup {Sink}
MaxSubscribers == MaxClients + 1

\* State updates are of one scope and become rows; availability changes are of one
\* scope and do not; mode changes have no scope and do.
Kinds == {"state", "availability", "mode"}

All == "all"

ASSUME TelemetryAssumption ==
    /\ Sink \notin Clients
    /\ All \notin Scopes /\ Filters \subseteq Scopes \cup {All}
    /\ Emissions \subseteq [kind : Kinds, scope : Scopes]
    /\ {MaxClients, BatchSize} \subseteq Nat \ {0}
    /\ QueueSize \in [Subscribers -> Nat \ {0}]
    /\ {MaxRetry, MaxEvents, MaxHealth} \subseteq Nat

VARIABLES nextId,     \* next_event_id_
          subscribed, \* subscribers_
          filter,     \* the filter of each subscription
          queue,      \* each subscriber's queue
          emitting,   \* the event a producer is pushing, and the queues still to go
          clientStep, \* where an SSE thread is
          sseCount,   \* sse_client_count_
          serving,    \* HttpServer::running_
          running,    \* InfluxSink::running_
          sinkStep,   \* where the flush thread is
          batch, retry, inflight, arrived,
          written, failed,   \* total_written_, total_failed_
          health,     \* health rows enqueued
          last        \* the last event of each producer a subscriber has popped

emitVars == <<nextId, emitting>>
clientVars == <<clientStep, sseCount>>
sinkVars == <<sinkStep, batch, retry, inflight, arrived, written, failed, health>>
vars == <<nextId, subscribed, filter, queue, emitting, clientStep, sseCount, serving, running,
          sinkStep, batch, retry, inflight, arrived, written, failed, health, last>>

NoEvent == [id |-> 0, by |-> Sink, kind |-> "none", scope |-> All]
Idle == [event |-> NoEvent, targets |-> {}]
Events == [id : 1..MaxEvents, by : Producers, kind : Kinds, scope : Scopes]

TypeOK ==
    /\ nextId \in 1..(MaxEvents + 1)
    /\ subscribed \subseteq Subscribers
    /\ filter \in [Subscribers -> Scopes \cup {All}]
    /\ \A s \in Subscribers : queue[s] \in Seq(Events) /\ Len(queue[s]) <= QueueSize[s]
    /\ \A p \in Producers :
          emitting[p] \in [event : Events, targets : SUBSET Subscribers \ {{}}] \cup {Idle}
    /\ clientStep \in [Clients -> {"idle", "checked", "subscribed", "streaming", "ended"}]
    /\ sseCount \in 0..Cardinality(Clients)
    /\ {serving, running} \subseteq BOOLEAN
    /\ sinkStep \in {"pop", "post", "lastpost", "done"}
    /\ {batch, retry, inflight} \subseteq Seq(1..arrived) /\ Len(retry) <= MaxRetry
    /\ last \in [Subscribers -> [Producers -> 0..MaxEvents]]

\* Telemetry starts before HTTP, so the sink has its slot before any client.
Init ==
    /\ nextId = 1
    /\ subscribed = {Sink}
    /\ filter = [s \in Subscribers |-> All]
    /\ queue = [s \in Subscribers |-> <<>>]
    /\ emitting = [p \in Producers |-> Idle]
    /\ clientStep = [c \in Clients |-> "idle"]
    /\ sseCount = 0
    /\ serving = TRUE
    /\ running = TRUE
    /\ sinkStep = "pop"
    /\ batch = <<>> /\ retry = <<>> /\ inflight = <<>>
    /\ arrived = 0 /\ written = 0 /\ failed = 0 /\ health = 0
    /\ last = [s \in Subscribers |-> [p \in Producers |-> 0]]

-----------------------------------------------------------------------------
(* EventEmitter and SubscriberQueue.                                       *)

\* EventFilter::matches.
Matches(f, e) == f = All \/ e.kind = "mode" \/ e.scope = f

\* A broken push: the wrong end of the deque.
PushFront(q, e, size) == <<e>> \o (IF Len(q) >= size THEN Tail(q) ELSE q)

\* SubscriberQueue::push: a full queue drops its oldest event.
Push(q, e, size) == Append(IF Len(q) >= size THEN Tail(q) ELSE q, e)

\* emit(), under mutex_.
Emit(p) ==
    /\ emitting[p] = Idle /\ nextId <= MaxEvents
    /\ \E em \in Emissions :
          LET e == [id |-> nextId, by |-> p, kind |-> em.kind, scope |-> em.scope]
              targets == {s \in subscribed : Matches(filter[s], e)}
          IN emitting' = [emitting EXCEPT ![p] =
                            IF targets = {} THEN Idle ELSE [event |-> e, targets |-> targets]]
    /\ nextId' = nextId + 1
    /\ UNCHANGED <<subscribed, filter, queue, clientVars, serving, running, sinkVars, last>>

\* emit(), one queue after the other; a queue closed meanwhile still takes the event.
PushTo(p, s) ==
    /\ s \in emitting[p].targets
    /\ queue' = [queue EXCEPT ![s] = Push(@, emitting[p].event, QueueSize[s])]
    /\ emitting' = [emitting EXCEPT ![p] =
                      IF @.targets = {s} THEN Idle ELSE [@ EXCEPT !.targets = @ \ {s}]]
    /\ UNCHANGED <<nextId, subscribed, filter, clientVars, serving, running, sinkVars, last>>


\* subscribe() rejects at max_subscribers_.
HasSlot == Cardinality(subscribed) < MaxSubscribers

\* A new subscription has a queue of its own.
Fresh(s, f) ==
    /\ filter' = [filter EXCEPT ![s] = f]
    /\ queue' = [queue EXCEPT ![s] = <<>>]
    /\ last' = [last EXCEPT ![s] = [p \in Producers |-> 0]]

\* SubscriberQueue::pop.
Popped(s) ==
    /\ last' = [last EXCEPT ![s][Head(queue[s]).by] = Head(queue[s]).id]
    /\ queue' = [queue EXCEPT ![s] = Tail(@)]

-----------------------------------------------------------------------------
(* HttpServer::handle_get_events and the stream it leaves behind.          *)

To(c, step) == clientStep' = [clientStep EXCEPT ![c] = step]

\* The client limit is read here and the counter raised after subscribing.
CheckLimit(c) ==
    /\ clientStep[c] = "idle" /\ serving /\ sseCount < MaxClients
    /\ To(c, "checked")
    /\ UNCHANGED <<emitVars, subscribed, filter, queue, sseCount, serving, running, sinkVars, last>>

Subscribe(c) ==
    /\ clientStep[c] = "checked"
    /\ \/ /\ HasSlot
          /\ subscribed' = subscribed \cup {c}
          /\ \E f \in Filters : Fresh(c, f)
          /\ To(c, "subscribed")
       \/ /\ ~HasSlot
          /\ To(c, "idle")
          /\ UNCHANGED <<subscribed, filter, queue, last>>
    /\ UNCHANGED <<emitVars, sseCount, serving, running, sinkVars>>

CountClient(c) ==
    /\ clientStep[c] = "subscribed"
    /\ sseCount' = sseCount + 1
    /\ To(c, "streaming")
    /\ UNCHANGED <<emitVars, subscribed, filter, queue, serving, running, sinkVars, last>>

\* One call of the content provider that finds an event.
StreamEvent(c) ==
    /\ clientStep[c] = "streaming" /\ serving /\ queue[c] # <<>>
    /\ Popped(c)
    /\ UNCHANGED <<emitVars, subscribed, filter, clientVars, serving, running, sinkVars>>

\* The stream ends with the server, or when a write fails; the counter is lowered ...
StreamEnds(c) ==
    /\ clientStep[c] = "streaming"
    /\ sseCount' = sseCount - 1
    /\ To(c, "ended")
    /\ UNCHANGED <<emitVars, subscribed, filter, queue, serving, running, sinkVars, last>>

\* ... and the subscription then destroyed.
Unsubscribe(c) ==
    /\ clientStep[c] = "ended"
    /\ subscribed' = subscribed \ {c}
    /\ Fresh(c, All)
    /\ emitting' = [p \in Producers |->
         IF emitting[p].targets = {c} THEN Idle ELSE [emitting[p] EXCEPT !.targets = @ \ {c}]]
    /\ To(c, "idle")
    /\ UNCHANGED <<nextId, sseCount, serving, running, sinkVars>>

-----------------------------------------------------------------------------
(* InfluxSink: flush_loop and flush_batch, and the health task.            *)

sinkKeeps == <<emitVars, subscribed, filter, clientVars, serving, running>>

IsRow(e) == e.kind \in {"state", "mode"}

\* flush_batch(), under batch_mutex_: what is to be retried goes first.
ToSend(rows) == retry \o rows

\* The batch goes out when it is full, or not empty and the interval is over.
FlushOrNot(rows) ==
    \/ /\ rows # <<>>
       /\ inflight' = ToSend(rows)
       /\ batch' = <<>> /\ retry' = <<>>
       /\ sinkStep' = "post"
    \/ /\ Len(rows) < BatchSize
       /\ batch' = rows
       /\ UNCHANGED <<inflight, retry, sinkStep>>

\* flush_loop pops an event and adds it to the batch, or the pop times out.
Collect ==
    /\ sinkStep = "pop" /\ running
    /\ \/ /\ queue[Sink] # <<>>
          /\ Popped(Sink)
          /\ arrived' = IF IsRow(Head(queue[Sink])) THEN arrived + 1 ELSE arrived
       \/ queue[Sink] = <<>> /\ UNCHANGED <<queue, last, arrived>>
    /\ FlushOrNot(IF arrived' > arrived THEN Append(batch, arrived') ELSE batch)
    /\ UNCHANGED <<sinkKeeps, written, failed, health>>

\* flush_loop after the loop: one more flush, of the batch and what is to be retried.
LastFlush ==
    /\ sinkStep = "pop" /\ ~running
    /\ inflight' = ToSend(batch)
    /\ batch' = <<>> /\ retry' = <<>>
    /\ sinkStep' = IF inflight' = <<>> THEN "done" ELSE "lastpost"
    /\ UNCHANGED <<sinkKeeps, queue, arrived, written, failed, health, last>>

PostStored == written' = written + Len(inflight) /\ UNCHANGED <<retry, failed>>

\* 4xx but 429: dropped and counted.
PostRejected == failed' = failed + Len(inflight) /\ UNCHANGED <<retry, written>>

\* 429, 5xx or no answer: as many as fit are kept, oldest first, the rest counted.
PostTransient ==
    LET space == IF MaxRetry > Len(retry) THEN MaxRetry - Len(retry) ELSE 0
        kept == IF space < Len(inflight) THEN space ELSE Len(inflight)
    IN /\ retry' = retry \o SubSeq(inflight, 1, kept)
       /\ failed' = failed + Len(inflight) - kept
       /\ UNCHANGED written

\* A broken stop: the last flush is tried until nothing is left to retry.
AfterPostUntilSent == IF sinkStep = "lastpost" /\ retry' = <<>> THEN "done" ELSE "pop"

\* The flush after the loop is the last one whatever comes of it.
AfterPost == IF sinkStep = "lastpost" THEN "done" ELSE "pop"

Post ==
    /\ sinkStep \in {"post", "lastpost"}
    /\ PostStored \/ PostRejected \/ PostTransient
    /\ inflight' = <<>>
    /\ sinkStep' = AfterPost
    /\ UNCHANGED <<sinkKeeps, queue, batch, arrived, health, last>>

\* HealthSnapshotTask::loop enqueues a row; Runtime::shutdown stops it before the sink.
Health ==
    /\ running /\ health < MaxHealth
    /\ health' = health + 1
    /\ arrived' = arrived + 1
    /\ batch' = Append(batch, arrived')
    /\ UNCHANGED <<sinkKeeps, queue, sinkStep, retry, inflight, written, failed, last>>

-----------------------------------------------------------------------------
(* Runtime::shutdown: the HTTP server, whose threads it waits for, then    *)
(* the sink.                                                               *)

StopServing ==
    /\ serving
    /\ serving' = FALSE
    /\ UNCHANGED <<emitVars, subscribed, filter, queue, clientVars, running, sinkVars, last>>

\* InfluxSink::stop.
StopSink ==
    /\ ~serving /\ running /\ \A c \in Clients : clientStep[c] = "idle"
    /\ running' = FALSE
    /\ UNCHANGED <<emitVars, subscribed, filter, queue, clientVars, serving, sinkVars, last>>

UnsubscribeSink ==
    /\ ~running /\ Sink \in subscribed
    /\ subscribed' = subscribed \ {Sink}
    /\ UNCHANGED <<emitVars, filter, queue, clientVars, serving, running, sinkVars, last>>

-----------------------------------------------------------------------------
Emitter == \E p \in Producers : Emit(p) \/ \E s \in Subscribers : PushTo(p, s)

\* What an SSE thread does once it has been given a request.
Client(c) == Subscribe(c) \/ CountClient(c) \/ Unsubscribe(c) \/ (~serving /\ StreamEnds(c))

Flush == Collect \/ LastFlush \/ Post

Next ==
    \/ Emitter
    \/ \E c \in Clients : CheckLimit(c) \/ Client(c) \/ StreamEvent(c) \/ StreamEnds(c)
    \/ Flush \/ Health \/ StopServing \/ StopSink \/ UnsubscribeSink

Spec == Init /\ [][Next]_vars

\* HTTP threads and the flush thread run, every pop and every post has a timeout, and
\* a shutdown once begun goes on.
Fairness ==
    /\ \A c \in Clients : WF_vars(Client(c))
    /\ WF_vars(Flush) /\ WF_vars(StopSink)

FairSpec == Spec /\ Fairness

-----------------------------------------------------------------------------
\* Every row that joined the batch is in the batch, on its way, kept for a retry, or
\* counted exactly once as written or failed, whatever the server answers
\* (flush_batch).
RowsAccounted == arrived = Len(batch) + Len(inflight) + Len(retry) + written + failed

\* Rows go out in the order they came in: a retry is never overtaken by newer rows.
RowsInOrder ==
    LET pending == retry \o inflight \o batch
    IN \A i, j \in DOMAIN pending : i < j => pending[i] < pending[j]

\* Each subscriber sees the events of one producer in the order it emitted them,
\* through drops and filters (emit pushes after releasing mutex_, so two producers'
\* events may swap).
ProducerOrder ==
    \A s \in Subscribers : \A i, j \in DOMAIN queue[s] :
        LET a == queue[s][i]  b == queue[s][j] IN
        /\ a.id > last[s][a.by]
        /\ i < j /\ a.by = b.by => a.id < b.id

\* No row is lost uncounted and nothing is delivered out of its producer's order
\* (event_emitter.cpp, influx_sink.cpp), and every variable has its type.
TelemetryInv == TypeOK /\ RowsAccounted /\ RowsInOrder /\ ProducerOrder


\* A shutdown ends: every stream is let go and the sink makes its last flush.
ShutdownEnds == ~serving ~> (sinkStep = "done" /\ \A c \in Clients : clientStep[c] = "idle")

=============================================================================
