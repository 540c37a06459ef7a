----------------------------- MODULE RunJournal -----------------------------
(***************************************************************************)
(* The run journal: an append-only index of run transitions, one event     *)
(* stream per run, and the bounded queue through which the tick thread's   *)
(* faults and mode changes reach a background writer.                      *)
(*                                                                         *)
(* Every operation holds mutex_ throughout and is one action.  Each append *)
(* it makes ends in one of several ways (Failures); a crash in the middle  *)
(* of an append or between two leaves the files as one of those ways       *)
(* followed by the crash does, so crashes fall between actions.            *)
(*                                                                         *)
(* A record is the run it is about and its state or close reason; labels,  *)
(* parameters, versions and time stamps ride along unread.  Run ids are    *)
(* numbered in the order they are minted, which is the order of order_.    *)
(***************************************************************************)
EXTENDS Integers, Sequences, FiniteSetsExt

CONSTANTS MaxRuns,       \* bound: run ids minted
          MaxLines,      \* bound: no annotation or callback event in a longer stream
          MaxTicks,      \* bound: ticks that fault
          MaxFailures,   \* bound: appends that fail
          MaxLives,      \* bound: process lives
          MaxQueue,      \* kMaxFaultQueue
          AskedReasons,  \* close reasons clients send
          Failures,      \* how an append may fail
          EntryLoss      \* a power cut may take a file whose directory was not synced

RunIds == 1..MaxRuns

CloseReasons == {"operator_stop", "completed", "failed", "superseded", "abandoned"}

Categories == {"run_opened", "run_closed", "mode_change", "automation_fault", "annotation"}

AppendFailures == {"no_file", "torn", "unterminated", "unsynced", "entry_unsynced"}

ASSUME JournalAssumption ==
    /\ {MaxRuns, MaxLines, MaxTicks, MaxFailures, MaxLives} \subseteq Nat
    /\ MaxQueue \in Nat \ {0}
    /\ AskedReasons \subseteq CloseReasons
    /\ Failures \subseteq AppendFailures
    /\ EntryLoss \in BOOLEAN

VARIABLES index,       \* index.jsonl
          events,      \* the events file of each run
          phase,       \* what the process and its journal are doing
          runs,        \* runs_; while the process is down, what it last reported
          open_run_id, \* open_run_id_, 0 for none
          next_seq,    \* next_seq_, 0 for a run it has no entry for
          queue,       \* fault_queue_
          item,        \* what the writer has popped and not yet persisted
          held,        \* the run id a mode or parameter callback has read
          effect,      \* the tick whose FAULT entry is still to be enqueued
          minted, ticks, failures, lives,
          acked        \* sequence numbers of the events whose append returned ok

files == <<index, events>>
memory == <<runs, open_run_id, next_seq>>
tickVars == <<effect, ticks>>
vars == <<index, events, phase, runs, open_run_id, next_seq, queue, item, held, effect,
          minted, ticks, failures, lives, acked>>

-----------------------------------------------------------------------------
(* Files.  lines[1..synced] are on storage; a line that was cut off, or    *)
(* that another was appended to, cannot be read back.                      *)

RunRecord(r, st) == [run |-> r, st |-> st]
EventRecord(seq, cat, tick) == [seq |-> seq, cat |-> cat, tick |-> tick]

TornRun == RunRecord(0, "torn")
TornEvent == EventRecord(0, "torn", 0)

NoFile == [lines |-> <<>>, terminated |-> TRUE, synced |-> 0, entry |-> "none"]

ReadableRun(line) == line # TornRun
ReadableEvent(line) == line # TornEvent

\* run_event_from_json over the lines of a stream.
Stream(r) == SelectSeq(events[r].lines, ReadableEvent)

SeqNumbers(s) == [i \in DOMAIN s |-> s[i].seq]

\* How an append to f may end.
Outcomes(f) ==
    {"ok"} \cup {o \in Failures : failures < MaxFailures /\ (o = "entry_unsynced" => f.entry = "none")}

\* The line is in the file and newline-terminated.
Written(o) == o \in {"ok", "unsynced", "entry_unsynced"}

\* Append one line to f: an unterminated last line is ended first, the file is
\* synced, and its directory too when the file was created.
AppendLine(f, line, torn, o) ==
    IF o = "no_file" THEN f
    ELSE [lines |-> Append(f.lines, IF o = "torn" THEN torn ELSE line),
          terminated |-> Written(o),
          synced |-> IF o \in {"ok", "entry_unsynced"} THEN Len(f.lines) + 1 ELSE f.synced,
          entry |-> IF f.entry # "none" THEN f.entry
                    ELSE IF o = "ok" THEN "durable" ELSE "volatile"]

Count(o) == IF o = "ok" THEN 0 ELSE 1

\* append_record.
AppendRecord(r, st, o) == index' = AppendLine(index, RunRecord(r, st), TornRun, o)

\* The next sequence number of r: known, or restored from what can be read.
NextSeq(r) ==
    IF next_seq[r] # 0 THEN next_seq[r]
    ELSE Max({0} \cup {Stream(r)[i].seq : i \in DOMAIN Stream(r)}) + 1

\* append_event_locked; the sequence of a line that was written is spent whether or
\* not it was synced.  After run_closed close() and initialize() drop the entry.
AppendEvent(r, cat, tick, o) ==
    /\ events' = [events EXCEPT ![r] = AppendLine(@, EventRecord(NextSeq(r), cat, tick), TornEvent, o)]
    /\ next_seq' = [next_seq EXCEPT ![r] =
                      IF cat = "run_closed" THEN 0 ELSE IF Written(o) THEN NextSeq(r) + 1 ELSE @]
    /\ acked' = IF o = "ok" THEN [acked EXCEPT ![r] = @ \cup {NextSeq(r)}] ELSE acked

Room(r) == Len(events[r].lines) < MaxLines

NoItem == EventRecord(0, "none", 0)

-----------------------------------------------------------------------------
Init ==
    /\ index = NoFile
    /\ events = [r \in RunIds |-> NoFile]
    /\ phase = "down"
    /\ runs = [r \in RunIds |-> "unknown"]
    /\ open_run_id = 0
    /\ next_seq = [r \in RunIds |-> 0]
    /\ queue = <<>>
    /\ item = NoItem
    /\ held = 0
    /\ effect = 0
    /\ minted = 0
    /\ ticks = 0
    /\ failures = 0
    /\ lives = 0
    /\ acked = [r \in RunIds |-> {}]

TypeOK ==
    /\ index \in [lines : Seq([run : RunIds, st : CloseReasons \cup {"open"}] \cup {TornRun}),
                  terminated : BOOLEAN, synced : 0..Len(index.lines),
                  entry : {"none", "volatile", "durable"}]
    /\ \A r \in RunIds :
          events[r] \in [lines : Seq([seq : Nat \ {0}, cat : Categories, tick : 0..MaxTicks]
                                     \cup {TornEvent}),
                         terminated : BOOLEAN, synced : 0..Len(events[r].lines),
                         entry : {"none", "volatile", "durable"}]
    /\ phase \in {"down", "recovering", "off", "up", "stopping", "exited"}
    /\ runs \in [RunIds -> CloseReasons \cup {"unknown", "open"}]
    /\ open_run_id \in {0} \cup {r \in RunIds : runs[r] = "open"}
    /\ next_seq \in [RunIds -> Nat]
    /\ queue \in Seq([seq : {0}, cat : Categories, tick : 1..MaxTicks]) /\ Len(queue) <= MaxQueue
    /\ item \in [seq : {0}, cat : Categories, tick : 1..MaxTicks] \cup {NoItem}
    /\ held \in {0} \cup RunIds
    /\ effect \in 0..MaxTicks
    /\ acked \in [RunIds -> SUBSET (Nat \ {0})]

-----------------------------------------------------------------------------
(* Operations, under mutex_.                                               *)

\* open(): the record must reach storage, the run_opened event need not.
Open ==
    /\ phase = "up" /\ open_run_id = 0 /\ minted < MaxRuns
    /\ minted' = minted + 1
    /\ \E o \in Outcomes(index) :
          /\ AppendRecord(minted', "open", o)
          /\ \/ /\ o # "ok"
                /\ failures' = failures + 1
                /\ UNCHANGED <<events, memory, acked>>
             \/ /\ o = "ok"
                /\ runs' = [runs EXCEPT ![minted'] = "open"]
                /\ open_run_id' = minted'
                /\ \E e \in Outcomes(events[minted']) :
                      /\ AppendEvent(minted', "run_opened", 0, e)
                      /\ failures' = failures + Count(e)
    /\ UNCHANGED <<phase, queue, item, held, tickVars, lives>>

\* The end of close().
ForgetOpen(r) == open_run_id' = IF open_run_id = r THEN 0 ELSE open_run_id

\* close() of an open run; of a closed run it is a no-op and of an unknown one an
\* error.
Close(r, reason) ==
    /\ phase = "up" /\ runs[r] = "open"
    /\ \E o \in Outcomes(index) :
          /\ AppendRecord(r, reason, o)
          /\ \/ /\ o # "ok"
                /\ failures' = failures + 1
                /\ UNCHANGED <<events, memory, acked>>
             \/ /\ o = "ok"
                /\ runs' = [runs EXCEPT ![r] = reason]
                /\ ForgetOpen(r)
                /\ \E e \in Outcomes(events[r]) :
                      /\ AppendEvent(r, "run_closed", 0, e)
                      /\ failures' = failures + Count(e)
    /\ UNCHANGED <<phase, queue, item, held, tickVars, minted, lives>>


\* append_event(): refused for an unknown or a closed run.
AppendEventTo(r, cat) ==
    \/ /\ runs[r] = "open" /\ Room(r)
       /\ \E o \in Outcomes(events[r]) :
             /\ AppendEvent(r, cat, 0, o)
             /\ failures' = failures + Count(o)
    \/ /\ runs[r] # "open"
       /\ UNCHANGED <<events, next_seq, acked, failures>>

\* The callbacks of a mode or parameter change off the tick thread ask for the open
\* run, release mutex_, and then append to it.  A client's POST /v0/runs/{id}/events
\* takes the same two steps: its id is of a run that was open when it was told so.
HoldOpenRun ==
    /\ phase = "up" /\ held = 0 /\ open_run_id # 0
    /\ held' = open_run_id
    /\ UNCHANGED <<files, phase, memory, queue, item, tickVars, minted, failures, lives, acked>>

AppendHeld ==
    /\ phase = "up" /\ held # 0
    /\ AppendEventTo(held, "annotation")
    /\ held' = 0
    /\ UNCHANGED <<index, phase, runs, open_run_id, queue, item, tickVars, minted, lives>>

-----------------------------------------------------------------------------
(* The tick thread and the writer, over queue_mutex_.                      *)

\* enqueue_event(): dropped when the queue is full.
Enqueue(cat, t) ==
    queue' = IF Len(queue) >= MaxQueue THEN queue ELSE Append(queue, EventRecord(0, cat, t))

\* enqueue_fault() of a tick that goes on, or that threw and now asks for FAULT.
EnqueueFault ==
    /\ phase = "up" /\ effect = 0 /\ ticks < MaxTicks
    /\ ticks' = ticks + 1
    /\ Enqueue("automation_fault", ticks')
    /\ effect' \in {0, ticks'}
    /\ UNCHANGED <<files, phase, memory, item, held, minted, failures, lives, acked>>


\* record_mode_change() on the tick thread, behind the fault that caused it.
TickModeChange ==
    /\ phase = "up" /\ effect # 0
    /\ Enqueue("mode_change", effect)
    /\ effect' = 0
    /\ UNCHANGED <<files, phase, memory, item, held, ticks, minted, failures, lives, acked>>

\* A broken writer_loop: an event waits in the queue for a run to be open.
WriterTakeForRun ==
    /\ phase \in {"up", "stopping"} /\ item = NoItem /\ queue # <<>>
    /\ open_run_id # 0
    /\ item' = Head(queue)
    /\ queue' = Tail(queue)
    /\ UNCHANGED <<files, phase, memory, held, tickVars, minted, failures, lives, acked>>

\* writer_loop: pop the front of the queue ...
WriterTake ==
    /\ phase \in {"up", "stopping"} /\ item = NoItem /\ queue # <<>>
    /\ item' = Head(queue)
    /\ queue' = Tail(queue)
    /\ UNCHANGED <<files, phase, memory, held, tickVars, minted, failures, lives, acked>>

\* ... and persist it against whichever run is open now.
WriterPersist ==
    /\ phase \in {"up", "stopping"} /\ item # NoItem
    /\ \/ /\ open_run_id = 0
          /\ UNCHANGED <<events, next_seq, acked, failures>>
       \/ /\ open_run_id # 0
          /\ \E o \in Outcomes(events[open_run_id]) :
                /\ AppendEvent(open_run_id, item.cat, item.tick, o)
                /\ failures' = failures + Count(o)
    /\ item' = NoItem
    /\ UNCHANGED <<index, phase, runs, open_run_id, queue, held, tickVars, minted, lives>>

\* ~RunJournal, after the tick thread and the HTTP threads have stopped.
Stop ==
    /\ phase = "up" /\ held = 0 /\ effect = 0
    /\ phase' = "stopping"
    /\ UNCHANGED <<files, memory, queue, item, held, tickVars, minted, failures, lives, acked>>

\* The writer stops once the queue is empty.
WriterStop ==
    /\ phase = "stopping" /\ item = NoItem /\ queue = <<>>
    /\ phase' = "exited"
    /\ UNCHANGED <<files, memory, queue, item, held, tickVars, minted, failures, lives, acked>>

-----------------------------------------------------------------------------
(* Crashes and recovery.                                                   *)

\* What a power cut may leave of a file.
AfterPowerCut(f, torn) ==
    {f}
    \cup {[f EXCEPT !.lines = SubSeq(f.lines, 1, n), !.terminated = TRUE] : n \in f.synced..(Len(f.lines) - 1)}
    \cup {[f EXCEPT !.lines = Append(SubSeq(f.lines, 1, n), torn), !.terminated = FALSE] :
             n \in f.synced..(Len(f.lines) - 1)}
    \cup {g \in {NoFile} : EntryLoss /\ f.entry = "volatile"}

Crash ==
    /\ phase \notin {"down", "exited"} /\ lives < MaxLives
    /\ index' \in AfterPowerCut(index, TornRun)
    /\ events' \in {e \in [RunIds -> UNION {AfterPowerCut(events[r], TornEvent) : r \in RunIds}] :
                       \A r \in RunIds : e[r] \in AfterPowerCut(events[r], TornEvent)}
    /\ phase' = "down"
    /\ open_run_id' = 0
    /\ next_seq' = [r \in RunIds |-> 0]
    /\ queue' = <<>>
    /\ item' = NoItem
    /\ held' = 0
    /\ effect' = 0
    /\ UNCHANGED <<runs, minted, ticks, failures, lives, acked>>

\* The state the log gives a run: its last readable record.
Replayed(r) ==
    LET about == SelectSeq(index.lines, LAMBDA line : line.run = r)
    IN IF about = <<>> THEN "unknown" ELSE about[Len(about)].st

\* initialize(), first half: rebuild the index from the log.
Load ==
    /\ phase \in {"down", "exited"} /\ lives < MaxLives
    /\ lives' = lives + 1
    /\ phase' = "recovering"
    /\ runs' = [r \in RunIds |-> Replayed(r)]
    /\ open_run_id' = 0
    /\ next_seq' = [r \in RunIds |-> 0]
    /\ UNCHANGED <<files, queue, item, held, tickVars, minted, failures, acked>>

LeftOpen == {r \in RunIds : runs[r] = "open"}

\* initialize(), the loop: the oldest run left open is closed as abandoned.  A record
\* that cannot be stored leaves the runtime without a registry.
Abandon(r) ==
    /\ phase = "recovering" /\ r \in LeftOpen /\ \A q \in LeftOpen : r <= q
    /\ runs' = [runs EXCEPT ![r] = "abandoned"]
    /\ \E o \in Outcomes(index) :
          /\ AppendRecord(r, "abandoned", o)
          /\ \/ /\ o # "ok"
                /\ phase' = "off"
                /\ failures' = failures + 1
                /\ UNCHANGED <<events, next_seq, acked>>
             \/ /\ o = "ok"
                /\ \E e \in Outcomes(events[r]) :
                      /\ AppendEvent(r, "run_closed", 0, e)
                      /\ failures' = failures + Count(e)
                /\ UNCHANGED phase
    /\ UNCHANGED <<open_run_id, queue, item, held, tickVars, minted, lives>>

\* initialize(), the end: the writer starts.
Recovered ==
    /\ phase = "recovering" /\ LeftOpen = {}
    /\ phase' = "up"
    /\ UNCHANGED <<files, memory, queue, item, held, tickVars, minted, failures, lives, acked>>

-----------------------------------------------------------------------------
Writer == WriterTake \/ WriterPersist \/ WriterStop

Next ==
    \/ Open \/ HoldOpenRun \/ AppendHeld
    \/ \E r \in RunIds : Abandon(r) \/ \E c \in AskedReasons : Close(r, c)
    \/ EnqueueFault \/ TickModeChange \/ Writer \/ Stop
    \/ Crash \/ Load \/ Recovered

Spec == Init /\ [][Next]_vars

\* The writer thread runs, and mutex_ does not starve it.
Fairness == WF_vars(Writer)

FairSpec == Spec /\ Fairness

-----------------------------------------------------------------------------
\* A run the journal reports closed is closed for the same reason in what the next
\* start will read, through torn lines, failed syncs and earlier recoveries.
ClosedIsLogged ==
    phase \in {"up", "stopping"} =>
        \A r \in RunIds : runs[r] \in CloseReasons => Replayed(r) = runs[r]

\* "a fault is journaled before the FAULT transition it caused" (run_journal.hpp):
\* no stream has a tick's mode change before that tick's fault.
CauseBeforeEffect ==
    \A r \in RunIds : \A i, j \in DOMAIN Stream(r) :
        i < j => ~(/\ Stream(r)[i].cat = "mode_change" /\ Stream(r)[j].cat = "automation_fault"
                   /\ Stream(r)[i].tick = Stream(r)[j].tick)

\* A clean exit leaves no event behind in memory.
StopDrains == phase = "exited" => queue = <<>> /\ item = NoItem


\* A queued fault or mode change is handled, whether or not a run is open.
QueueDrains ==
    \A t \in 1..MaxTicks :
        (\E i \in DOMAIN queue : queue[i].tick = t) ~> (\A i \in DOMAIN queue : queue[i].tick # t)

\* The journal implements the registry its clients are promised: one open run, closed
\* runs immutable, no acknowledged run or event lost, no acknowledged sequence number
\* used again.
Registry == INSTANCE RunRegistry WITH
    Reasons <- CloseReasons,
    live <- phase \in {"up", "stopping"},
    state <- runs,
    stream <- [r \in RunIds |-> SeqNumbers(Stream(r))]


=============================================================================
