---------------------------- MODULE RunRegistry -----------------------------
(***************************************************************************)
(* What the run journal promises its clients, with no file in sight: at    *)
(* most one run is open, a closed run stays closed for the same reason and *)
(* gets no further event, a run once opened is never forgotten, and an     *)
(* event once acknowledged stays in its stream, whose sequence numbers     *)
(* never fall and never repeat one that was acknowledged.  All of it       *)
(* across crashes and restarts.                                            *)
(***************************************************************************)
EXTENDS Integers, Sequences

CONSTANTS RunIds, Reasons

VARIABLES live,    \* the registry answers
          state,   \* what it last said of each run: "unknown", "open" or a close reason
          stream,  \* the sequence numbers of each run's readable events, in order
          acked    \* the sequence numbers acknowledged to a caller

vars == <<live, state, stream, acked>>

Closed(r) == state[r] \in Reasons

Ordered(s) == \A i, j \in DOMAIN s : i < j => s[i] <= s[j]

Elements(s) == {s[i] : i \in DOMAIN s}

Init ==
    /\ live = FALSE
    /\ state = [r \in RunIds |-> "unknown"]
    /\ stream = [r \in RunIds |-> <<>>]
    /\ acked = [r \in RunIds |-> {}]

\* At most one event is added to the stream of r, and acknowledged or not.
MayWrite(r) ==
    \/ UNCHANGED <<stream, acked>>
    \/ /\ Len(stream'[r]) = Len(stream[r]) + 1
       /\ LET seq == stream'[r][Len(stream'[r])] IN
          /\ stream' = [stream EXCEPT ![r] = Append(@, seq)]
          /\ Ordered(stream'[r]) /\ seq \notin acked[r]
          /\ acked' \in {acked, [acked EXCEPT ![r] = @ \cup {seq}]}

Open(r) ==
    /\ live /\ state[r] = "unknown"
    /\ \A q \in RunIds : state[q] # "open"
    /\ state' = [state EXCEPT ![r] = "open"]
    /\ MayWrite(r)
    /\ UNCHANGED live

Write(r) ==
    /\ live /\ state[r] = "open"
    /\ MayWrite(r)
    /\ UNCHANGED <<live, state>>

Close(r) ==
    /\ live /\ state[r] = "open"
    /\ \E c \in Reasons : state' = [state EXCEPT ![r] = c]
    /\ MayWrite(r)
    /\ UNCHANGED live

\* Going down, and what is found and repaired before the registry answers again:
\* unacknowledged events may be lost, a run that was open is closed, one whose
\* opening was never acknowledged may turn up closed.
Recover ==
    /\ live' = FALSE \/ \A r \in RunIds : state'[r] # "open"
    /\ \A r \in RunIds :
          /\ Closed(r) => state'[r] = state[r]
          /\ state[r] = "open" => state'[r] # "unknown"
          /\ Ordered(stream'[r])
          /\ acked[r] \subseteq acked'[r] /\ acked'[r] \subseteq Elements(stream'[r])

Next == (\E r \in RunIds : Open(r) \/ Write(r) \/ Close(r)) \/ (~(live /\ live') /\ Recover)

Spec == Init /\ [][Next]_vars

=============================================================================
