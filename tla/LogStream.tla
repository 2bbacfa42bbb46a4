------------------------------ MODULE LogStream ------------------------------
(***************************************************************************)
(* The log ring (components/core/debug_log.cpp) and the event stream that  *)
(* shows it (components/web/web_server.cpp: sse_broadcast, sse_worker,     *)
(* h_sse).                                                                 *)
(*                                                                         *)
(* Any task logs: it takes a number and a slot under the mutex, and        *)
(* broadcasts after it has returned the mutex.  A stream runs on a task of *)
(* its own: it replays the end of the ring and then follows a queue.  A    *)
(* line is its number.                                                     *)
(*                                                                         *)
(* told, shown, since and overrun are history, which nothing reads: the    *)
(* lines that were to be broadcast, those the present client was sent, and *)
(* since it came, the first number and whether a line found no room.       *)
(***************************************************************************)
EXTENDS Integers, Sequences

CONSTANTS
    Tasks,      \* that log
    Lines,      \* DEBUG_LOG_LINES
    ReplayMax,  \* SSE_REPLAY_MAX
    QueueMax,   \* depth of _sse_q
    NoLine,
    MaxSeq, MaxClients      \* bounds

ASSUME LogConstants ==
    /\ Lines \in Nat \ {0} /\ ReplayMax \in Nat \ {0} /\ QueueMax \in Nat \ {0}
    /\ NoLine \notin Nat /\ MaxSeq \in Nat /\ MaxClients \in Nat

VARIABLES
    buf, head, seq,     \* _buf, _head and _seq
    mutex,      \* held by visit_all()
    logging,    \* per task: the number it is about to broadcast
    fd,         \* _sse_fd: a client, or -1
    queue,      \* _sse_q
    worker,     \* sse_worker(): "none", "visit", "copied", "live" or "leaving"
    snap,       \* what is left of the replay
    alive,      \* external: the client is there
    clients,    \* bound: requests so far, and the fd of the last one
    told, shown, since, overrun     \* history

ringVars   == <<buf, head, seq>>
streamVars == <<fd, worker, snap, shown, since>>
history    == <<told, shown, since, overrun>>
vars == <<ringVars, mutex, logging, queue, streamVars, alive, clients, told,
          overrun>>

Init ==
    /\ buf = [i \in 0..(Lines - 1) |-> NoLine] /\ head = 0 /\ seq = 0
    /\ mutex = FALSE /\ logging = [t \in Tasks |-> NoLine]
    /\ fd = -1 /\ queue = << >> /\ worker = "none" /\ snap = << >>
    /\ alive = FALSE /\ clients = 0
    /\ told = {} /\ shown = {} /\ since = 0 /\ overrun = FALSE

-----------------------------------------------------------------------------
(* debug_log *)

\* write() and, without the broadcast, write_serial().  A task that waits for the
\* mutex for 10 ms gives up, and nothing has changed.
Write(t) ==
    /\ logging[t] = NoLine /\ ~mutex /\ seq < MaxSeq
    /\ buf' = [buf EXCEPT ![head] = seq]
    /\ head' = (head + 1) % Lines /\ seq' = seq + 1
    /\ \/ logging' = [logging EXCEPT ![t] = seq] /\ told' = told \cup {seq}
       \/ UNCHANGED <<logging, told>>
    /\ UNCHANGED <<mutex, queue, streamVars, alive, clients, overrun>>

\* Only a stream that has done its replay is served.
Bug_Broadcast(t) ==
    /\ logging[t] # NoLine
    /\ logging' = [logging EXCEPT ![t] = NoLine]
    /\ IF fd # -1 /\ worker = "live" /\ Len(queue) < QueueMax
       THEN queue' = Append(queue, logging[t]) /\ UNCHANGED overrun
       ELSE UNCHANGED queue /\ overrun' = (overrun \/ Len(queue) = QueueMax)
    /\ UNCHANGED <<ringVars, mutex, streamVars, alive, clients, told>>

\* sse_broadcast(): dropped without a client, and when the queue is full.
Broadcast(t) ==
    /\ logging[t] # NoLine
    /\ logging' = [logging EXCEPT ![t] = NoLine]
    /\ IF fd # -1 /\ Len(queue) < QueueMax
       THEN queue' = Append(queue, logging[t]) /\ UNCHANGED overrun
       ELSE UNCHANGED queue /\ overrun' = (overrun \/ fd # -1)
    /\ UNCHANGED <<ringVars, mutex, streamVars, alive, clients, told>>

\* visit_all(): the last ReplayMax of the lines in the ring.
Count   == IF seq < Lines THEN seq ELSE Lines
Oldest  == IF seq < Lines THEN 0 ELSE head
Skipped == IF Count > ReplayMax THEN Count - ReplayMax ELSE 0
\* The ring is taken to begin at its first slot.
Bug_Recent ==
    [i \in 1..(Count - Skipped) |-> buf[(Skipped + i - 1) % Lines]]

Recent ==
    [i \in 1..(Count - Skipped) |-> buf[(Oldest + Skipped + i - 1) % Lines]]

-----------------------------------------------------------------------------
(* The stream *)

\* The slot is kept when there is no task.
Bug_Reject == fd' = clients' /\ UNCHANGED <<worker, since, shown, overrun>>

\* The handler could not detach the request, or there is no memory for a task.
Reject == fd' = -1 /\ UNCHANGED <<worker, since, shown, overrun>>

\* h_sse(): the slot is claimed before the worker runs; a second client is
\* turned away.
Open ==
    /\ clients < MaxClients /\ clients' = clients + 1
    /\ fd = -1
    /\ \/ /\ fd' = clients' /\ worker' = "visit" /\ alive' = TRUE
          /\ since' = seq /\ shown' = {} /\ overrun' = FALSE
       \/ Reject /\ UNCHANGED alive
    /\ UNCHANGED <<ringVars, mutex, logging, queue, snap, told>>

\* The worker, in visit_all(): the lines are copied under the mutex;
Copy ==
    /\ worker = "visit" /\ ~mutex /\ mutex' = TRUE
    /\ snap' = Recent /\ worker' = "copied"
    /\ UNCHANGED <<ringVars, logging, queue, fd, shown, since, alive, clients,
                   told, overrun>>
\* there may be no memory for the copy;
CopyFails ==
    /\ worker = "visit" /\ worker' = "live"
    /\ UNCHANGED <<ringVars, mutex, logging, queue, fd, snap, shown, since,
                   alive, clients, told, overrun>>
\* and then sent.
Release ==
    /\ worker = "copied" /\ mutex /\ mutex' = FALSE
    /\ UNCHANGED <<ringVars, logging, queue, streamVars, alive, clients, told,
                   overrun>>

SendTo(line) ==
    IF alive THEN shown' = shown \cup {line} /\ UNCHANGED worker
             ELSE worker' = "leaving" /\ UNCHANGED shown

Replay ==
    /\ worker = "copied" /\ ~mutex
    /\ \/ /\ snap # << >> /\ snap' = Tail(snap) /\ SendTo(Head(snap))
       \/ snap = << >> /\ worker' = "live" /\ UNCHANGED <<snap, shown>>
    /\ UNCHANGED <<ringVars, mutex, logging, queue, fd, since, alive, clients,
                   told, overrun>>

\* A stream that has nothing to send waits on.
Bug_Follow ==
    /\ worker = "live" /\ queue # << >> /\ queue' = Tail(queue)
    /\ SendTo(Head(queue))
    /\ UNCHANGED <<ringVars, mutex, logging, fd, snap, since, alive, clients,
                   told, overrun>>

\* A line from the queue, or a keepalive when there is none for 10 s.
Follow ==
    /\ worker = "live"
    /\ \/ /\ queue # << >> /\ queue' = Tail(queue) /\ SendTo(Head(queue))
       \/ /\ queue = << >> /\ ~alive
          /\ worker' = "leaving" /\ UNCHANGED <<queue, shown>>
    /\ UNCHANGED <<ringVars, mutex, logging, fd, snap, since, alive, clients,
                   told, overrun>>

\* The queue is left as it is.
Leave ==
    /\ worker = "leaving" /\ worker' = "none" /\ fd' = -1 /\ snap' = << >>
    /\ UNCHANGED <<ringVars, mutex, logging, queue, shown, since, alive, clients,
                   told, overrun>>

\* External: the page is closed.
ClientGoes ==
    /\ alive /\ alive' = FALSE
    /\ UNCHANGED <<ringVars, mutex, logging, queue, streamVars, clients, told,
                   overrun>>

Worker == Copy \/ CopyFails \/ Release \/ Replay \/ Follow \/ Leave

Next ==
    \/ \E t \in Tasks : Write(t) \/ Broadcast(t)
    \/ Open \/ Worker \/ ClientGoes

Spec == Init /\ [][Next]_vars
\* The scheduler runs the worker.
FairSpec == Spec /\ WF_vars(Worker)

-----------------------------------------------------------------------------
(* Properties *)

\* What a stream replays is the end of the log, in order and without a gap,
\* wherever the ring has wrapped and however little of it is asked for.
ReplayIsTheTail ==
    worker = "copied" /\ mutex =>
        /\ Len(snap) = Count - Skipped
        /\ \A i \in DOMAIN snap : snap[i] = seq - Len(snap) + i - 1

\* The hand-over from the replay to the queue has no gap: when the queue is
\* empty and nobody is about to broadcast, a client was sent every line since it
\* came, unless one found the queue full.
NoLineIsMissed ==
    /\ worker = "live" /\ queue = << >> /\ ~overrun
    /\ \A t \in Tasks : logging[t] = NoLine
    => {n \in told : n >= since} \subseteq shown

\* The one slot for a stream is taken exactly as long as there is a worker: no
\* failure on the way keeps the next client out, and no two workers share the
\* queue.
SlotIsAWorker == fd # -1 <=> worker # "none"

\* A page that was closed gives the slot back, whatever the worker was at.
SlotIsReleased == fd # -1 /\ ~alive ~> fd = -1
=============================================================================
