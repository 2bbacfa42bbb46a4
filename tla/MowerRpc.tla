------------------------------ MODULE MowerRpc ------------------------------
(***************************************************************************)
(* Questions and answers on an authenticated link                          *)
(* (components/ble/ble_manager.cpp: write_frame, rx_flush, rx_wait,        *)
(* rx_take, _send_query, send_command, the NOTIFY_RX branch of             *)
(* gap_event_cb, and the recipes of conn_task that send several commands). *)
(*                                                                         *)
(* conn_task and the tasks that save or read a schedule take turns:        *)
(* _ble_io_mutex covers one question, its retry included.  They share one  *)
(* receive buffer and one binary semaphore, which NOTIFY_RX and            *)
(* on_disconnect_logic() give.  Bytes are in FrameCodec; a frame here is   *)
(* the question it asks, and an answer arrives in Parts notifications.     *)
(*                                                                         *)
(* The mower is external: it works off the requests it hears in order, may *)
(* ignore or decline one, may not answer, and may be late: a wait can time *)
(* out while the answer is on its way.                                     *)
(*                                                                         *)
(* clean and agreed are history, which nothing reads: no question of the   *)
(* job was asked while the answer to another one could still come; and all *)
(* of them were answered well, those whose answer is ignored included.     *)
(***************************************************************************)
EXTENDS Naturals, Sequences

CONSTANTS
    ConnTask, Saver,    \* the two tasks that ask
    Nobody,             \* the mutex is free
    NoJob,              \* a task that asks nothing
    Parts,              \* notifications per answer
    RxParts,            \* notifications that fit into _rx_buf
    MaxLag,             \* external bound: the requests a mower keeps
    MaxJobs             \* bound: the jobs of a run

Asks == {"auto", "home", "mow", "park", "clear", "trigger", "enable", "level",
         "single", "state", "task"}
Names == {"mow", "park", "park for good", "resume", "lawn", "single", "poll", "read"}
Steps == [ask : Asks, twice : BOOLEAN, needsOk : BOOLEAN, counts : BOOLEAN]
Jobs  == [name : Names, steps : Seq(Steps) \ {<< >>}]

ASSUME RpcConstants ==
    /\ ConnTask # Saver /\ Nobody \notin {ConnTask, Saver} /\ NoJob \notin Jobs
    /\ Parts \in Nat \ {0} /\ RxParts \in Nat /\ RxParts >= Parts
    /\ MaxLag \in Nat /\ MaxJobs \in Nat

VARIABLES
    link,       \* is_connected()
    rx,         \* the first _rx_len bytes of _rx_buf, as notifications
    sem,        \* _rx_sem
    giving,     \* NOTIFY_RX has a frame and is about to give _rx_sem
    mutex,      \* holder of _ble_io_mutex
    job,        \* per task: what it does, with the steps left of it
    pc,         \* per task: where it is in the step at hand
    try,        \* per task: attempt of send_command()
    good,       \* per task: ok of the job so far
    clean, agreed,  \* per task: history
    owed,       \* external: requests the mower has not worked off
    air,        \* external: notifications on their way
    mode,       \* external: "home" or "auto"
    override,   \* external: "none", "mow" or "park"
    set,        \* external: the settings that were carried out
    jobs        \* bound: jobs started so far

rxVars    == <<rx, sem, giving>>
taskVars  == <<job, pc, try, good, clean, agreed>>
modeVars  == <<mode, override, set>>
mowerVars == <<owed, air, modeVars>>
vars == <<link, rxVars, mutex, taskVars, mowerVars, jobs>>

Callers == {ConnTask, Saver}

-----------------------------------------------------------------------------
(* What conn_task and a saver send, in order *)

Command(ask) == [ask |-> ask, twice |-> TRUE, needsOk |-> FALSE,
                 counts |-> TRUE]
Query(ask)    == [Command(ask) EXCEPT !.twice = FALSE]
IfOk(step)    == [step EXCEPT !.needsOk = TRUE]
Ignored(step) == [step EXCEPT !.counts = FALSE]

\* cmd 1: AUTO is forced first, whatever comes of it; the trigger needs the
\* override.  cmd 2, for a time or until the next start: the same without AUTO.
Mow == <<Ignored(Command("auto")), Command("mow"), IfOk(Command("trigger"))>>
Park == <<Command("park"), IfOk(Command("trigger"))>>
\* Only the last result is reported.
Bug_ParkForGood == <<Ignored(Command("clear")), Ignored(Command("home")),
                     Command("trigger")>>

\* cmd 16 and 17: all three are sent and all three count.
ParkForGood == <<Command("clear"), Command("home"), Command("trigger")>>
Resume      == <<Command("clear"), Command("auto"), Command("trigger")>>
\* cmd 9 to 11, and the commands of a single frame (pause, frost, garage, ...).
LawnSense   == <<Command("enable"), Command("level")>>
Single      == <<Command("single")>>
\* do_status_poll() and _read_schedule(), one question of each.
Poll         == <<Query("state")>>
ReadSchedule == <<Query("task")>>

-----------------------------------------------------------------------------
Init ==
    /\ link = TRUE /\ rx = << >> /\ sem = FALSE /\ giving = FALSE /\ mutex = Nobody
    /\ job = [c \in Callers |-> NoJob] /\ pc = [c \in Callers |-> "idle"]
    /\ try = [c \in Callers |-> 1]
    /\ good = [c \in Callers |-> TRUE]
    /\ clean = [c \in Callers |-> TRUE] /\ agreed = [c \in Callers |-> TRUE]
    /\ owed = << >> /\ air = << >>
    /\ mode \in {"home", "auto"} /\ override = "none" /\ set = {}
    /\ jobs = 0

GoTo(c, to) == pc' = [pc EXCEPT ![c] = to]

Begin(c, name, steps) ==
    /\ pc[c] = "idle" /\ link /\ jobs < MaxJobs
    /\ jobs' = jobs + 1
    /\ job' = [job EXCEPT ![c] = [name |-> name, steps |-> steps]]
    /\ good' = [good EXCEPT ![c] = TRUE]
    /\ clean' = [clean EXCEPT ![c] = TRUE]
    /\ agreed' = [agreed EXCEPT ![c] = TRUE]
    /\ GoTo(c, "lock")
    /\ UNCHANGED <<link, rxVars, mutex, try, mowerVars>>

Work ==
    \/ Begin(ConnTask, "mow", Mow)
    \/ Begin(ConnTask, "park", Park)
    \/ Begin(ConnTask, "park for good", ParkForGood)
    \/ Begin(ConnTask, "resume", Resume)
    \/ Begin(ConnTask, "lawn", LawnSense)
    \/ Begin(ConnTask, "single", Single)
    \/ Begin(ConnTask, "poll", Poll)
    \/ Begin(Saver, "read", ReadSchedule)

-----------------------------------------------------------------------------
(* One question: _send_query() and send_command() *)

At(c) == Head(job[c].steps)

\* The call returns ok; the job goes on or ends.
Return(c, ok) ==
    LET g    == good[c] /\ (ok \/ ~At(c).counts)
        rest == Tail(job[c].steps)
        more == rest # << >> /\ (Head(rest).needsOk => g)
    IN  /\ good' = [good EXCEPT ![c] = g]
        /\ agreed' = [agreed EXCEPT ![c] = @ /\ ok]
        /\ job' = [job EXCEPT ![c] = IF more THEN [@ EXCEPT !.steps = rest]
                                             ELSE NoJob]
        /\ GoTo(c, IF more THEN "lock" ELSE "idle")
        /\ try' = [try EXCEPT ![c] = 1]

Unlock == mutex' = Nobody
\* The early return forgets the mutex.
Bug_GiveUp(c) == Return(c, FALSE) /\ UNCHANGED mutex

GiveUp(c) == Return(c, FALSE) /\ Unlock

\* send_command() asks once more; _send_query() does not.
Unanswered(c) ==
    \/ /\ At(c).twice /\ try[c] = 1
       /\ try' = [try EXCEPT ![c] = 2] /\ GoTo(c, "flush")
       /\ UNCHANGED <<job, good, agreed, mutex>>
    \/ ~(At(c).twice /\ try[c] = 1) /\ GiveUp(c)

\* The turn comes, or does not within 5 s.
Lock(c) ==
    /\ pc[c] = "lock"
    /\ \/ /\ mutex = Nobody /\ mutex' = c /\ GoTo(c, "flush")
          /\ UNCHANGED <<job, try, good, agreed>>
       \/ mutex # Nobody /\ Return(c, FALSE) /\ UNCHANGED mutex
    /\ UNCHANGED <<link, rxVars, clean, mowerVars, jobs>>

\* Answers to other questions may still come: the history of a question.
Outstanding(c) ==
    \/ try[c] = 1 /\ (owed # << >> \/ air # << >>)
    \/ \E i \in DOMAIN owed : owed[i] # At(c).ask
    \/ \E i \in DOMAIN air : air[i].to # At(c).ask
NoteClean(c) == clean' = [clean EXCEPT ![c] = @ /\ ~Outstanding(c)]

\* NOTIFY_RX drops what finds _rx_mutex busy for 10 ms: its holder is emptying
\* the buffer.
Missed ==
    \/ UNCHANGED air
    \/ ~giving /\ air # << >>
       /\ air' \in {SubSeq(air, i, Len(air)) : i \in 2..Len(air) + 1}

\* The buffer is not emptied.
Bug_Flush(c) ==
    /\ pc[c] = "flush"
    /\ \/ At(c).twice /\ ~link /\ GiveUp(c) /\ UNCHANGED <<clean, air>>
       \/ /\ ~At(c).twice \/ link
          /\ Missed /\ GoTo(c, "drain") /\ NoteClean(c)
          /\ UNCHANGED <<job, try, good, agreed, mutex>>
    /\ UNCHANGED <<link, rxVars, owed, modeVars, jobs>>

\* send_command() asks only on a link; rx_flush() empties the buffer,
Flush(c) ==
    /\ pc[c] = "flush"
    /\ \/ At(c).twice /\ ~link /\ GiveUp(c) /\ UNCHANGED <<rx, clean, air>>
       \/ /\ ~At(c).twice \/ link
          /\ rx' = << >> /\ Missed /\ GoTo(c, "drain") /\ NoteClean(c)
          /\ UNCHANGED <<job, try, good, agreed, mutex>>
    /\ UNCHANGED <<link, sem, giving, owed, modeVars, jobs>>

\* and then takes back a signal.
Drain(c) ==
    /\ pc[c] = "drain"
    /\ sem' = FALSE /\ GoTo(c, "write")
    /\ UNCHANGED <<link, rx, giving, mutex, job, try, good, clean, agreed,
                   mowerVars, jobs>>

\* write_frame() fails without a link, and when the host refuses a chunk.
Write(c) ==
    /\ pc[c] = "write"
    /\ \/ /\ link /\ GoTo(c, "wait")
          /\ owed' = IF Len(owed) < MaxLag THEN Append(owed, At(c).ask) ELSE owed
          /\ UNCHANGED <<job, try, good, agreed, mutex>>
       \/ GiveUp(c) /\ UNCHANGED owed
    /\ UNCHANGED <<link, rxVars, clean, air, modeVars, jobs>>

Woken(c) ==
    /\ pc[c] = "wait" /\ sem
    /\ sem' = FALSE /\ GoTo(c, "take")
    /\ UNCHANGED <<link, rx, giving, mutex, job, try, good, clean, agreed,
                   mowerVars, jobs>>

Timeout(c) ==
    /\ pc[c] = "wait" /\ ~sem
    /\ Unanswered(c)
    /\ UNCHANGED <<link, rxVars, clean, mowerVars, jobs>>

\* decode_response(): header and length belong to the first notification, the
\* end mark to the last; the CRC over all of them is not tested.
Decodes == Len(rx) = Parts /\ rx[1].part = 1 /\ rx[Parts].part = Parts

\* rx_take().  Which question the answer is to is not looked at; _send_query()
\* leaves the result to its caller.
Take(c) ==
    /\ pc[c] = "take"
    /\ rx' = << >> /\ Missed
    /\ \/ Decodes /\ Return(c, rx[1].ok \/ ~At(c).twice) /\ Unlock
       \/ ~Decodes /\ Unanswered(c)
    /\ UNCHANGED <<link, sem, giving, clean, owed, modeVars, jobs>>

CallStep(c) ==
    \/ Lock(c) \/ Flush(c) \/ Drain(c) \/ Write(c) \/ Woken(c) \/ Timeout(c)
    \/ Take(c)

-----------------------------------------------------------------------------
(* The NimBLE host *)

\* The buffer starts with a frame and has its length.
IsComplete(buf) == buf[1].part = 1 /\ Len(buf) >= Parts

Bug_Appended(part) == Append(rx, part)

\* A buffer that would overflow starts again.
Appended(part) == IF Len(rx) = RxParts THEN <<part>> ELSE Append(rx, part)

\* NOTIFY_RX: what follows a complete frame is cut off.
Notify ==
    /\ ~giving /\ air # << >> /\ air' = Tail(air)
    /\ LET buf == Appended(Head(air))
       IN  /\ rx' = IF IsComplete(buf) THEN SubSeq(buf, 1, Parts) ELSE buf
           /\ giving' = IsComplete(buf)
    /\ UNCHANGED <<link, sem, mutex, taskVars, owed, modeVars, jobs>>

\* The semaphore is given after _rx_mutex was returned.
GiveSignal ==
    /\ giving /\ giving' = FALSE /\ sem' = TRUE
    /\ UNCHANGED <<link, rx, mutex, taskVars, mowerVars, jobs>>

\* on_disconnect_logic() ends every wait.  Nothing comes over the air any more,
\* but the mower may still carry out what it heard.
Drop ==
    /\ link /\ ~giving /\ link' = FALSE /\ sem' = TRUE
    /\ air' = << >>
    /\ UNCHANGED <<rx, giving, mutex, taskVars, owed, modeVars, jobs>>

\* conn_task connects again; its handshake flushes the buffer.
Reconnect ==
    /\ ~link /\ pc[ConnTask] = "idle"
    /\ link' = TRUE /\ rx' = << >> /\ sem' = FALSE
    /\ UNCHANGED <<giving, mutex, taskVars, mowerVars, jobs>>

-----------------------------------------------------------------------------
(* The mower *)

Answers(ask, ok) ==
    air' = [i \in 1..Parts |-> [to |-> ask, ok |-> ok, part |-> i]]

CarryOut(ask) ==
    /\ mode' = IF ask \in {"home", "auto"} THEN ask ELSE mode
    /\ override' = CASE ask = "clear"           -> "none"
                     [] ask \in {"mow", "park"} -> ask
                     [] OTHER                   -> override
    /\ set' = set \cup ({ask} \cap {"enable", "level", "single"})

\* One answer at a time, and none without a link; a request that is one too many
\* is not heard.
MowerWorks ==
    /\ owed # << >> /\ owed' = Tail(owed) /\ air = << >>
    /\ \/ link /\ CarryOut(Head(owed)) /\ Answers(Head(owed), TRUE)
       \/ link /\ Answers(Head(owed), FALSE) /\ UNCHANGED modeVars
       \/ CarryOut(Head(owed)) /\ UNCHANGED air
       \/ UNCHANGED <<air, modeVars>>
    /\ UNCHANGED <<link, rxVars, mutex, taskVars, jobs>>

-----------------------------------------------------------------------------
Next ==
    \/ Work \/ \E c \in Callers : CallStep(c)
    \/ Notify \/ GiveSignal \/ Drop \/ Reconnect \/ MowerWorks

Spec == Init /\ [][Next]_vars

-----------------------------------------------------------------------------
(* Properties *)

Pcs  == {"idle", "lock", "flush", "drain", "write", "wait", "take"}

TypeOK ==
    /\ link \in BOOLEAN /\ sem \in BOOLEAN /\ giving \in BOOLEAN
    /\ rx \in Seq([to : Asks, ok : BOOLEAN, part : 1..Parts])
    /\ Len(rx) <= RxParts
    /\ mutex \in Callers \cup {Nobody}
    /\ pc \in [Callers -> Pcs] /\ try \in [Callers -> {1, 2}]
    /\ \A c \in Callers : IF pc[c] = "idle" THEN job[c] = NoJob ELSE job[c] \in Jobs
    /\ good \in [Callers -> BOOLEAN] /\ clean \in [Callers -> BOOLEAN]
    /\ agreed \in [Callers -> BOOLEAN]
    /\ owed \in Seq(Asks)
    /\ mode \in {"home", "auto"} /\ override \in {"none", "mow", "park"}
    /\ set \subseteq {"enable", "level", "single"}

\* One turn at a time, the buffer with it: whoever is between rx_flush() and
\* rx_take() holds _ble_io_mutex, on every path that leaves the call.
OneQuestionAtATime ==
    \A c \in Callers : pc[c] \in Pcs \ {"idle", "lock"} <=> mutex = c

\* An answer that is taken answers the question that was asked, although the
\* code never compares the two, unless the answer to another question could
\* still come when it was asked: nothing received before a question answers it.
AnswerIsOurs ==
    [][\A c \in Callers : Take(c) /\ clean[c] /\ Decodes => rx[1].to = At(c).ask]_vars

\* Late or not, what is decoded is one answer of the mower, never the pieces
\* of two, also when a notification in between was lost.
AnswerIsWhole ==
    [][\A c \in Callers : Take(c) /\ Decodes =>
         \A i \in 1..Parts : rx[i].to = rx[1].to /\ rx[i].part = i]_vars

\* A mow is an override of AUTO: HOME mode keeps the mower parked.
Achieved(name) ==
    CASE name = "mow"           -> mode = "auto" /\ override = "mow"
      [] name = "park"          -> override = "park"
      [] name = "park for good" -> mode = "home" /\ override = "none"
      [] name = "resume"        -> mode = "auto" /\ override = "none"
      [] name = "lawn"          -> {"enable", "level"} \subseteq set
      [] name = "single"        -> name \in set

Ends(name) ==
    /\ pc[ConnTask] # "idle" /\ pc'[ConnTask] = "idle" /\ good'[ConnTask]
    /\ clean[ConnTask] /\ job[ConnTask].name = name

\* A command that is logged as OK has put the mower in the state it stands
\* for, with drops, retries, refusals and another task in between.  A mow has
\* only if the mower also agreed to AUTO, which the code does not look at.
OkIsAchieved ==
    [][\A name \in {"mow", "park", "park for good", "resume", "lawn", "single"} :
         Ends(name) /\ (name = "mow" => agreed'[ConnTask]) => Achieved(name)']_vars

\* A mow that is logged as OK works even after a park until further notice.
MowIsForced == [][Ends("mow") => Achieved("mow")']_vars
=============================================================================
