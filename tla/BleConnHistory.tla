--------------------------- MODULE BleConnHistory ---------------------------
(***************************************************************************)
(* BleConn with history variables, for the properties that relate a        *)
(* step to what users and the task did some steps before.  They record the *)
(* run and constrain nothing.                                              *)
(***************************************************************************)
EXTENDS BleConn

CONSTANT MaxTries   \* bound: attempts are counted up to here

ASSUME MaxTriesIsEnough == MaxTries \in Nat /\ MaxTries > 2

VARIABLES
    tries,      \* attempts started since the last call, drop or session
    owed,       \* a wake has had neither an attempt nor a session yet
    late        \* the link came up after its connect had been cancelled

hvars == <<vars, tries, owed, late>>

HInit == Init /\ tries = 0 /\ owed = FALSE /\ late = FALSE

\* One more attempt, or a new reason to attempt.
CountTries ==
    tries' = IF PublicCall \/ LinkLost \/ ClaimAuthenticated THEN 0
             ELSE IF StartAttempt /\ tries < MaxTries THEN tries + 1
             ELSE tries

\* A wake outside a session is owed an attempt that starts after it.
NoteDebt ==
    owed' = IF \/ StartAttempt \/ connState' = "AUTHENTICATED"
               \/ suspended' \/ targetAddr' = NoMower THEN FALSE
            ELSE owed \/ ForceWake

\* A link stays late until it is closed, or an attempt takes it over.
NoteLate ==
    late' = /\ acl' = "up" /\ ~(pc = "dial" /\ pc' = "gatt")
            /\ late \/ acl = "cancelling"

HNext == Next /\ CountTries /\ NoteDebt /\ NoteLate

HSpec     == HInit /\ [][HNext]_hvars
FairHSpec == HSpec /\ Fairness

\* A wake, or a drop, costs the mower two attempts at the most: with the
\* re-check off, one-shot flags that are consumed by one thread and set by
\* three do not add up to more (a park under confirmation is another matter).
RetriesAreBounded == idleRecheck = 0 /\ ~confirmArrival => tries <= 2

\* With the re-check on, every wake leads to a new attempt or to a session,
\* at the latest when the re-check is due: also one that comes in the middle
\* of an attempt, or as a link is lost.
DueWakeIsAttempted == owed /\ idleRecheck # 0 ~> ~owed

\* An open link that nobody looks after is one whose connect was cancelled too
\* late: do_connect_and_handshake and the calls that end a session leave none
\* behind themselves, however they interleave, and one that comes late while the
\* next address type is due is taken over.
UnattendedIsLate ==
    pc = "sleep" /\ acl = "up" => late \/ (linkUp /\ connState = "AUTHENTICATED")

\* Where conn_task is while the controller has, or tries for, a link.
LinkOwner ==
    /\ acl = "up" =>
         \/ late
         \/ /\ linkUp
            /\ \/ pc = "await" /\ connSem
               \/ pc \in {"gatt", "enterHs", "phase1", "phase2", "phase3",
                         "claimAuth"}
               \/ /\ pc \in {"sleep", "firstPoll"} \cup AuthPcs
                  /\ connState = "AUTHENTICATED"
    /\ acl = "pending" => pc = "await"

\* Once BLE is suspended for an OTA the task ends what it was doing, lets go
\* of the link and starts nothing again.  A connect it had cancelled may still
\* complete: that link is left to the mower.
SuspendQuiesces == suspended ~> [](pc = "sleep" /\ (acl # "up" \/ late))

\* The confirmation of a park does not keep a manual-only bridge trying: when no
\* wake, retry or lost contact earns attempts any more, they come to an end.
ConfirmationIsBounded ==
    <>[](idleRecheck = 0 /\ connState # "IDLE" /\ ~lostContactRecheck
           /\ ~wakeRetryPending /\ ~userWake)
      => <>[](pc \notin TakePcs)
=============================================================================
