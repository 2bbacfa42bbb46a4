------------------------------- MODULE BleConn -------------------------------
(***************************************************************************)
(* The bridge's connection manager (components/ble/ble_manager.cpp): the   *)
(* task conn_task_fn, the GAP callbacks that run on the NimBLE host task,  *)
(* and the public calls that the web server and the MQTT client make from  *)
(* tasks of their own.  They share flags, a connection state and a few     *)
(* deadlines, and no lock covers them.                                     *)
(*                                                                         *)
(* A step of conn_task is the code between two places where it blocks, or  *)
(* between a check and the assignment that relies on it.  A public call    *)
(* and a callback are one step each.                                       *)
(*                                                                         *)
(* A deadline (_next_attempt_ms, _hold_until_ms, _confirm_deadline_ms) is  *)
(* kept as the time left to it, in coarse units, 0 once it has passed; the *)
(* action Elapse lets a unit go by.                                        *)
(*                                                                         *)
(* Definitions named Bug_X are not part of the model: Bug_X is a plausible *)
(* mistake in the code behind X, and a property that fails when X is       *)
(* replaced by Bug_X is known to depend on it.                             *)
(***************************************************************************)
EXTENDS Naturals

CONSTANTS
    Mowers,         \* the MAC addresses a user may enter
    NoMower,        \* the empty _target_addr
    Rechecks,       \* the values _idle_recheck_ms may take; 0 is manual-only
    WakeRetry,      \* WAKE_RETRY_MS
    ConfirmRecheck, \* CONFIRM_RECHECK_MS
    LostContact,    \* LOST_CONTACT_RECHECK_MS
    HoldAfterWake,  \* HOLD_AFTER_WAKE_MS
    HoldAfterCmd,   \* HOLD_AFTER_CMD_MS
    ConfirmMax,     \* CONFIRM_MAX_MS
    PollFailLimit,  \* POLL_FAIL_LIMIT
    Calls,          \* the public calls the environment makes
    MaxCalls        \* bound: how many of them

ASSUME ConnConstants ==
    /\ NoMower \notin Mowers
    /\ Rechecks \subseteq Nat
    /\ {WakeRetry, ConfirmRecheck, LostContact, HoldAfterWake, HoldAfterCmd,
        ConfirmMax} \subseteq Nat \ {0}
    /\ PollFailLimit \in Nat \ {0}
    /\ MaxCalls \in Nat

VARIABLES
    connState,      \* _conn_state
    targetAddr,     \* _target_addr, and its copy in NVS
    channel,        \* whose channel id NVS holds (NoMower: id 0)
    idleRecheck,    \* _idle_recheck_ms
    suspended,      \* _suspended
    scanning,       \* _scanning
    linkUp,         \* _link_up and _conn_handle: what is_connected() returns
    connSem,        \* _conn_sem
    acl,            \* what the controller really has
    peer,           \* the mower at the other end of it
    restPending, confirmArrival, lostContactRecheck, wakeRetryPending,
    wakeReadPending, userWake,      \* the flags of the same names
    nextIn, holdIn, confirmIn,      \* time left to the three deadlines
    pendingCmd,     \* _pending_cmd
    pollFail,       \* _poll_fail
    pollDue,        \* BLE_POLL_INTERVAL_MS has passed since _last_poll_ms
    answered,       \* the poll in progress has had its GetState answer
    reading,        \* what mower_is_benign_resting() makes of the telemetry
    pc, isUser, hadWakeRetry, variant,  \* conn_task: place and locals
    calls           \* how many public calls were made (bounds the model)

cfgVars  == <<targetAddr, channel, idleRecheck>>
hostVars == <<connSem, acl, peer>>
wakeVars == <<wakeRetryPending, wakeReadPending, userWake>>
pollVars == <<pollFail, pollDue, answered, reading>>
locals   == <<isUser, hadWakeRetry, variant>>
vars == <<connState, cfgVars, suspended, scanning, linkUp, hostVars,
          restPending, confirmArrival, lostContactRecheck, wakeVars,
          nextIn, holdIn, confirmIn, pendingCmd, pollVars, pc, locals, calls>>

ConnStates == {"IDLE", "CONNECTING", "HANDSHAKING", "AUTHENTICATED", "DORMANT"}
Readings   == {"unknown", "benign", "active"}
Commands   == {"park", "other"}
Acl        == {"none", "pending", "cancelling", "up", "closing"}

\* do_connect_and_handshake up to the return, then the caller's branch.
ConnectPcs == {"claim", "clear", "dial", "await", "gatt", "enterHs", "phase1",
               "phase2", "phase3", "claimAuth", "failed"}
AuthPcs    == {"cmd", "decide", "poll", "restCheck", "rest"}
TakePcs    == {"takeRetry", "takeWakeRead", "takeUserWake"}
Pcs        == {"sleep", "connect", "firstPoll"} \cup TakePcs \cup ConnectPcs
                \cup AuthPcs

\* begin(): a stored target starts DORMANT and due, none starts IDLE.
Init ==
    /\ targetAddr \in Mowers \cup {NoMower}
    /\ connState = IF targetAddr = NoMower THEN "IDLE" ELSE "DORMANT"
    /\ channel \in {NoMower, targetAddr}
    /\ idleRecheck \in Rechecks
    /\ suspended = FALSE /\ scanning = FALSE
    /\ linkUp = FALSE /\ connSem = FALSE /\ acl = "none" /\ peer = NoMower
    /\ restPending = FALSE /\ confirmArrival = FALSE
    /\ lostContactRecheck = FALSE
    /\ wakeRetryPending = FALSE /\ wakeReadPending = FALSE /\ userWake = FALSE
    /\ nextIn = 0 /\ holdIn = 0 /\ confirmIn = 0
    /\ pendingCmd = "none"
    /\ pollFail = 0 /\ pollDue = FALSE /\ answered = FALSE
    /\ reading = "unknown"
    /\ pc = "sleep" /\ isUser = FALSE /\ hadWakeRetry = FALSE /\ variant = 0
    /\ calls = 0

-----------------------------------------------------------------------------
(* Helpers *)

\* do_disconnect() behind `if (is_connected())': the host closes the link
\* later and reports it with a DISCONNECT event.
CloseLink == acl' = IF linkUp /\ acl = "up" THEN "closing" ELSE acl

\* Schedule the re-check after a drop; arm_lost_contact_recheck() replaces it
\* by one bonus attempt in manual-only mode if the mower was not at rest.
ScheduleAfterDrop ==
    IF idleRecheck = 0 /\ reading # "benign"
      THEN lostContactRecheck' = TRUE /\ nextIn' = LostContact
      ELSE UNCHANGED lostContactRecheck /\ nextIn' = idleRecheck

\* The re-check is disabled for good.
Bug_MayReconnect == confirmArrival \/ lostContactRecheck \/ wakeRetryPending

\* The three exceptions that let a manual-only bridge leave DORMANT.
MayReconnect == idleRecheck # 0 \/ confirmArrival \/ lostContactRecheck
                                \/ wakeRetryPending

Goto(from, to) == pc = from /\ pc' = to

-----------------------------------------------------------------------------
(* NimBLE host task: gap_event_cb *)

\* The CONNECT event may cross the cancellation on its way.
ConnectSucceeded ==
    /\ acl \in {"pending", "cancelling"}
    /\ acl' = "up" /\ linkUp' = TRUE /\ connSem' = TRUE
    /\ UNCHANGED <<connState, cfgVars, suspended, scanning, peer, restPending,
                   confirmArrival, lostContactRecheck, wakeVars, nextIn,
                   holdIn, confirmIn, pendingCmd, pollVars, pc, locals, calls>>

\* The handle is not invalidated.
Bug_LinkGone == acl' = "none" /\ UNCHANGED linkUp /\ connSem' = TRUE

LinkGone == acl' = "none" /\ linkUp' = FALSE /\ connSem' = TRUE

ConnectFailed ==
    /\ acl \in {"pending", "cancelling"}
    /\ LinkGone
    /\ UNCHANGED <<connState, cfgVars, suspended, scanning, peer, restPending,
                   confirmArrival, lostContactRecheck, wakeVars, nextIn,
                   holdIn, confirmIn, pendingCmd, pollVars, pc, locals, calls>>

\* What on_disconnect_logic makes of a drop outside IDLE and DORMANT.
PlannedRest ==
    /\ restPending
    /\ restPending' = FALSE
    /\ UNCHANGED <<confirmArrival, lostContactRecheck, nextIn>>

ConfirmSoon ==
    /\ ~restPending /\ confirmArrival /\ confirmIn > 0
    /\ nextIn' = ConfirmRecheck
    /\ UNCHANGED <<restPending, confirmArrival, lostContactRecheck>>

UnexpectedDrop ==
    /\ ~restPending /\ ~(confirmArrival /\ confirmIn > 0)
    /\ confirmArrival' = FALSE
    /\ ScheduleAfterDrop
    /\ UNCHANGED restPending

\* on_disconnect_logic.  The mower, or the radio, may drop a link at any time.
LinkLost ==
    /\ acl \in {"up", "closing"}
    /\ LinkGone
    /\ IF connState \in {"IDLE", "DORMANT"}
         THEN UNCHANGED <<connState, restPending, confirmArrival,
                          lostContactRecheck, nextIn>>
         ELSE /\ connState' = "DORMANT"
              /\ PlannedRest \/ ConfirmSoon \/ UnexpectedDrop
    /\ UNCHANGED <<cfgVars, suspended, scanning, peer, wakeVars, holdIn,
                   confirmIn, pendingCmd, pollVars, pc, locals, calls>>

\* BLE_GAP_EVENT_DISC_COMPLETE
ScanComplete ==
    /\ scanning
    /\ scanning' = FALSE
    /\ UNCHANGED <<connState, cfgVars, suspended, linkUp, hostVars,
                   restPending, confirmArrival, lostContactRecheck, wakeVars,
                   nextIn, holdIn, confirmIn, pendingCmd, pollVars, pc, locals,
                   calls>>

\* An answer reaches the poll in progress and updates the telemetry, field by
\* field: state, activity and error change one at a time.
MowerAnswers ==
    /\ pc \in {"firstPoll", "poll"} /\ linkUp
    /\ answered' = TRUE
    /\ reading' \in {"benign", "active"}
    /\ UNCHANGED <<connState, cfgVars, suspended, scanning, linkUp, hostVars,
                   restPending, confirmArrival, lostContactRecheck, wakeVars,
                   nextIn, holdIn, confirmIn, pendingCmd, pollFail, pollDue,
                   pc, locals, calls>>

Host == ConnectSucceeded \/ ConnectFailed \/ LinkLost \/ ScanComplete

-----------------------------------------------------------------------------
(* conn_task: an attempt to connect *)

\* The DORMANT/IDLE branch.  The one-shot flags are consumed one by one, and
\* a wake may come in between.
StartAttempt ==
    /\ Goto("sleep", "takeRetry")
    /\ ~suspended
    /\ connState \in {"DORMANT", "IDLE"}
    /\ targetAddr # NoMower /\ ~scanning
    /\ connState = "DORMANT" => MayReconnect /\ nextIn = 0
    /\ lostContactRecheck' = FALSE
    /\ UNCHANGED <<connState, cfgVars, suspended, scanning, linkUp, hostVars,
                   restPending, confirmArrival, wakeVars, nextIn, holdIn,
                   confirmIn, pendingCmd, pollVars, locals, calls>>

TakeRetry ==
    /\ Goto("takeRetry", "takeWakeRead")
    /\ hadWakeRetry' = wakeRetryPending /\ wakeRetryPending' = FALSE
    /\ UNCHANGED <<connState, cfgVars, suspended, scanning, linkUp, hostVars,
                   restPending, confirmArrival, lostContactRecheck,
                   wakeReadPending, userWake, nextIn, holdIn, confirmIn,
                   pendingCmd, pollVars, isUser, variant, calls>>

TakeWakeRead ==
    /\ Goto("takeWakeRead", "takeUserWake")
    /\ wakeReadPending' = FALSE
    /\ UNCHANGED <<connState, cfgVars, suspended, scanning, linkUp, hostVars,
                   restPending, confirmArrival, lostContactRecheck,
                   wakeRetryPending, userWake, nextIn, holdIn, confirmIn,
                   pendingCmd, pollVars, locals, calls>>

TakeUserWake ==
    /\ Goto("takeUserWake", "connect")
    /\ isUser' = userWake /\ userWake' = FALSE
    /\ UNCHANGED <<connState, cfgVars, suspended, scanning, linkUp, hostVars,
                   restPending, confirmArrival, lostContactRecheck,
                   wakeRetryPending, wakeReadPending, nextIn, holdIn,
                   confirmIn, pendingCmd, pollVars, hadWakeRetry, variant,
                   calls>>

\* do_connect_and_handshake: the early returns, then (up to 200 ms later, when
\* a scan had to be cancelled) the attempt is announced.
CheckConnect ==
    /\ pc = "connect"
    /\ IF targetAddr = NoMower \/ suspended
         THEN pc' = "failed" /\ UNCHANGED scanning
         ELSE pc' = "claim" /\ scanning' = FALSE
    /\ UNCHANGED <<connState, cfgVars, suspended, linkUp, hostVars,
                   restPending, confirmArrival, lostContactRecheck, wakeVars,
                   nextIn, holdIn, confirmIn, pendingCmd, pollVars, locals,
                   calls>>

ClaimConnecting ==
    /\ Goto("claim", "clear")
    /\ connState' = "CONNECTING"
    /\ CloseLink
    /\ UNCHANGED <<cfgVars, suspended, scanning, linkUp, connSem, peer,
                   restPending, confirmArrival, lostContactRecheck, wakeVars,
                   nextIn, holdIn, confirmIn, pendingCmd, pollVars, locals,
                   calls>>

\* 100 ms after closing a stale link its handle is forgotten, closed or not.
ForgetLink ==
    /\ Goto("clear", "dial")
    /\ linkUp' = FALSE /\ variant' = 0
    /\ UNCHANGED <<connState, cfgVars, suspended, scanning, hostVars,
                   restPending, confirmArrival, lostContactRecheck, wakeVars,
                   nextIn, holdIn, confirmIn, pendingCmd, pollVars, isUser,
                   hadWakeRetry, calls>>

\* ble_gap_connect for the public, then the random address type.  It returns
\* an error when the controller still has a link or a procedure, and may
\* return one at any time.
DialStarted ==
    /\ variant < 2 /\ ~linkUp /\ targetAddr # NoMower /\ acl = "none"
    /\ acl' = "pending" /\ peer' = targetAddr /\ connSem' = FALSE
    /\ pc' = "await" /\ UNCHANGED variant

DialRefused ==
    /\ variant < 2 /\ ~linkUp /\ targetAddr # NoMower
    /\ connSem' = FALSE /\ variant' = variant + 1
    /\ UNCHANGED <<pc, acl, peer>>

\* Out of address types, or disconnect_target() emptied the address.
DialImpossible ==
    /\ variant = 2 \/ (~linkUp /\ targetAddr = NoMower)
    /\ pc' = "failed" /\ UNCHANGED <<variant, hostVars>>

\* The CONNECT event of the variant before landed after its wait.
AlreadyConnected ==
    /\ variant < 2 /\ linkUp
    /\ pc' = "gatt" /\ UNCHANGED <<variant, hostVars>>

Dial ==
    /\ pc = "dial"
    /\ DialStarted \/ DialRefused \/ DialImpossible \/ AlreadyConnected
    /\ UNCHANGED <<connState, cfgVars, suspended, scanning, linkUp,
                   restPending, confirmArrival, lostContactRecheck, wakeVars,
                   nextIn, holdIn, confirmIn, pendingCmd, pollVars, isUser,
                   hadWakeRetry, calls>>

\* The wait for _conn_sem.  A DISCONNECT event gives the semaphore too.
AwaitConnect ==
    /\ pc = "await"
    /\ connSem' = FALSE
    /\ \/ connSem /\ linkUp /\ pc' = "gatt" /\ UNCHANGED <<acl, variant>>
       \/ /\ ~(connSem /\ linkUp)
          /\ pc' = "dial" /\ variant' = variant + 1
          /\ acl' = IF acl = "pending" THEN "cancelling" ELSE acl
    /\ UNCHANGED <<connState, cfgVars, suspended, scanning, linkUp, peer,
                   restPending, confirmArrival, lostContactRecheck, wakeVars,
                   nextIn, holdIn, confirmIn, pendingCmd, pollVars, isUser,
                   hadWakeRetry, calls>>

\* The link stays open.
Bug_GiveUp == pc' = "failed" /\ UNCHANGED <<acl, connState, channel>>

\* A step of do_connect_and_handshake that ends it closes the link first.
GiveUp ==
    /\ pc' = "failed"
    /\ CloseLink
    /\ UNCHANGED <<connState, channel>>

\* The abort for an OTA is forgotten.
Bug_Settled == linkUp

\* What settle() returns when its time is up.
Settled == linkUp /\ ~suspended

\* Security, discovery, wake-read, subscription, with settle() in between: the
\* last settle() decides.
PrepareGatt ==
    /\ pc = "gatt"
    /\ \/ Settled /\ pc' = "enterHs"
          /\ UNCHANGED <<connState, channel, acl>>
       \/ GiveUp
    /\ UNCHANGED <<targetAddr, idleRecheck, suspended, scanning, linkUp,
                   connSem, peer, restPending, confirmArrival,
                   lostContactRecheck, wakeVars, nextIn, holdIn, confirmIn,
                   pendingCmd, pollVars, locals, calls>>

\* The state is announced, and a channel id is made up if NVS has none.
EnterHandshake ==
    /\ Goto("enterHs", "phase1")
    /\ connState' = "HANDSHAKING"
    /\ channel' = IF channel = NoMower THEN peer ELSE channel
    /\ UNCHANGED <<targetAddr, idleRecheck, suspended, scanning, linkUp,
                   hostVars, restPending, confirmArrival, lostContactRecheck,
                   wakeVars, nextIn, holdIn, confirmIn, pendingCmd, pollVars,
                   locals, calls>>

\* Phase 1 needs an echo on a link that is up.  Phase 2 goes on without an
\* answer and announces HANDSHAKING again, whatever happened meanwhile.
\* Phase 3 needs an answer on a link that is up.
HandshakePhase(from, to, state) ==
    /\ pc = from
    /\ \/ pc' = to /\ connState' = state /\ UNCHANGED <<acl, channel>>
       \/ GiveUp
    /\ UNCHANGED <<targetAddr, idleRecheck, suspended, scanning, linkUp,
                   connSem, peer, restPending, confirmArrival,
                   lostContactRecheck, wakeVars, nextIn, holdIn, confirmIn,
                   pendingCmd, pollVars, locals, calls>>

Phase1 == HandshakePhase("phase1", "phase2", connState)
            /\ (pc' = "phase2" => linkUp)
Phase2 == HandshakePhase("phase2", "phase3", "HANDSHAKING")
Phase3 == HandshakePhase("phase3", "claimAuth", connState)
            /\ (pc' = "claimAuth" => linkUp)

\* The failures of the session before are carried over.
Bug_FreshSession ==
    UNCHANGED pollFail /\ pollDue' = FALSE /\ answered' = FALSE

FreshSession == pollFail' = 0 /\ pollDue' = FALSE /\ answered' = FALSE

\* The attempt is over: AUTHENTICATED is announced and the first poll begins.
ClaimAuthenticated ==
    /\ Goto("claimAuth", "firstPoll")
    /\ connState' = "AUTHENTICATED"
    /\ FreshSession
    /\ UNCHANGED <<cfgVars, suspended, scanning, linkUp, hostVars,
                   restPending, confirmArrival, lostContactRecheck, wakeVars,
                   nextIn, holdIn, confirmIn, pendingCmd, reading, locals,
                   calls>>

\* The first poll, whose result is ignored, then the hold after a Wake.
FinishAttempt ==
    /\ Goto("firstPoll", "sleep")
    /\ holdIn' = IF isUser THEN HoldAfterWake ELSE 0
    /\ UNCHANGED <<connState, cfgVars, suspended, scanning, linkUp, hostVars,
                   restPending, confirmArrival, lostContactRecheck, wakeVars,
                   nextIn, confirmIn, pendingCmd, pollVars, locals, calls>>

\* A retry that fails is retried.
Bug_EarnsRetry == isUser

EarnsRetry == isUser /\ ~hadWakeRetry

\* The retry is a plain reconnect.
Bug_RetryWake ==
    /\ EarnsRetry
    /\ connState' = "DORMANT"
    /\ wakeRetryPending' = TRUE /\ UNCHANGED <<wakeReadPending, userWake>>
    /\ nextIn' = WakeRetry

\* The first failure of a user's wake arms one retry.
RetryWake ==
    /\ EarnsRetry
    /\ connState' = "DORMANT"
    /\ wakeRetryPending' = TRUE /\ wakeReadPending' = TRUE /\ userWake' = TRUE
    /\ nextIn' = WakeRetry

\* The state the attempt announced is left behind.
Bug_SleepOff ==
    /\ ~EarnsRetry
    /\ nextIn' = idleRecheck
    /\ UNCHANGED <<connState, wakeVars>>

\* Any other failure: sleep_off("asleep").
SleepOff ==
    /\ ~EarnsRetry
    /\ connState' = "DORMANT"
    /\ nextIn' = idleRecheck
    /\ UNCHANGED wakeVars

AttemptFailed ==
    /\ Goto("failed", "sleep")
    /\ RetryWake \/ SleepOff
    /\ UNCHANGED <<cfgVars, suspended, scanning, linkUp, hostVars,
                   restPending, confirmArrival, lostContactRecheck, holdIn,
                   confirmIn, pendingCmd, pollVars, locals, calls>>

-----------------------------------------------------------------------------
(* conn_task: the AUTHENTICATED branch *)

\* The queued command is taken and cleared before it is sent.
TakeCommand ==
    /\ pc = "sleep" /\ ~suspended /\ connState = "AUTHENTICATED"
    /\ pc' = IF pendingCmd = "none" THEN "decide" ELSE "cmd"
    /\ pendingCmd' = "none"
    /\ UNCHANGED <<connState, cfgVars, suspended, scanning, linkUp, hostVars,
                   restPending, confirmArrival, lostContactRecheck, wakeVars,
                   nextIn, holdIn, confirmIn, pollVars, locals, calls>>

\* Whatever the mower answers, the link is held and the next poll is due.
SendCommand ==
    /\ Goto("cmd", "decide")
    /\ holdIn' = HoldAfterCmd /\ pollDue' = TRUE
    /\ UNCHANGED <<connState, cfgVars, suspended, scanning, linkUp, hostVars,
                   restPending, confirmArrival, lostContactRecheck, wakeVars,
                   nextIn, confirmIn, pendingCmd, pollFail, answered, reading,
                   locals, calls>>

BeginPoll ==
    /\ pc = "decide"
    /\ pc' = IF pollDue THEN "poll" ELSE "restCheck"
    /\ pollDue' = FALSE
    /\ answered' = IF pollDue THEN FALSE ELSE answered
    /\ UNCHANGED <<connState, cfgVars, suspended, scanning, linkUp, hostVars,
                   restPending, confirmArrival, lostContactRecheck, wakeVars,
                   nextIn, holdIn, confirmIn, pendingCmd, pollFail, reading,
                   locals, calls>>

\* do_status_poll returned true: GetState was answered.
PollOk ==
    /\ answered
    /\ pollFail' = 0
    /\ UNCHANGED <<connState, acl, restPending, lostContactRecheck, nextIn>>

\* It returned false: no GetState answer, or the link dropped right after it.
PollFailed ==
    /\ ~answered \/ ~linkUp
    /\ pollFail' = pollFail + 1
    /\ pollFail + 1 < PollFailLimit
    /\ UNCHANGED <<connState, acl, restPending, lostContactRecheck, nextIn>>

\* The session is not ended.
Bug_MowerSlept ==
    /\ ~answered \/ ~linkUp
    /\ pollFail + 1 >= PollFailLimit
    /\ pollFail' = 0
    /\ CloseLink
    /\ UNCHANGED <<connState, restPending, lostContactRecheck, nextIn>>

\* The last failure in a row: the mower slept, so let go of the link.
MowerSlept ==
    /\ ~answered \/ ~linkUp
    /\ pollFail' = pollFail + 1
    /\ pollFail + 1 >= PollFailLimit
    /\ ScheduleAfterDrop
    /\ restPending' = TRUE
    /\ connState' = "DORMANT"
    /\ CloseLink

EndPoll ==
    /\ Goto("poll", "restCheck")
    /\ PollOk \/ PollFailed \/ MowerSlept
    /\ UNCHANGED <<cfgVars, suspended, scanning, linkUp, connSem, peer,
                   confirmArrival, wakeVars, holdIn, confirmIn, pendingCmd,
                   pollDue, answered, reading, locals, calls>>

\* The comparison with _hold_until_ms is inverted.
Bug_MayRest ==
    connState = "AUTHENTICATED" /\ linkUp /\ holdIn > 0 /\ reading = "benign"

MayRest ==
    connState = "AUTHENTICATED" /\ linkUp /\ holdIn = 0 /\ reading = "benign"

\* The rest decision and the first line of enter_rest().
DecideRest ==
    /\ pc = "restCheck"
    /\ IF MayRest
         THEN pc' = "rest" /\ confirmArrival' = FALSE
         ELSE pc' = "sleep" /\ UNCHANGED confirmArrival
    /\ UNCHANGED <<connState, cfgVars, suspended, scanning, linkUp, hostVars,
                   restPending, lostContactRecheck, wakeVars, nextIn, holdIn,
                   confirmIn, pendingCmd, pollVars, locals, calls>>

\* The rest of enter_rest(), after the query for the mower's clock: with
\* auto-recheck the delay may be the time to the mower's next start, and a
\* margin of less than a unit.
EnterRest ==
    /\ Goto("rest", "sleep")
    /\ nextIn' \in IF idleRecheck = 0 THEN {0}
                                ELSE 1..(idleRecheck + 1)
    /\ restPending' = TRUE
    /\ connState' = "DORMANT"
    /\ CloseLink
    /\ UNCHANGED <<cfgVars, suspended, scanning, linkUp, connSem, peer,
                   confirmArrival, lostContactRecheck, wakeVars, holdIn,
                   confirmIn, pendingCmd, pollVars, locals, calls>>

Connecting ==
    \/ StartAttempt \/ TakeRetry \/ TakeWakeRead \/ TakeUserWake
    \/ CheckConnect \/ ClaimConnecting \/ ForgetLink \/ Dial \/ AwaitConnect
    \/ PrepareGatt \/ EnterHandshake \/ Phase1 \/ Phase2
    \/ Phase3 \/ ClaimAuthenticated \/ FinishAttempt \/ AttemptFailed

Authenticated ==
    \/ TakeCommand \/ SendCommand \/ BeginPoll \/ EndPoll \/ DecideRest
    \/ EnterRest

ConnTask == Connecting \/ Authenticated

-----------------------------------------------------------------------------
(* Public calls, from the web server's and the MQTT client's tasks *)

Call(name) == name \in Calls /\ calls < MaxCalls /\ calls' = calls + 1

\* force_wake(), which queue_command() uses too.
WakeEffect ==
    IF targetAddr = NoMower THEN
        UNCHANGED <<connState, acl, wakeReadPending, userWake, nextIn, holdIn,
                    pollFail>>
    ELSE IF connState = "AUTHENTICATED" THEN
        /\ holdIn' = HoldAfterWake
        /\ UNCHANGED <<connState, acl, wakeReadPending, userWake, nextIn,
                       pollFail>>
    ELSE
        /\ pollFail' = 0 /\ nextIn' = 0
        /\ wakeReadPending' = TRUE /\ userWake' = TRUE
        /\ IF connState \in {"CONNECTING", "HANDSHAKING"}
             THEN CloseLink /\ UNCHANGED connState
             ELSE connState' = "IDLE" /\ UNCHANGED acl
        /\ UNCHANGED holdIn

ForceWake ==
    /\ Call("wake") /\ targetAddr # NoMower
    /\ WakeEffect
    /\ UNCHANGED <<cfgVars, suspended, scanning, linkUp, connSem, peer,
                   restPending, confirmArrival, lostContactRecheck,
                   wakeRetryPending, confirmIn, pendingCmd, pollDue, answered,
                   reading, pc, locals>>

\* A park is tracked until the mower has settled.  Any command replaces the
\* one that waits, and wakes the mower unless the session is up.
QueueCommand(c) ==
    /\ Call(c)
    /\ pendingCmd' = c
    /\ IF c = "park"
         THEN confirmIn' = ConfirmMax /\ confirmArrival' = TRUE
         ELSE UNCHANGED <<confirmIn, confirmArrival>>
    /\ IF connState = "AUTHENTICATED"
         THEN UNCHANGED <<connState, acl, wakeReadPending, userWake, nextIn,
                          holdIn, pollFail>>
         ELSE WakeEffect
    /\ UNCHANGED <<cfgVars, suspended, scanning, linkUp, connSem, peer,
                   restPending, lostContactRecheck, wakeRetryPending, pollDue,
                   answered, reading, pc, locals>>

\* set_target().  The comparison that should tell a new PIN from a new mower
\* comes after _target_addr was overwritten, so it never finds a difference.
SetTarget(m) ==
    /\ Call("target")
    /\ targetAddr' = m
    /\ channel' = IF targetAddr # m THEN NoMower ELSE channel
    /\ IF connState \in {"CONNECTING", "HANDSHAKING"}
         THEN UNCHANGED <<connState, acl, wakeReadPending, userWake, nextIn>>
         ELSE /\ IF connState = "AUTHENTICATED" THEN CloseLink
                                                ELSE UNCHANGED acl
              /\ wakeReadPending' = TRUE /\ userWake' = TRUE
              /\ nextIn' = 0
              /\ connState' = "IDLE"
    /\ UNCHANGED <<idleRecheck, suspended, scanning, linkUp, connSem, peer,
                   restPending, confirmArrival, lostContactRecheck,
                   wakeRetryPending, holdIn, confirmIn, pendingCmd, pollVars,
                   pc, locals>>

DisconnectTarget ==
    /\ Call("forget")
    /\ CloseLink
    /\ targetAddr' = NoMower
    /\ connState' = "IDLE"
    /\ UNCHANGED <<channel, idleRecheck, suspended, scanning, linkUp, connSem,
                   peer, restPending, confirmArrival, lostContactRecheck,
                   wakeVars, nextIn, holdIn, confirmIn, pendingCmd, pollVars,
                   pc, locals>>

\* suspend(): an OTA begins.  Nothing resets the flag but a reboot.
Suspend ==
    /\ Call("suspend")
    /\ suspended' = TRUE /\ scanning' = FALSE
    /\ CloseLink
    /\ UNCHANGED <<connState, cfgVars, linkUp, connSem, peer, restPending,
                   confirmArrival, lostContactRecheck, wakeVars, nextIn,
                   holdIn, confirmIn, pendingCmd, pollVars, pc, locals>>

TriggerScan ==
    /\ Call("scan")
    /\ ~scanning /\ connState \in {"IDLE", "DORMANT"}
    /\ scanning' = TRUE
    /\ UNCHANGED <<connState, cfgVars, suspended, linkUp, hostVars,
                   restPending, confirmArrival, lostContactRecheck, wakeVars,
                   nextIn, holdIn, confirmIn, pendingCmd, pollVars, pc, locals>>

SetIdleRecheck(r) ==
    /\ Call("recheck")
    /\ idleRecheck' = r
    /\ UNCHANGED <<connState, targetAddr, channel, suspended, scanning, linkUp,
                   hostVars, restPending, confirmArrival, lostContactRecheck,
                   wakeVars, nextIn, holdIn, confirmIn, pendingCmd, pollVars,
                   pc, locals>>

PublicCall ==
    \/ ForceWake \/ DisconnectTarget \/ Suspend \/ TriggerScan
    \/ \E c \in Commands : QueueCommand(c)
    \/ \E m \in Mowers : SetTarget(m)
    \/ \E r \in Rechecks : SetIdleRecheck(r)

-----------------------------------------------------------------------------

Sooner(t) == IF t = 0 THEN 0 ELSE t - 1

\* millis() advances.
Elapse ==
    /\ nextIn' = Sooner(nextIn)
    /\ holdIn' = Sooner(holdIn)
    /\ confirmIn' = Sooner(confirmIn)
    /\ pollDue' = TRUE
    /\ UNCHANGED <<connState, cfgVars, suspended, scanning, linkUp, hostVars,
                   restPending, confirmArrival, lostContactRecheck, wakeVars,
                   pendingCmd, pollFail, answered, reading, pc, locals, calls>>

Next == ConnTask \/ Host \/ MowerAnswers \/ PublicCall \/ Elapse

\* conn_task runs and every wait in it has a timeout; the controller ends the
\* procedures it was asked for (connect and cancel in 30 s, a termination by
\* the supervision timeout, a scan in SCAN_DURATION_S); time passes.  Nothing
\* is assumed of the mower, nor of the users.
LinkClosed == acl = "closing" /\ LinkLost
Fairness ==
    /\ WF_vars(ConnTask)
    /\ WF_vars(ConnectFailed \/ ConnectSucceeded)
    /\ WF_vars(LinkClosed)
    /\ WF_vars(ScanComplete)
    /\ WF_vars(Elapse)

Spec     == Init /\ [][Next]_vars
FairSpec == Spec /\ Fairness
-----------------------------------------------------------------------------
(* Properties *)

FlagTypes ==
    /\ suspended \in BOOLEAN /\ scanning \in BOOLEAN
    /\ linkUp \in BOOLEAN /\ connSem \in BOOLEAN
    /\ restPending \in BOOLEAN /\ confirmArrival \in BOOLEAN
    /\ lostContactRecheck \in BOOLEAN
    /\ wakeRetryPending \in BOOLEAN /\ wakeReadPending \in BOOLEAN
    /\ userWake \in BOOLEAN
    /\ pollDue \in BOOLEAN /\ answered \in BOOLEAN
    /\ isUser \in BOOLEAN /\ hadWakeRetry \in BOOLEAN

ValueTypes ==
    /\ connState \in ConnStates
    /\ targetAddr \in Mowers \cup {NoMower}
    /\ channel \in Mowers \cup {NoMower}
    /\ idleRecheck \in Rechecks
    /\ acl \in Acl /\ peer \in Mowers \cup {NoMower}
    /\ nextIn \in Nat /\ holdIn \in Nat /\ confirmIn \in Nat
    /\ pendingCmd \in Commands \cup {"none"}
    /\ pollFail \in 0..PollFailLimit /\ reading \in Readings
    /\ pc \in Pcs /\ variant \in 0..2
    /\ calls \in 0..MaxCalls

\* The failures counted in a row never pass POLL_FAIL_LIMIT, and the address
\* types tried never pass the two there are.
TypeOK == FlagTypes /\ ValueTypes

\* CONNECTING and HANDSHAKING are states conn_task never acts on: should one
\* outlive the attempt that announced it, the bridge would stay in it for good.
NoStrandedAttempt ==
    connState \in {"CONNECTING", "HANDSHAKING"} => pc \in ConnectPcs

\* The automatic retry after a failed wake is a wake itself: it reads the
\* device type and holds the link for the user, like the one that failed.
RetryIsRealWake == wakeRetryPending => wakeReadPending /\ userWake

\* is_connected() never answers true for a link the host has already reported
\* lost, in spite of attempts, callbacks and calls that all write the flag.
LinkFlagTruthful == linkUp => acl \in {"up", "closing"}

\* A connect attempt that was given up leaves no link behind: between two
\* ticks an open link that nobody asked to close belongs to a session.
NoUnattendedLink ==
    pc = "sleep" /\ acl = "up" => linkUp /\ connState = "AUTHENTICATED"

\* The parts of the inductive invariant behind the properties above.
VariantBound == pc = "await" => variant < 2

WatchdogBound ==
    connState = "AUTHENTICATED" \/ pc \in {"firstPoll", "cmd", "decide", "poll"}
      => pollFail < PollFailLimit

RetryTaken == pc \in TakePcs \ {"takeRetry"} => ~wakeRetryPending

AttemptOwner ==
    connState \in {"CONNECTING", "HANDSHAKING"} => pc \in ConnectPcs \ {"claim"}

\* A session whose link is gone does not stay AUTHENTICATED: the poll watchdog
\* ends it, although on_disconnect_logic may have run before the state was
\* announced and will not run again.
DeadSessionEnds ==
    connState = "AUTHENTICATED" /\ ~linkUp
      ~> connState # "AUTHENTICATED" \/ linkUp \/ suspended

\* The link to a mower at rest is let go of, once the holds have elapsed.
RestingMowerReleased ==
    connState = "AUTHENTICATED" /\ reading = "benign"
      ~> connState # "AUTHENTICATED" \/ reading # "benign" \/ suspended
=============================================================================
