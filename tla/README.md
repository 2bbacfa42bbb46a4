# Husqvarna_to_MQTT in TLA+

The repository is the firmware of an ESP32 that connects one Husqvarna-group
robotic mower (Bluetooth Low Energy) to MQTT and to a web page. This directory
holds TLA+ models of the parts of it that are hard to test, TLC configurations
that check them on small instances, and TLAPS proofs of the main properties for
all values of the parameters. File and line references are to `src/`;
`ble_manager.cpp` and the like stand for the one file of that name.

## 1. Inventory

### Tasks

| task | where | what it does |
|---|---|---|
| main loop, 20 ms | `app_main.cpp` | reset button, LED, `mqtt::loop` |
| `conn_task`, 500 ms | `ble_manager.cpp:1585` | connects, polls, sends queued commands, lets the mower rest |
| NimBLE host | `gap_event_cb`, `ble_manager.cpp:1077` | link, scan and notification events |
| esp-mqtt | `mqtt.cpp` | broker events, incoming commands and editor fields |
| event task of ESP-IDF | `wifi_manager.cpp` | Wi-Fi events |
| httpd, one task | `web_server.cpp` | all handlers; a schedule save and an upload block it |
| one-shot tasks | `sched_wr`, `ota_check`, GitHub update, event stream | saves, downloads, the live log |

They share memory. `_ble_io_mutex` serialises single questions to the mower;
flags and states are atomics or volatiles, each correct by itself, and nothing
makes a group of them change together. That is where the difficulties of this
code lie.

### Components

| component | state | operations | what makes it correct | where |
|---|---|---|---|---|
| connection manager | `_conn_state`, one-shot flags, three deadlines, link handle, target | attempt, GAP callbacks, `force_wake`, `queue_command`, `set_target`, `disconnect_target`, `suspend`, `trigger_scan` | an attempt ends; a link has an owner; retries are bounded; a wake is not forgotten; a mower at rest is let go of | `BleConn`, `BleConnHistory` |
| schedule | the mower's transaction, `_sched_cache` | save, read per session, cache read | a save is all or nothing and is reported truthfully; the cache holds what was read | `Schedule`, `ScheduleStore` |
| request/response layer | `_rx_buf`, `_rx_sem`, `_ble_io_mutex` | send, reassemble, wait, take, retry | one question at a time; an answer belongs to its question and is whole | `MowerRpc`, `FrameStream` |
| frame codec, CRC | none | encode, decode, length rule | what is decoded was said; damage is noticed | `FrameCodec`, `FrameStream` |
| commands | `_pending_cmd`, the mower's mode and override | mow, park, pause, resume, settings | OK means the mower is in the state the command stands for | `MowerRpc`; the slot in `BleConn` |
| poll, telemetry | `_mower_*`, optional-query back-off | `do_status_poll` | a mower at rest is recognised | partly: `BleConn`, `MowerRpc`, `Schedule` |
| MQTT link | `_connected`, the Wi-Fi edge, update-check flags | `loop`, event handler, `ota_check_task` | one nudge per outage; comes back by itself; one check at a time | `MqttLink` on `WifiStation` |
| schedule editor | `_edit_*`, `_edit_debounce_until` | `on_message`, `publish_schedule`, hand-over | an edit is not forgotten; the editor ends up with the mower's plan | `ScheduleEditor` |
| upload | preamble, carry, offset | `h_ota_post` loop | the bytes written are the bytes of the image | `OtaUpload` |
| update and boot | partitions, `sys.postota` | upload, download, crash guard, restarts | one image is always whole; every boot gets through | `OtaUpdate` |
| log ring, event stream | ring, numbers, `_sse_q`, `_sse_fd` | write, broadcast, replay, follow | no line is missed; the slot is given back | `LogStream` |
| Wi-Fi, setup portal | `_portal`, `_connected` | `begin`, event handler | joins whenever the network comes | `WifiStation` |
| settings, LED, button, routes, discovery | | | | not modelled, section 9 |

`PROJECT.json` lists every component with its status, and every hazard at its
line, with the properties that cover it or the reason why none does.

## 2. Plan

Done, in this order: `BleConn`, `BleConnHistory` and their proofs;
`ScheduleStore`, `Schedule`; `FrameCodec`, `FrameStream`; `MowerRpc`;
`WifiStation`, `MqttLink`; `ScheduleEditor`; `OtaUpload`, `OtaUpdate`;
`LogStream`; the proofs about `MowerRpc`, `MqttLink`, `ScheduleEditor` and
`OtaUpdate`; `AnswerIsWhole` and `OkIsAchieved` of `MowerRpc`; the refinement
`Schedule` => `ScheduleStore`; the proofs about `LogStream`, `OtaUpload` and
`FrameStream`; what the CRC notices, and `DamageIsNoticed`.

Every invariant and every action property that a passing run checks has a theorem.
Left: the parts of section 9, and the hazards that `PROJECT.json` lists without a
property.

Modules with theorems declare no `RECURSIVE` operator; for that reason
`FrameCodec` has the exclusive or digit by digit and the CRC as a recursive
function.

## 3. The link to the mower

### `BleConn`: the connection manager

**Actors.** `ConnTask` (`Connecting`, `Authenticated`) is `conn_task_fn` with
`do_connect_and_handshake` and `enter_rest`; `Host` is `gap_event_cb` with
`on_disconnect_logic`; `PublicCall` is the public interface; `Elapse` is
`millis()`; `MowerAnswers` is the effect of answers on the telemetry.

**Granularity.** A step of `conn_task` is the code between two blocking calls,
or between a check and the assignment that relies on it (`CheckConnect` and
`ClaimConnecting`, `DecideRest` and `EnterRest`, `TakeCommand` and
`SendCommand`). The one-shot flags are taken one by one (`StartAttempt`,
`TakeRetry`, `TakeWakeRead`, `TakeUserWake`, lines 1629-1634), and a wake may set
them in between. A callback or a public call is one step: each is short, does not
block and runs at a higher priority than `conn_task` (priority 1).

**Time.** A deadline is the number of coarse units left to it, 0 once passed.
`WAKE_RETRY_MS` and the like are parameters; only "passed or not" matters to
the code, and the order of two deadlines varies with the parameters. Delays are
not tied to the length of steps, so a deadline may pass between any two steps.

**Data.** Mowers are model values; a channel id is the mower it was made up for;
the telemetry is what `mower_is_benign_resting` makes of it (`unknown`, `benign`,
`active`); a command is `park` (it arms the confirmation) or `other`.

**Environment.** `acl` is the controller's view of the single link (external): a
connect may fail or be refused at any time, a link may drop at any time, and a
close takes effect when the host reports it. A cancelled connect may still
complete: `ble_gap_conn_cancel()` does not rule it out, and
`do_connect_and_handshake` looks for such a link before it dials again
(`AlreadyConnected`, lines 1254-1257).

`BleConnHistory` adds history variables (`tries`, `owed`, `late`) that
record the run and constrain nothing.

### `FrameCodec` and `FrameStream`: bytes

`FrameCodec` is `automower_protocol.cpp`, `crc8_maxim.cpp` and the length rule
of `NOTIFY_RX`, as pure operators over sequences of bytes; the CRC is computed
with its shifts, its table and its loop. The mower's side (`Understood`, `Request`,
`Answer`, `Echo`) is a second, independent reading of the layouts, and external.
`FrameStream` sends one frame after the other: the mower reads each by its own
rules and answers, the answer comes in notifications of any size in `Chunks`,
and one bit of it may flip (`Damage`). All four invariants are proved, and of
the CRC that it tells sequences apart that differ in one byte (section 10).

### `MowerRpc`: questions and answers

`conn_task` and the tasks that save or read a schedule take turns on
`_ble_io_mutex`. A frame is the question it asks, an answer is `Parts`
notifications. The steps of a question are those of `_send_query` and
`send_command`: `Lock` (5 s), `Flush`, `Drain` of the semaphore, `Write`, the
wait (`Woken`, `Timeout`), `Take`, and once more for a command. `Notify` and
`GiveSignal` are two steps, since the buffer's mutex is returned before the
semaphore is given. What finds the buffer's mutex busy for 10 ms is dropped
(`Missed`). The jobs are the recipes of `conn_task` (`Mow`, `Park`,
`ParkForGood`, ...) with what each makes of a failure.

The mower is external: it works off what it heard in order, may decline or stay
silent, and may be later than any time-out. A drop loses the answers that are
under way, not what the mower has heard: it may still carry that out. `clean` and
`agreed` are history: no question of a job was asked while the answer to another
one could still come, and every command of it was agreed to, also where the code
does not look (`SetMode` of a mow, `ble_manager.cpp:1783`).

Left out: a 20 ms time-out of the task's own access to the buffer (its holder is
the host, which copies a few bytes), and the handshake, whose frames are in
`FrameStream` and whose steps are in `BleConn`.

### `Schedule` implements `ScheduleStore`

`ScheduleStore` states what a save promises: the list replaces the plan whole or
not at all, and success is reported only of a list that did. `Schedule` has one
step per command or query (that is what the mutex covers), writers (the web
handler and `sched_wr` tasks), the reader at the end of `do_status_poll`, and
the cache. `SavesWhole` is the refinement, checked as a `PROPERTY` and proved
(section 10) from two conditions: no command is carried out twice, and no two
writers are in a transaction together (`OneAtATime`). The code guarantees
neither: it repeats an `AddTask` whose answer is lost (`ble_manager.cpp:517`),
and only the single questions of two saves exclude each other (`:699`).

External, modelled from how the code uses it: the mower opens a draft that is a
copy of the plan, discards an older draft, needs a draft for the commands of the
transaction, makes it the plan on commit and loses it with the link; the official
app changes the plan while the bridge has no session. `LostAnswers` lets the
answer to `AddTask` be lost; `send_command` then sends it again
(`ble_manager.cpp:517`). `Commit` always may lose its answer.

## 4. The link to the broker

`WifiStation` is `begin()` and the event handler of `wifi_manager.cpp`.
`MqttLink` EXTENDS it (the two share `wifi::connected()`) and adds `loop()`,
which reads the state of the Wi-Fi at its top and uses it later (`sawUp`), the
handler of esp-mqtt, and the task of the update check. External: the driver, the
broker, and esp-mqtt, which may be left *wedged* by a socket that died with the
Wi-Fi until it is told to reconnect; that is what the forced reconnect is for
(`mqtt.cpp:974`). `QuickFlaps` says whether the Wi-Fi may go and come back
within one 20 ms `loop()`.

`ScheduleEditor` is the simple editor over MQTT. An edit is two steps on the
task of esp-mqtt (the field, then `arm_schedule_edit_write`); seeding from the
cache and copying into a plan go field by field on the main loop; nothing locks.
A writer takes up to 45 s and ends well, with the cache replaced, or not;
publications, other writers and new sessions come in between as they like. A plan
is its first task. `last`, `dirty` and `raced` are history. `Schedule` has what the
writer does.

## 5. Firmware

`OtaUpload` is the loop of `h_ota_post` with its preamble buffer, its carry and
its two phases. A byte is a model value, the blank line and the closing boundary
are short sequences, and `Receive` takes any number of bytes up to the buffer.
`Forms` says what a body's header and image are: the first up to and including
the first blank line, the second from there (`Payload`) to the first boundary.
`SplitHeader` says whether a part header may end in a read that is longer than
what is left of the preamble buffer.

`OtaUpdate` has the upload and the download side by side (nothing excludes the
two, or two downloads), the switch of the partition, the flag, the scheduled
restart, and every boot: the guard of `app_main.cpp:67`, its clean reboot, and
the start of BLE. Power may fail between any two steps; a settings page, the
button and the two updates restart the bridge. An image is two halves, each
with who wrote it, and is whole if both are of one writer. External: the
partitions, the boot loader, which falls back to the other partition, and, from
the comment at the guard, that BLE panics on the first boot of another image
that did not come from power-on. `unmarked` counts the restarts into another
image without the flag, `panics` the panics; both are history.

## 6. The log

`LogStream` is the ring of `debug_log.cpp` and the event stream. A task takes
its number and its slot under the mutex and broadcasts after it; a stream copies
the end of the ring under the mutex, sends it, and then follows a queue that
broadcasts fill from the moment the slot is claimed. Every failure on the way
(request not detached, no task, no memory for the replay, client gone) is there.
A line is its number.

## 7. Runs

| run | instance and bounds | what it shows |
|---|---|---|
| `conn_safety` | 1 mower, re-check 0 or 3, every public call, `MaxCalls` 2 | the invariants of `BleConn` and its history |
| `conn_live` | wakes and `suspend`, `MaxCalls` 2 | its liveness |
| `sched` | 1 writer, 2 tasks, cache of 2, plans up to `MaxPlan` 3, `MaxDraft` 3 | the refinement, `SaveReturns`, `CacheIsFilled` |
| `codec` | 3 channel ids, 2 tasks, 3 results, notifications of 1, 7 or 20 bytes, `Guarded` | the codec from end to end |
| `rpc` | 2 tasks, answers of 2 notifications, a buffer of 3, `MaxLag` 2, `MaxJobs` 2 | whose answer is taken, and what OK means |
| `mqtt` | the whole state space, `QuickFlaps` FALSE | recovery, nudge and update check |
| `editor` | 2 fields, 2 values, `MaxEdits` 2, fairness | what becomes of an edit and of the editor |
| `upload` | 30 bodies, buffers of 6, `SplitHeader` FALSE | every way to cut each body |
| `update` | upload and 1 download, `MaxUpdates` 3, `MaxResets` 2 | images, panics and boots |
| `log` | 2 tasks, ring of 3, replay and queue of 2, `MaxSeq` 5, `MaxClients` 2 | replay, hand-over and slot |
| `claim_saved_whole`, `claim_upload_intact` | the smallest instance that shows it | a sentence that the code does not keep, section 8 |

Properties, and what could break them:

* `NoStrandedAttempt`: `CONNECTING` and `HANDSHAKING` never outlive the attempt
  that announced them, although Phase 2 announces `HANDSHAKING` again whatever
  happened to the link. Were it false the bridge would hang for good: no branch
  of `conn_task` handles those states.
* `RetryIsRealWake`, `RetriesAreBounded`: a wake or a drop costs the mower at
  most two attempts in manual-only mode, and the second is a full wake.
* `LinkFlagTruthful`, `UnattendedIsLate`: the link flag is never up for a link
  reported lost, and an open link that neither an attempt nor a session owns is one
  whose connect was cancelled and completed after all. That there is such a link is
  `claim_no_leak.cfg`, section 8.
* `DeadSessionEnds`: a link that is lost just before `AUTHENTICATED` is announced
  has no further event; the poll watchdog ends the session.
* `RestingMowerReleased`, `SuspendQuiesces`, `DueWakeIsAttempted`. A suspended bridge
  leaves a link that came late alone, which `SuspendQuiesces` says.
* `SavesWhole`, `SaveReturns`, `CacheIsFilled`: drops, refusals, a reader and the
  app in the middle of a save.
* `RequestIsUnderstood`, `WokenByTheLastByte`, `AnswerIsRead`, `DamageIsNoticed`:
  encoder, length rule and decoder agree with an independent reading of the
  layouts, however an answer is cut. `WokenByTheLastByte` excepts an echo whose
  channel id ends in `0xAF`, see section 8. `DamageIsNoticed` covers the header, the kind,
  both lengths and the end mark, not what only the second CRC covers.
* `OneQuestionAtATime`: every way out of a question returns the mutex.
* `AnswerIsOurs`, `AnswerIsWhole`: nothing received before a question passes for
  its answer, and no answer is made of the pieces of two, with lost
  notifications, drops and stale signals of the semaphore.
* `OkIsAchieved`: a job that is reported OK has put the mower in the state it
  stands for (a mow: AUTO mode and the override), provided that the job's questions
  were `clean`: an answer that is later than its time-out may be taken for the next
  question's, section 8. A mow needs `agreed` as well; without it the property is
  `MowIsForced`, which `claim_mow_is_forced.cfg` refutes.
* `NoEditForgotten`: only the order of the writes on either task keeps an edit.
  `EditorConverges`: while the broker is reached and the mower's plan stays what it
  is, the editor comes to show that plan for good (`README.md:249` of the sources:
  "they always stay in sync"); neither a pending edit nor a stale seeding stays.
* `CheckIsUnderWay`, `ChecksGoOn`: a check that fails to start does not block
  the later ones. `NudgeIsEarned`, `Recovers`, `JoinsWhenHeard`.
* `OnlyTheImageIsWritten`, `FlashedIsTheImage`: no byte of the envelope in the
  flash, none of the image missing.
* `OneImageIsWhole`, `NoPanicAfterUpdate`, `BootEnds`.
* `ReplayIsTheTail`, `NoLineIsMissed`, `SlotIsAWorker`, `SlotIsReleased`.

**Bounds.** `MaxCalls` (2) bounds public calls: a call can hit an attempt that an
earlier one caused, at any point of it. Drops, refusals and time are not bounded.
The re-check is longer (3) than the bonus delay (2), which is longer than the
others (1), as in the code. `PollFailLimit` is 2 instead of 3. `MaxTries`
saturates a counter above the value that matters. `MaxPlan` and `MaxDraft` bound
the schedules of the app and of the mower; a plan of three overflows a cache of
two, as one of seventeen overflows the cache of sixteen. `MaxLag` (2) lets a
late answer meet a later question, `MaxJobs` (2) lets a job follow another or
run beside it; an answer of two parts can lose either, and a buffer of three
(`RxParts`) can overflow. The channel ids have small bytes, `0xAF` and four
different bytes; the tasks a duration of more than 16 bits; `Guarded` are
the bytes the decoder tests. `MaxEdits` (2): an edit that is being
handed over, written or seeded over while another one is made. The bodies have three header sizes and beginnings of a
boundary in the middle, at the end and twice; two bodies have no blank line, and
one of these is longer than the preamble buffer. `MaxUpdates` (3) is one more than
there are partitions, `MaxResets` (2) a failure in the boot that follows another.
`MaxSeq` (5) wraps a ring of three, `MaxClients` (2) is a stream after another.

**Deadlock** is checked except in `upload` (a request ends), `update` and `log`
(their bounds run out with nothing left to do).

**Fairness.** Weak fairness of every task of the bridge (RTOS tasks whose every
wait has a time-out); of the end of a connect or cancel (30 s in the
controller), of the event after a close (supervision time-out), of the end of a
scan; of time; of the driver and of esp-mqtt, which retry by themselves and find
a dead socket by its keepalive. Strong fairness of `Publish`: the top of `loop()`
is reached again and again, and every 10 s a publication is due there. Strong fairness of `CreateCheck`: now and then
there is memory for the task of a check. Nothing is assumed of the mower, of
users, of the broker or of the network: `JoinsWhenHeard` and `Recovers` have them
as premises. `FairSpec` of `OtaUpdate` has the boot, the restart and each
updater. `DeadSessionEnds` and `RestingMowerReleased` except `suspended`, after
which the task deliberately does nothing until the reboot.

**Mutants.** Each property of a passing run has a `Bug_X` beside the definition
`X` of the component: with `X` replaced by `Bug_X` the property fails.

## 8. Where the code and its documentation part

| run | sentence | what happens |
|---|---|---|
| `claim_saved_whole` | `README.md:233` | `AddTask` is repeated when its answer is lost, so the plan has a task twice and the save reports success |
| `claim_upload_intact` | `web_server.cpp:997` | a part header that ends in a read longer than what is left of the preamble buffer: the bytes of the image beyond it are lost and the upload goes on. `esp_ota_end()` usually notices, since the image has a checksum; the model stops before it |

Four more sentences of the source are stated as properties that TLC refutes. They
are not among the runs of `PROJECT.json`; each has a small configuration of its own
(`tlc -config claim_no_leak.cfg MCBleConn`, and so on: `MCBleConn` for the first two,
`MowerRpc`, `ScheduleEditor`). What the passing runs check holds with all four
behaviours in the models.

| configuration, property | sentence | what happens |
|---|---|---|
| `claim_no_leak`, `NoUnattendedLink` | `ble_manager.cpp:1277` | after the cancel the code waits 100 ms and ends the attempt whatever came of it: a connect that completes then is a link that nobody attends until the next attempt, in manual-only mode until the next wake |
| `claim_confirm_bounded`, `ConfirmationIsBounded` | `ble_manager.cpp:227` | the deadline of the park confirmation is looked at on a drop only; out of reach of the mower there is none, and the attempts go on for ever (`:1624`) |
| `claim_mow_is_forced`, `MowIsForced` | `ble_manager.cpp:1779` | the result of `SetMode(AUTO)` is ignored (`:1783`): declined or lost, the mow is logged as OK in HOME mode |
| `claim_edits_kept`, `EditsAreKept` | `mqtt.cpp:785` | the debounce is over when the plan is handed to a writer, the change is not: a publication during the write (up to 45 s, one every 10 s) seeds the editor from the old cache (`:788`), and the next hand-over takes the edit back. An edit that meets the seeding itself is not counted |

Behaviour met while modelling that has no configuration of its own:

* Connection. `_rest_pending` set for a link that is down already is taken by the next drop
  (`ble_manager.cpp:1051`). `set_target` compares after it has copied (`:2016`). A wake during
  an attempt that fails is lost in manual-only mode (`:2080`); with the re-check
  on it is kept. The end of the first poll overwrites the hold of a wake during it
  (`:1639`). An attempt that fails brings an armed re-check forward (`:1601`). A
  bonus attempt that gets a link and loses it arms the next (`:1068`). A scan, or
  an attempt past its check, goes on after `suspend()` (`:1971`). A queued
  command goes to whatever mower the next session is with (`:2106`).
* Frames. The length rule takes an echo of the handshake for an answer when the
  channel id ends in `0xAF`: it waits for two bytes that do not come. The CRC of
  the payload is not tested.
* Questions. The ids of an answer are not compared with the question: an answer
  that is later than its time-out may be taken for the next one of the same
  length (`clean` excludes it).
* Schedule. Two writers at a time mix their tasks (`:699`). A reading that fails
  half-way leaves entries of two readings in the cache (`:854`).
* MQTT. A Wi-Fi outage within one `loop()` is not seen, and a client that it
  wedged stays so (`Recovers` fails with `QuickFlaps = TRUE`). The time of an
  earlier return may let a nudge come without grace. A check whose task could
  not be created waits for its next turn, not for the next tick as the log says
  (`mqtt.cpp:1010`).
* Update. A failed download leaves BLE suspended; `suspend()` before BLE has
  started does nothing. A client of an upload that stops sending holds the one
  task of the web server (`web_server.cpp:1030`). `unmarked` also counts
  restarts into an image that an update left whole before it failed.
* Log. A new client gets what the queue had for the one before; lines may be sent
  twice and numbers may go back.
* Settings. The password is two commits (`settings.cpp:172`).

## 9. Not modelled

Discovery and state publication (formatting, with no state but a time); the scan
list; reset button and LED (each counts ticks by itself; the button's effect is
`FactoryReset`); routes, authentication and pages; the other getters and
setters; the DNS task of the portal, mDNS and the scan for networks; the reset of
the NimBLE host (it loses the link, which is there as a drop) and the scan
parameters; the back-off of optional queries and the fields of the telemetry;
the validation of the JSON of a schedule; `ConnState::ERROR`, which nothing sets.

## 10. Proofs

TLAPS checks all of them for arbitrary parameters and any number of calls, jobs,
edits, updates and resets, from the assumptions named in the modules
(`ConnConstants`, `RpcConstants`, `ScheduleConstants`, `LinkConstants`,
`EditorConstants`, `UploadConstants` with `Forms`, `UpdateConstants`,
`LogConstants`, `StreamConstants`). Where a theorem needs more it says so:
`~LostAnswers` and `OneAtATime`, `~SplitHeader`. None of these
is promised by the code; each has a behaviour in section 8 that shows what
happens without it. `DamagedAnswersFail` has `Guarded \subseteq Protected`: which
bytes are meant, those that something is checked in. `HeaderBytes`, which `codec`
gives to `Guarded`, are exactly these.

`BleConnProofs`: one inductive invariant in three layers, each using the ones
before. *Types* (`FlagStep`, `ValueStep`): `pollFail <= PollFailLimit` is not
inductive by itself, since the watchdog clears the count by the next
`ClaimAuthenticated` only; `WatchdogBound` and `VariantBound` close the gap.
*Control* (`ControlStep`): `AttemptOwner` strengthens `NoStrandedAttempt` to
exclude the step before the claim, `RetryTaken` says that a retry that was taken is
not pending while the flags that went with it are taken after it. *Links* (`LinkStep`): `LinkOwner` says which
line of `conn_task` answers for an open link, or that it came late; it needs no
assumption about connects that are cancelled.

`RetriesBounded`, the last part of it, is about `BleConnHistory`. The bound is
not inductive: each one-shot flag is given the number of attempts made before it was set
(`RecheckTries`, `WakeTries`, `RetryTries`), and the flags of the attempt in
progress likewise (`AttemptTries`), also while they are being taken (`TakeTries`).

`MowerRpcProofs`: `OneQuestionAtATime` is inductive given the types. `OursInv`
adds, for a clean question between its flush and its answer, that all the
buffer holds, all that is on its way and all that is owed is its own (`Only`,
stated as membership in a set of sequences, so that losing the front or the
whole of one cannot break it). The flush establishes it from `~Outstanding`; only
the holder of the mutex can add to what is owed. `WholeInv` says of the pieces
in the buffer that before each are those of its own answer, back to the first or
to the beginning of the buffer (`OneAnswer(rx)`), of those under way that they
are consecutive and end with an answer (`Runs(air)`), and of the two ends that
they meet unless the buffer holds a complete frame (`Joined`). It holds because
a loss always empties the buffer: it happens while the buffer is emptied, or
with the link. `OkInv` follows what a job is for: what it has still to ask
belongs to its recipe (`Planned`), a second try exists only within a question
(`FirstTry`), what was asked and agreed to is the mower's state until the job
ends (`Kept`: no later step of the recipe undoes it, `NothingIsUndone`; for a mow
only while `Sure`, since its recipe ignores one answer), and the
question under way has yes for an answer only if the mower did it (`Asking`).
`TypesAreKept` is the type invariant.

`ScheduleProofs`: `TInv` is `TypeOK` with how far a save can have got
(`Progress`). `Filled` says that the entries below the count, and below the
index of a reading, are filled in, which makes `CacheIsFilled` inductive
whatever the writers do to each other. For the refinement, `DraftIsOurs`: when
its writer adds to an open transaction or commits it, the draft is the tasks the
writer has added so far. `SavesAreWhole` shows that each step of `Schedule` is
then a step of `ScheduleStore` or a stutter (`StepImplementsStore`): of the five
steps before the report only `Commit` replaces the plan (`CallsOfASave`,
`CommitReplaces`). `OneWriterSavesWhole`
discharges `OneAtATime` for one writer, the instance of the run.
`TheSavedPlanIsTheList` states from the same invariant what `claim_saved_whole`
refutes without the two conditions.

`MqttLinkProofs`: the types, with how the driver's state goes with the flags;
`CheckIsUnderWay`; and the edge of the Wi-Fi followed through the loop, so that
a grace time that has passed stands for an outage since the last nudge.

`EditorProofs`: `NoEditForgotten` is inductive given the types.

`OtaProofs`, the update: `OneImageIsWhole` because every write goes to the partition that does
not run and a boot falls back to the one that ran. `NoPanicAfterUpdate` from
`Steady` (before BLE starts, the image of a boot is the one the next boot would
run, so the clean reboot is one) and `Accounted` (a first boot that may panic
has its clean reboot ahead, or an unmarked restart behind it).

`OtaProofs`, the upload: `UploadInv` has four parts. `InHead`: the preamble is the body
as far as it came, with no blank line in it, and nothing is written. `InImage`:
what is written and what is held back are together the payload as far as it
came, the held back part is the longest in which a boundary may have begun, and
no boundary lies wholly in what came. `Closed` and `Clean` say what a finished
upload and a failed one have written. The lemmas are about sequences: where a
pattern begins in a part of one (`PlacesInPart`), that two parts that meet are
one (`NextPart`), and that a boundary that ends in the next read begins in what
was held back (`NoMarkerMissed`), which is where `Keep` is one less than its
length.

`LogStreamProofs`: `SlotIsAWorker` is inductive given the types. `RingInv` says
where in the ring a line is, counted back from the last (`RingIndex` is the
lemma on `%`), which makes the copy the end of the log. `HandOver` says that a
line written since a client came that it has not been sent is in the queue or
with a task that has yet to broadcast it (`Pending`), unless the queue was full
for one.

`FrameStreamProofs`: the lemmas build a frame from its parts. `U16` and `U32`
are read back by `ReadU16` and `ReadU32` below 2^16 and 2^32 (`TwoBytesRead`,
`FourBytesRead`); a front of a header and some bytes, a payload and the seal
have the marks, the length, the CRCs and the payload where both ends look for
them (`FrameShape`), hence `QuestionIsUnderstood` and `AnswerIsDecoded` for
every id, result and payload that fits into a frame. Nothing so far looks into the
CRC: both ends compute the same one over the same bytes. An echo is two bytes longer
than its length field says, an answer four (`EchoShape`, `AnswerIsDecoded`);
what tells them apart is byte 11, in phase 1 the low byte of the channel
(`ChannelSetupEcho`). The invariant says that what has come and what is under
way are together one whole frame, that the semaphore is given if and only if
what has come is complete by the length rule (`Carried`), and what that frame is
(`Promised`). It is needed because nothing in `buf` alone tells where the bytes
come from; `CompleteWhenWhole` gives that a part of such a frame is complete
only when nothing is left under way. (TLC finds no violation of the invariant on
the instance of `codec` either.)

`OneByteIsNoticed` is about `maxim()`: two sequences of any length that differ in
one byte have different CRCs. The exclusive or cancels, by its digits
(`XorCancels`); a shift of the CRC is one to one, since the top digit of the
result tells which digit was shifted out, and a table of eight shifts so has each
byte once (`TableIsOneToOne`). The two runs of the loop are the same up to the
byte, differ after it and then stay different. That is induction over the length,
done here without the library's induction theorems: a set of counterexamples
would have a least element (`SomeLeast`).

`DamagedAnswersFail` follows a damaged answer through `NOTIFY_RX`. A flip makes
the frame `Hopeless`: with another mark it is never complete; with another
channel, link byte or CRC the header fails its CRC; with another kind, payload
length or end mark the shape fails; with another frame length it is too long, or
cut to bytes whose header CRC fails, or to fewer than a header has. The last case
is why a second invariant, `Dooms`, is needed on top of the first: what is cut
to fewer than 12 bytes has given the semaphore and is read as an answer, and the
rest of the frame is still to come behind it and may be cut again. It stays
either a frame that does not decode (`Frozen`) or a `Stub`, whose length field is
too small for an answer or which has too few bytes left for one: an answer that
can be cut short has at most 36 bytes, the rest of it at most 29 and then at most
20, and the shortest answer has 21. (TLC finds no violation of `Dooms` on the
instance of `codec` either.)

**Only model-checked:** all liveness (`DeadSessionEnds`, `SaveReturns`,
`BootEnds`, `SlotIsReleased` and the others): fairness and ENABLED are out of the
prover's reach.
