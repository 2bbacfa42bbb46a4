------------------------------ MODULE OtaUpdate ------------------------------
(***************************************************************************)
(* A firmware update and the boots after it (components/web/web_server.cpp *)
(* h_ota_post, perform_github_ota; main/app_main.cpp;                      *)
(* components/core/settings.cpp, the post-update flag).                    *)
(*                                                                         *)
(* An upload runs on the task of the web server; every request for the     *)
(* version on GitHub starts a task of its own, and nothing keeps the two,  *)
(* or two of the latter, apart.  The power may fail between any two steps, *)
(* and a settings page may restart the bridge.                             *)
(*                                                                         *)
(* External: the two partitions, each an image in two halves; the boot     *)
(* loader, which falls back to the other partition when the chosen one has *)
(* no whole image; and, from the comment in app_main, that BLE panics on   *)
(* the first boot of an update that was not a clean one.                   *)
(*                                                                         *)
(* unmarked and panics are history, which nothing reads: how many restarts *)
(* went over to another image without the flag, and how many panics there  *)
(* were.                                                                   *)
(***************************************************************************)
EXTENDS Naturals, FiniteSets

CONSTANTS
    Web, GitHub,    \* GitHub: a set of tasks
    None,
    MaxUpdates, MaxResets   \* bounds

ASSUME UpdateConstants ==
    /\ Web \notin GitHub /\ None \notin GitHub \cup {Web, "old"}
    /\ MaxUpdates \in Nat /\ MaxResets \in Nat

Updaters == {Web} \cup GitHub

VARIABLES
    phase,      \* app_main: "guard", "reboot", "init" or "run"
    ble,        \* "off", "on" or "suspended"
    maint,      \* maintenance mode
    po,         \* post-update flag in NVS
    slot,       \* external: per partition and half, who wrote it, or None
    runs, boot, \* external: the partition that runs, the one to boot
    pc,         \* per updater
    restart,    \* a restart is scheduled
    risky,      \* external: first boot of an update, not a clean one
    updates, resets,    \* bounds
    unmarked, panics    \* history

flash == <<slot, boot>>
vars == <<phase, ble, maint, po, flash, runs, pc, restart, risky, updates,
          resets, unmarked, panics>>

Slots  == {1, 2}
Halves == {1, 2}
Other(s) == 3 - s
\* The partition that is chosen to boot, whichever one runs.
Bug_Target == boot
\* esp_ota_get_next_update_partition()
Target == Other(runs)
\* "old" wrote what the bridge was delivered with.
Whole(s) == slot[s][1] # None /\ slot[s][1] = slot[s][2]

Init ==
    /\ phase = "guard" /\ ble = "off" /\ maint \in BOOLEAN /\ po = 0
    /\ slot = [s \in Slots |-> [h \in Halves |-> IF s = 1 THEN "old" ELSE None]]
    /\ runs = 1 /\ boot = 1
    /\ pc = [u \in Updaters |-> "idle"] /\ restart = FALSE /\ risky = FALSE
    /\ updates = 0 /\ resets = 0 /\ unmarked = 0 /\ panics = 0

-----------------------------------------------------------------------------
(* Resets *)

\* The boot loader.
Booted == IF Whole(boot) THEN boot ELSE Other(boot)

\* Everything but NVS and the flash is lost.
Reset(clean) ==
    /\ phase' = "guard" /\ ble' = "off" /\ restart' = FALSE
    /\ pc' = [u \in Updaters |-> "idle"]
    /\ runs' = Booted
    /\ risky' = (~clean /\ Booted # runs)
    /\ unmarked' = unmarked + IF ~clean /\ Booted # runs /\ po' # 1 THEN 1 ELSE 0

PowerFails ==
    /\ resets < MaxResets /\ resets' = resets + 1
    /\ UNCHANGED <<maint, po, flash, updates, panics>>
    /\ Reset(TRUE)

\* schedule_restart()
Restart ==
    /\ restart /\ UNCHANGED <<maint, po, flash, updates, resets, panics>>
    /\ Reset(FALSE)

-----------------------------------------------------------------------------
(* app_main() *)

\* The flag goes down at once.
Bug_Guard ==
    /\ phase = "guard"
    /\ \/ po # 0 /\ po' = 0
       \/ po = 0 /\ UNCHANGED po
    /\ phase' = "init"
    /\ UNCHANGED <<ble, maint, flash, runs, pc, restart, risky, updates, resets,
                   unmarked, panics>>

\* The flag stays up until BLE is there.
Bug_GuardKeeps ==
    /\ phase = "guard"
    /\ \/ po = 1 /\ phase' = "reboot" /\ UNCHANGED po
       \/ po = 2 /\ po' = 0 /\ phase' = "init"
       \/ po = 0 /\ phase' = "init" /\ UNCHANGED po
    /\ UNCHANGED <<ble, maint, flash, runs, pc, restart, risky, updates, resets,
                   unmarked, panics>>

Guard ==
    /\ phase = "guard"
    /\ \/ po = 1 /\ po' = 2 /\ phase' = "reboot"
       \/ po = 2 /\ po' = 0 /\ phase' = "init"
       \/ po = 0 /\ phase' = "init" /\ UNCHANGED po
    /\ UNCHANGED <<ble, maint, flash, runs, pc, restart, risky, updates, resets,
                   unmarked, panics>>

CleanReboot ==
    /\ phase = "reboot" /\ UNCHANGED <<maint, po, flash, updates, resets, panics>>
    /\ Reset(FALSE)

\* Wi-Fi and the web server come first, BLE last.
StartUp ==
    /\ phase = "init" /\ UNCHANGED <<maint, po, flash, updates, resets>>
    /\ \/ maint /\ phase' = "run"
          /\ UNCHANGED <<ble, runs, pc, restart, risky, unmarked, panics>>
       \/ /\ ~maint /\ ~risky
          /\ phase' = "run" /\ ble' = "on"
          /\ UNCHANGED <<runs, pc, restart, risky, unmarked, panics>>
       \/ /\ ~maint /\ risky
          /\ panics' = panics + 1 /\ Reset(FALSE)

\* A settings page or the maintenance button: saved, and a restart in 300 ms.
\* The web server has one task, and is up before BLE.
SettingsPage ==
    /\ phase \in {"init", "run"} /\ ~restart /\ pc[Web] = "idle" /\ resets < MaxResets
    /\ resets' = resets + 1
    /\ maint' \in BOOLEAN /\ restart' = TRUE
    /\ UNCHANGED <<phase, ble, po, flash, runs, pc, risky, updates, unmarked,
                   panics>>

\* From its page or the button: NVS is erased, with the flag.
FactoryReset ==
    /\ phase \in {"init", "run"} /\ resets < MaxResets /\ resets' = resets + 1
    /\ maint' = FALSE /\ po' = 0
    /\ UNCHANGED <<flash, updates, panics>>
    /\ Reset(FALSE)

-----------------------------------------------------------------------------
(* An update *)

Step(u, from, to) ==
    /\ phase \in {"init", "run"} /\ pc[u] = from /\ pc' = [pc EXCEPT ![u] = to]

\* suspend() does nothing before BLE has started; a bridge that failed to
\* update stays suspended.
Begin(u) ==
    /\ Step(u, "idle", "suspended")
    /\ updates < MaxUpdates /\ updates' = updates + 1
    /\ ble' = IF ble = "on" THEN "suspended" ELSE ble
    /\ UNCHANGED <<phase, maint, po, flash, runs, restart, risky, resets,
                   unmarked, panics>>

Write(h, by) == slot' = [slot EXCEPT ![Target][h] = by]

\* esp_ota_begin() erases.
Erase(u) ==
    /\ Step(u, "suspended", "begun")
    /\ slot' = [slot EXCEPT ![Target] = [h \in Halves |-> None]]
    /\ UNCHANGED <<phase, ble, maint, po, runs, boot, restart, risky, updates,
                   resets, unmarked, panics>>
WriteFirst(u) ==
    /\ Step(u, "begun", "half") /\ Write(1, u)
    /\ UNCHANGED <<phase, ble, maint, po, runs, boot, restart, risky, updates,
                   resets, unmarked, panics>>
WriteRest(u) ==
    /\ Step(u, "half", "written") /\ Write(2, u)
    /\ UNCHANGED <<phase, ble, maint, po, runs, boot, restart, risky, updates,
                   resets, unmarked, panics>>

\* esp_ota_end() reads the partition again.
Ended(u) ==
    /\ Step(u, "written", "ended") /\ Whole(Target)
    /\ UNCHANGED <<phase, ble, maint, po, flash, runs, restart, risky, updates,
                   resets, unmarked, panics>>

\* A stream or write error, or an image that is not whole.
Fails(u) ==
    /\ phase \in {"init", "run"} /\ pc[u] \in {"suspended", "begun", "half", "written", "ended"}
    /\ pc' = [pc EXCEPT ![u] = "idle"]
    /\ UNCHANGED <<phase, ble, maint, po, flash, runs, restart, risky, updates,
                   resets, unmarked, panics>>

\* esp_ota_set_boot_partition(), which looks at the image once more;
SetBoot(u) ==
    /\ Step(u, "ended", "switched") /\ Whole(Target)
    /\ boot' = Target
    /\ UNCHANGED <<phase, ble, maint, po, slot, runs, restart, risky, updates,
                   resets, unmarked, panics>>
\* set_post_ota(1);
Mark(u) ==
    /\ Step(u, "switched", "marked") /\ po' = 1
    /\ UNCHANGED <<phase, ble, maint, flash, runs, restart, risky, updates,
                   resets, unmarked, panics>>
\* schedule_restart(1000).
Schedule(u) ==
    /\ Step(u, "marked", "idle") /\ restart' = TRUE
    /\ UNCHANGED <<phase, ble, maint, po, flash, runs, risky, updates, resets,
                   unmarked, panics>>

Update(u) ==
    \/ Erase(u) \/ WriteFirst(u) \/ WriteRest(u) \/ Ended(u) \/ Fails(u)
    \/ SetBoot(u) \/ Mark(u) \/ Schedule(u)

Boot == Guard \/ CleanReboot \/ StartUp

Next ==
    \/ Boot \/ Restart \/ PowerFails \/ SettingsPage \/ FactoryReset
    \/ \E u \in Updaters : Begin(u) \/ Update(u)

Spec == Init /\ [][Next]_vars
FairSpec ==
    Spec /\ WF_vars(Boot) /\ WF_vars(Restart)
         /\ \A u \in Updaters : WF_vars(Update(u))

-----------------------------------------------------------------------------
(* Properties *)

\* Whatever two updates do to each other's image, the partition that runs is
\* never touched: there is always one to boot.
OneImageIsWhole == Whole(runs)

\* BLE panics only after a restart that went over to another image before the
\* flag was up (another page or update restarts the bridge between the switch of
\* the partition and the flag, or an image left behind by an update that failed
\* is booted), and then once: a restart with the flag up always gets its clean
\* reboot, whatever comes in between.
NoPanicAfterUpdate == panics <= unmarked

\* Every boot gets to the main loop, with BLE unless it is in maintenance mode:
\* the guard never restarts the bridge for good.
BootEnds == phase # "run" ~> phase = "run" /\ (maint \/ ble = "on")
=============================================================================
