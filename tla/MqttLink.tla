------------------------------ MODULE MqttLink ------------------------------
(***************************************************************************)
(* The bridge's link to the broker and the check for a newer firmware      *)
(* (components/mqtt_bridge/mqtt.cpp: loop(), mqtt_event_handler(),         *)
(* ota_check_task()), on top of the Wi-Fi station.                         *)
(*                                                                         *)
(* loop() runs on the main task and may lose the processor between its     *)
(* steps; the event handler runs on the task of esp-mqtt, the check for an *)
(* update on a task of its own.  The schedule editor is in ScheduleEditor. *)
(*                                                                         *)
(* client and broker are external.  esp-mqtt reconnects by itself, except  *)
(* that a socket that died with the Wi-Fi may leave it wedged, until       *)
(* esp_mqtt_client_reconnect().                                            *)
(*                                                                         *)
(* outage is history, which nothing reads: Wi-Fi was down since the last   *)
(* forced reconnect.                                                       *)
(***************************************************************************)
EXTENDS WifiStation

CONSTANT QuickFlaps     \* Wi-Fi may come back before loop() saw it go
ASSUME LinkConstants == QuickFlaps \in BOOLEAN

VARIABLES
    connected,  \* _connected
    ever,       \* _ever_connected
    wasUp,      \* _wifi_was_up
    backAt,     \* _wifi_back_at: "none", "recent", or "past" the grace time
    pc,         \* where loop() is
    sawUp,      \* wifi_up of this loop()
    pending,    \* _ota_check_pending
    due,        \* OTA_CHECK_MS since _last_ota_check
    inFlight,   \* _ota_check_in_flight
    checker,    \* the task of the check: "none" or "fetching"
    client,     \* external: "seeking", "online", "stale" or "wedging" (the socket
                \* is dead and nobody knows), or "wedged"
    broker,     \* external: the broker can be reached over a working network
    outage      \* history

loopVars  == <<wasUp, backAt, pc, sawUp>>
checkVars == <<pending, due, inFlight, checker>>
vars == <<wifiVars, connected, ever, loopVars, checkVars, client, broker, outage>>

Init ==
    /\ WifiInit
    /\ connected = FALSE /\ ever = FALSE
    /\ wasUp = FALSE /\ backAt = "none" /\ pc = "top" /\ sawUp = FALSE
    /\ pending = TRUE /\ due = FALSE /\ inFlight = FALSE /\ checker = "none"
    /\ client = "seeking" /\ broker \in BOOLEAN /\ outage = TRUE

-----------------------------------------------------------------------------
(* loop() *)

\* Armed only for a client that knows it is offline.
Bug_BackAt == IF up /\ ~wasUp /\ ~connected THEN "recent" ELSE backAt

BackAt == IF up /\ ~wasUp THEN "recent" ELSE backAt
MayNudge == up /\ ~connected /\ ever /\ BackAt = "past"

\* The time of the return is kept.
Bug_LoopTop ==
    /\ main = "run" /\ pc = "top"
    /\ wasUp' = up /\ sawUp' = up
    /\ backAt' = BackAt
    /\ IF MayNudge
       THEN /\ client' = IF client = "online" THEN client ELSE "seeking"
            /\ outage' = FALSE
       ELSE UNCHANGED <<client, outage>>
    /\ pc' = "gate"
    /\ UNCHANGED <<wifiVars, connected, ever, checkVars, broker>>

\* The edge of the Wi-Fi, and one forced reconnect after the grace time.
LoopTop ==
    /\ main = "run" /\ pc = "top"
    /\ wasUp' = up /\ sawUp' = up
    /\ IF MayNudge
       THEN /\ backAt' = "none" /\ outage' = FALSE
            /\ client' = IF client = "online" THEN client ELSE "seeking"
       ELSE backAt' = BackAt /\ UNCHANGED <<client, outage>>
    /\ pc' = "gate"
    /\ UNCHANGED <<wifiVars, connected, ever, checkVars, broker>>

\* After a reconnect only.
Bug_MayCheck == ~inFlight /\ pending

MayCheck == ~inFlight /\ (pending \/ due)

LoopGate ==
    /\ pc = "gate"
    /\ \/ /\ ~(sawUp /\ connected /\ MayCheck)
          /\ pc' = "top" /\ UNCHANGED checkVars
       \/ /\ sawUp /\ connected /\ MayCheck
          /\ pending' = FALSE /\ due' = FALSE /\ inFlight' = TRUE
          /\ pc' = "create" /\ UNCHANGED checker
    /\ UNCHANGED <<wifiVars, connected, ever, wasUp, backAt, sawUp, client,
                   broker, outage>>

CreateCheck ==
    /\ pc = "create" /\ pc' = "top"
    /\ checker' = "fetching"
    /\ UNCHANGED <<wifiVars, connected, ever, wasUp, backAt, sawUp, pending,
                   due, inFlight, client, broker, outage>>

\* The flag is left as it is.
Bug_CreateFails ==
    /\ pc = "create" /\ pc' = "top"
    /\ UNCHANGED <<wifiVars, connected, ever, wasUp, backAt, sawUp, checkVars,
                   client, broker, outage>>

\* No memory for the task.
CreateFails ==
    /\ pc = "create" /\ pc' = "top"
    /\ inFlight' = FALSE
    /\ UNCHANGED <<wifiVars, connected, ever, wasUp, backAt, sawUp, pending,
                   due, checker, client, broker, outage>>

Loop == LoopTop \/ LoopGate \/ CreateCheck \/ CreateFails

\* ota_check_task(): the request to GitHub has ended, well or not.
Fetched ==
    /\ checker = "fetching" /\ checker' = "none" /\ inFlight' = FALSE
    /\ UNCHANGED <<wifiVars, connected, ever, loopVars, pending, due, client,
                   broker, outage>>

\* MQTT_WIFI_REGAIN_GRACE_MS and OTA_CHECK_MS pass.
GracePasses ==
    /\ backAt = "recent" /\ backAt' = "past"
    /\ UNCHANGED <<wifiVars, connected, ever, wasUp, pc, sawUp, checkVars,
                   client, broker, outage>>
CheckDue ==
    /\ ~due /\ due' = TRUE
    /\ UNCHANGED <<wifiVars, connected, ever, loopVars, pending, inFlight,
                   checker, client, broker, outage>>

-----------------------------------------------------------------------------
(* The task of esp-mqtt, and the world *)

\* MQTT_EVENT_CONNECTED
Connected ==
    /\ main = "run" /\ client = "seeking" /\ sta = "joined" /\ broker
    /\ client' = "online"
    /\ connected' = TRUE /\ ever' = TRUE /\ pending' = TRUE
    /\ UNCHANGED <<wifiVars, loopVars, due, inFlight, checker, broker, outage>>

\* MQTT_EVENT_DISCONNECTED: the keepalive found the socket dead.
Disconnected ==
    /\ client \in {"stale", "wedging"}
    /\ client' = IF client = "wedging" THEN "wedged" ELSE "seeking"
    /\ connected' = FALSE
    /\ UNCHANGED <<wifiVars, ever, loopVars, checkVars, broker, outage>>

\* External: the socket dies, with the broker or with the Wi-Fi.
SocketDies ==
    /\ client = "online"
    /\ \/ ~broker /\ client' = "stale"
       \/ sta # "joined" /\ client' \in {"stale", "wedging"}
    /\ UNCHANGED <<wifiVars, connected, ever, loopVars, checkVars, broker, outage>>

BrokerChanges ==
    /\ broker' = ~broker
    /\ UNCHANGED <<wifiVars, connected, ever, loopVars, checkVars, client, outage>>

mqttVars == <<connected, ever, loopVars, checkVars, client, broker>>

WifiEvent ==
    \/ /\ OpenPortal \/ StartStation \/ WaitEnds \/ StaStart
       /\ UNCHANGED <<mqttVars, outage>>
    \/ StaDisconnected /\ outage' = TRUE /\ UNCHANGED mqttVars
    \/ GotIp /\ (QuickFlaps \/ ~wasUp) /\ UNCHANGED <<mqttVars, outage>>

Next ==
    \/ Loop \/ Fetched \/ GracePasses \/ CheckDue
    \/ Connected \/ Disconnected \/ SocketDies \/ BrokerChanges
    \/ WifiEvent
    \/ NetworkChanges /\ UNCHANGED <<mqttVars, outage>>

Spec == Init /\ [][Next]_vars

\* The scheduler runs every task, esp-mqtt and the driver work, and now and
\* then there is memory for a task.
FairSpec ==
    /\ Spec
    /\ WF_vars(Loop) /\ SF_vars(CreateCheck)
    /\ WF_vars(Fetched) /\ WF_vars(GracePasses) /\ WF_vars(CheckDue)
    /\ WF_vars(Connected) /\ WF_vars(SocketDies) /\ WF_vars(Disconnected)
    /\ WF_vars(WifiEvent)

-----------------------------------------------------------------------------
(* Properties *)

TypeOK ==
    /\ WifiTypeOK
    /\ connected \in BOOLEAN /\ ever \in BOOLEAN /\ wasUp \in BOOLEAN
    /\ sawUp \in BOOLEAN /\ pending \in BOOLEAN /\ due \in BOOLEAN
    /\ inFlight \in BOOLEAN /\ broker \in BOOLEAN /\ outage \in BOOLEAN
    /\ backAt \in {"none", "recent", "past"} /\ pc \in {"top", "gate", "create"}
    /\ checker \in {"none", "fetching"}
    /\ client \in {"seeking", "online", "stale", "wedging", "wedged"}

\* The flag that keeps a second check from starting stands for a check that is
\* there, or about to be: it is not left behind when there was no memory for the
\* task, and it is not taken down while the request is under way.
CheckIsUnderWay == inFlight <=> (pc = "create" \/ checker = "fetching")

\* "One nudge per outage": no reconnect is forced unless the Wi-Fi was down
\* since the last one, however long the broker stays away.
NudgeIsEarned == [][LoopTop /\ MayNudge => outage]_vars

\* A bridge with a saved network joins it whenever it comes and stays, also when
\* it was not there at boot.
JoinsWhenHeard == ssid /\ <>[]heard => <>[]up

\* Network and broker come back and stay: so does the link to the broker, the
\* dead socket and the wedged client included.
Recovers == ssid /\ <>[](heard /\ broker) => <>[]connected

\* While the bridge stays connected it goes on looking for updates, although a
\* check may fail to start.
ChecksGoOn == <>[](up /\ connected) => []<>(checker = "fetching")
=============================================================================
