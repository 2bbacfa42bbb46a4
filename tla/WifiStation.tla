----------------------------- MODULE WifiStation -----------------------------
(***************************************************************************)
(* The Wi-Fi station and the setup portal                                  *)
(* (components/net/wifi_manager.cpp).  begin() runs on the main task       *)
(* before its loop; on_event() runs on the event task of ESP-IDF.          *)
(*                                                                         *)
(* sta and heard are external: the driver, and whether the saved network   *)
(* can be heard.                                                           *)
(***************************************************************************)

VARIABLES
    ssid,       \* a network is saved in settings
    main,       \* the main task: "begin", "wait" for an address, or "run"
    portal,     \* _portal
    up,         \* _connected
    sta,        \* external: "off", "starting", "idle", "joining" or "joined"
    heard       \* external

wifiVars == <<ssid, main, portal, up, sta, heard>>

WifiInit ==
    /\ ssid \in BOOLEAN /\ main = "begin"
    /\ portal = FALSE /\ up = FALSE /\ sta = "off" /\ heard \in BOOLEAN

\* start_ap() for a bridge without a saved network,
OpenPortal ==
    /\ main = "begin" /\ ~ssid
    /\ portal' = TRUE /\ sta' = "starting" /\ main' = "run"
    /\ UNCHANGED <<ssid, up, heard>>

\* the station otherwise.
StartStation ==
    /\ main = "begin" /\ ssid
    /\ sta' = "starting" /\ main' = "wait"
    /\ UNCHANGED <<ssid, portal, up, heard>>

\* A timeout opens the portal, as it once did.
Bug_WaitEnds ==
    /\ main = "wait" /\ main' = "run"
    /\ portal' = (portal \/ ~up)
    /\ UNCHANGED <<ssid, up, sta, heard>>

\* An address, or WIFI_CONNECT_TIMEOUT_MS: the station goes on either way.
WaitEnds ==
    /\ main = "wait" /\ main' = "run"
    /\ UNCHANGED <<ssid, portal, up, sta, heard>>

\* on_event(): a portal only scans.
Connect == sta' = IF portal THEN "idle" ELSE "joining"

StaStart ==
    /\ sta = "starting" /\ Connect
    /\ UNCHANGED <<ssid, main, portal, up, heard>>

\* The link was lost, or an attempt to join failed.
StaDisconnected ==
    /\ sta \in {"joining", "joined"} /\ ~heard
    /\ up' = FALSE /\ Connect
    /\ UNCHANGED <<ssid, main, portal, heard>>

GotIp ==
    /\ sta = "joining" /\ heard
    /\ sta' = "joined" /\ up' = TRUE
    /\ UNCHANGED <<ssid, main, portal, heard>>

\* External: the router is switched off or on, a neighbour's microwave.
NetworkChanges ==
    /\ heard' = ~heard
    /\ UNCHANGED <<ssid, main, portal, up, sta>>

\* Types, and how the driver's state goes with the flags: the portal is only for
\* a bridge without a network, and has no station.
WifiTypeOK ==
    /\ ssid \in BOOLEAN /\ main \in {"begin", "wait", "run"}
    /\ portal \in BOOLEAN /\ up \in BOOLEAN /\ heard \in BOOLEAN
    /\ sta \in {"off", "starting", "idle", "joining", "joined"}
    /\ main = "begin" <=> sta = "off"
    /\ portal => ~ssid /\ sta # "joined"
    /\ ~portal /\ main # "begin" => ssid /\ sta # "idle"
    /\ up => sta = "joined"
=============================================================================
