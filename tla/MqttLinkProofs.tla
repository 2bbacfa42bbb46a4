--------------------------- MODULE MqttLinkProofs ---------------------------
(***************************************************************************)
(* Theorems about MqttLink and the Wi-Fi station under it.                 *)
(*                                                                         *)
(* TypeOK and CheckIsUnderWay are not inductive: a portal must be known to *)
(* have a station that never joins, and a task must be known not to run    *)
(* while the next one is being created.  NudgeIsEarned rests on where a    *)
(* time of return can come from: an edge that loop() saw, and so an outage *)
(* that was not yet used up.                                               *)
(***************************************************************************)
EXTENDS MqttLink, TLAPS

PortalOnlyScans == portal => sta \in {"starting", "idle"}
OneCheck == pc = "create" => checker = "none"
OutageIsNoted ==
    /\ ~up => outage
    /\ ~wasUp => outage
    /\ backAt # "none" => outage

IInv == TypeOK /\ PortalOnlyScans /\ CheckIsUnderWay /\ OneCheck /\ OutageIsNoted

USE LinkConstants

LEMMA InitHolds == Init => IInv
  BY DEF Init, IInv, WifiInit, TypeOK, WifiTypeOK, PortalOnlyScans,
         CheckIsUnderWay, OneCheck, OutageIsNoted

LEMMA WifiStutters == ASSUME WifiTypeOK, UNCHANGED wifiVars PROVE WifiTypeOK'
  BY DEF WifiTypeOK, wifiVars

\* loop() and the task it starts keep the invariant.
LEMMA LoopKeeps ==
  ASSUME IInv, Loop \/ Fetched \/ GracePasses \/ CheckDue
  PROVE  IInv'
  <1> USE DEF IInv, PortalOnlyScans, CheckIsUnderWay, OneCheck, OutageIsNoted,
              wifiVars, loopVars, checkVars
  <1>w. WifiTypeOK'
    BY WifiStutters DEF TypeOK, Loop, LoopTop, LoopGate, CreateCheck,
       CreateFails, Fetched, GracePasses, CheckDue
  <1>1. CASE LoopTop
    <2>1. /\ wasUp' \in BOOLEAN /\ sawUp' \in BOOLEAN
          /\ UNCHANGED <<connected, ever, pending, due, inFlight, checker, broker>>
      BY <1>1 DEF LoopTop, TypeOK, WifiTypeOK
    <2>2. /\ backAt' \in {"none", "recent", "past"} /\ pc' = "gate"
          /\ client' \in {"seeking", "online", "stale", "wedging", "wedged"}
          /\ outage' \in BOOLEAN
      BY <1>1 DEF LoopTop, BackAt, TypeOK
    <2>3. TypeOK'
      BY <1>w, <2>1, <2>2 DEF TypeOK
    <2> QED
      BY <2>3, <1>1 DEF LoopTop, MayNudge, BackAt, TypeOK
  <1>2. CASE LoopGate
    <2>1. TypeOK'
      BY <1>w, <1>2 DEF LoopGate, MayCheck, TypeOK
    <2> QED
      BY <2>1, <1>2 DEF LoopGate, MayCheck, TypeOK
  <1>3. CASE CreateCheck
    <2>1. TypeOK'
      BY <1>w, <1>3 DEF CreateCheck, TypeOK
    <2> QED
      BY <2>1, <1>3 DEF CreateCheck, TypeOK
  <1>4. CASE CreateFails
    <2>1. TypeOK'
      BY <1>w, <1>4 DEF CreateFails, TypeOK
    <2> QED
      BY <2>1, <1>4 DEF CreateFails, TypeOK
  <1>5. CASE Fetched
    <2>1. TypeOK'
      BY <1>w, <1>5 DEF Fetched, TypeOK
    <2> QED
      BY <2>1, <1>5 DEF Fetched, TypeOK
  <1>6. CASE GracePasses
    <2>1. TypeOK'
      BY <1>w, <1>6 DEF GracePasses, TypeOK
    <2> QED
      BY <2>1, <1>6 DEF GracePasses, TypeOK
  <1>7. CASE CheckDue
    <2>1. TypeOK'
      BY <1>w, <1>7 DEF CheckDue, TypeOK
    <2> QED
      BY <2>1, <1>7 DEF CheckDue, TypeOK
  <1> QED
    BY <1>1, <1>2, <1>3, <1>4, <1>5, <1>6, <1>7 DEF Loop

\* esp-mqtt and the broker keep it,
LEMMA ClientKeeps ==
  ASSUME IInv, Connected \/ Disconnected \/ SocketDies \/ BrokerChanges
  PROVE  IInv'
  <1> USE DEF IInv, PortalOnlyScans, CheckIsUnderWay, OneCheck, OutageIsNoted,
              wifiVars, loopVars, checkVars
  <1>w. WifiTypeOK'
    BY WifiStutters DEF TypeOK, Connected, Disconnected, SocketDies, BrokerChanges
  <1>1. CASE Connected
    <2>1. TypeOK'
      BY <1>w, <1>1 DEF Connected, TypeOK
    <2> QED
      BY <2>1, <1>1 DEF Connected, TypeOK
  <1>2. CASE Disconnected
    <2>1. TypeOK'
      BY <1>w, <1>2 DEF Disconnected, TypeOK
    <2> QED
      BY <2>1, <1>2 DEF Disconnected, TypeOK
  <1>3. CASE SocketDies
    <2>1. TypeOK'
      BY <1>w, <1>3 DEF SocketDies, TypeOK
    <2> QED
      BY <2>1, <1>3 DEF SocketDies, TypeOK
  <1>4. CASE BrokerChanges
    <2>1. TypeOK'
      BY <1>w, <1>4 DEF BrokerChanges, TypeOK
    <2> QED
      BY <2>1, <1>4 DEF BrokerChanges, TypeOK
  <1> QED
    BY <1>1, <1>2, <1>3, <1>4

\* and so does the Wi-Fi station, begin() and the event handler.
LEMMA StationKeeps ==
  ASSUME IInv,
         WifiEvent \/ (NetworkChanges /\ UNCHANGED <<mqttVars, outage>>)
  PROVE  IInv'
  <1> USE DEF IInv, PortalOnlyScans, CheckIsUnderWay, OneCheck, OutageIsNoted,
              mqttVars, loopVars, checkVars
  <1>1. CASE OpenPortal /\ UNCHANGED <<mqttVars, outage>>
    <2>1. WifiTypeOK' /\ PortalOnlyScans'
      BY <1>1 DEF OpenPortal, TypeOK, WifiTypeOK
    <2>2. TypeOK'
      BY <2>1, <1>1 DEF TypeOK
    <2> QED
      BY <2>1, <2>2, <1>1 DEF OpenPortal, TypeOK, WifiTypeOK
  <1>2. CASE StartStation /\ UNCHANGED <<mqttVars, outage>>
    <2>1. WifiTypeOK' /\ PortalOnlyScans'
      BY <1>2 DEF StartStation, TypeOK, WifiTypeOK
    <2>2. TypeOK'
      BY <2>1, <1>2 DEF TypeOK
    <2> QED
      BY <2>1, <2>2, <1>2 DEF StartStation, TypeOK, WifiTypeOK
  <1>3. CASE WaitEnds /\ UNCHANGED <<mqttVars, outage>>
    <2>1. WifiTypeOK' /\ PortalOnlyScans'
      BY <1>3 DEF WaitEnds, TypeOK, WifiTypeOK
    <2>2. TypeOK'
      BY <2>1, <1>3 DEF TypeOK
    <2> QED
      BY <2>1, <2>2, <1>3 DEF WaitEnds, TypeOK, WifiTypeOK
  <1>4. CASE StaStart /\ UNCHANGED <<mqttVars, outage>>
    <2>1. WifiTypeOK' /\ PortalOnlyScans'
      BY <1>4 DEF StaStart, Connect, TypeOK, WifiTypeOK
    <2>2. TypeOK'
      BY <2>1, <1>4 DEF TypeOK
    <2> QED
      BY <2>1, <2>2, <1>4 DEF StaStart, Connect, TypeOK, WifiTypeOK
  <1>5. CASE StaDisconnected /\ outage' = TRUE /\ UNCHANGED mqttVars
    <2>1. WifiTypeOK' /\ PortalOnlyScans'
      BY <1>5 DEF StaDisconnected, Connect, TypeOK, WifiTypeOK
    <2>2. TypeOK'
      BY <2>1, <1>5 DEF TypeOK
    <2> QED
      BY <2>1, <2>2, <1>5 DEF StaDisconnected, Connect, TypeOK, WifiTypeOK
  <1>6. CASE GotIp /\ UNCHANGED <<mqttVars, outage>>
    <2>1. WifiTypeOK' /\ PortalOnlyScans'
      BY <1>6 DEF GotIp, TypeOK, WifiTypeOK
    <2>2. TypeOK'
      BY <2>1, <1>6 DEF TypeOK
    <2> QED
      BY <2>1, <2>2, <1>6 DEF GotIp, TypeOK, WifiTypeOK
  <1>7. CASE NetworkChanges /\ UNCHANGED <<mqttVars, outage>>
    <2>1. WifiTypeOK' /\ PortalOnlyScans'
      BY <1>7 DEF NetworkChanges, TypeOK, WifiTypeOK
    <2>2. TypeOK'
      BY <2>1, <1>7 DEF TypeOK
    <2> QED
      BY <2>1, <2>2, <1>7 DEF NetworkChanges, TypeOK, WifiTypeOK
  <1> QED
    BY <1>1, <1>2, <1>3, <1>4, <1>5, <1>6, <1>7 DEF WifiEvent

LEMMA Invariance == Spec => []IInv
  <1>1. ASSUME IInv, [Next]_vars PROVE IInv'
    <2>1. CASE UNCHANGED vars
      <3>1. WifiTypeOK'
        BY <1>1, <2>1, WifiStutters DEF IInv, TypeOK, vars, wifiVars
      <3> QED
        BY <1>1, <2>1, <3>1 DEF IInv, TypeOK, PortalOnlyScans,
           CheckIsUnderWay, OneCheck, OutageIsNoted, vars, wifiVars, loopVars,
           checkVars
    <2>2. CASE Loop \/ Fetched \/ GracePasses \/ CheckDue
      BY <1>1, <2>2, LoopKeeps
    <2>3. CASE Connected \/ Disconnected \/ SocketDies \/ BrokerChanges
      BY <1>1, <2>3, ClientKeeps
    <2>4. CASE WifiEvent \/ (NetworkChanges /\ UNCHANGED <<mqttVars, outage>>)
      BY <1>1, <2>4, StationKeeps
    <2>5. CASE Next
      BY <2>2, <2>3, <2>4, <2>5 DEF Next
    <2> QED
      BY <1>1, <2>1, <2>5
  <1> QED
    BY InitHolds, <1>1, PTL DEF Spec

-----------------------------------------------------------------------------
\* Types, and how the driver's state goes with the flags of wifi_manager.
THEOREM TypeCorrect == Spec => []TypeOK
  BY Invariance, PTL DEF IInv

\* _ota_check_in_flight stands for a check that is there or about to be, on
\* every path: created, not created, done.
THEOREM ChecksAreUnderWay == Spec => []CheckIsUnderWay
  BY Invariance, PTL DEF IInv

\* One forced reconnect per outage, also when Wi-Fi comes back before loop()
\* has seen it go.
THEOREM NudgesAreEarned == Spec => NudgeIsEarned
  <1>1. IInv /\ [Next]_vars => [LoopTop /\ MayNudge => outage]_vars
    BY DEF IInv, OutageIsNoted, MayNudge, BackAt
  <1> QED
    BY Invariance, <1>1, PTL DEF Spec, NudgeIsEarned
=============================================================================
