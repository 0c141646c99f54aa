-------------------------- MODULE WifiStationProofs --------------------------
(***************************************************************************)
(* Proofs about the WiFi station as the gateway starts and uses it: what   *)
(* its handler believes about the past is right once the queue is empty,   *)
(* and the station is given up only after every retry, for any MaxRetry.   *)
(***************************************************************************)
EXTENDS GatewayBoot, SequenceTheorems, TLAPS

\* What may wait in the queue, and what the driver does meanwhile: it reports one
\* change and then waits, so that no more than a connection and its end are pending.
QueueShape ==
    \/ /\ queue = <<>> /\ s_wifi_connected = (link = "ip")
       /\ link = "down" <=> mode # "sta"
    \/ queue = <<"STA_START">> /\ mode = "sta" /\ link = "down" /\ ~s_wifi_connected
    \/ queue = <<"GOT_IP">> /\ mode = "sta" /\ link = "ip"
    \/ queue = <<"STA_DISCONNECTED">> /\ mode = "sta" /\ link = "down"
    \/ queue = <<"GOT_IP", "STA_DISCONNECTED">> /\ mode = "sta" /\ link = "down"

\* The driver is off until app_wifi_start begins.
OffUntilStart ==
    /\ startPc = "none" <=> mode = "off"
    /\ mode = "off" => queue = <<>> /\ ~s_wifi_connected

\* The retry count of the code is the number of failures in a row, until the station
\* is given up; there is a station only with an SSID.
FailuresCounted ==
    /\ mode # "ap" => failures = s_retry_count
    /\ mode = "ap" => failures = IF ssid THEN MaxRetry + 1 ELSE 0
    /\ mode = "off" => failures = 0
    /\ mode = "sta" => ssid

\* No task calls app_wifi_start before the main task gets to it; the configuration is
\* not read again after that.
StartFollows == mainPc \in {"init", "wifiInit"} => startPc = "none"

WifiShape == WifiTypeOK /\ QueueShape /\ OffUntilStart /\ FailuresCounted
WifiInv == WifiShape /\ StartFollows

-----------------------------------------------------------------------------
(* Short queues                                                             *)

\* What posting an event makes of an empty queue, and of one with one event.
LEMMA Posted ==
    ASSUME NEW x, NEW y
    PROVE  Append(<<>>, x) = <<x>> /\ Append(<<x>>, y) = <<x, y>>
<1>1. Append(<<>>, x) = <<x>>
      OBVIOUS
<1>2. <<x>> \in Seq({x, y}) /\ <<x, y>> \in Seq({x, y})
      OBVIOUS
<1>3. /\ Append(<<x>>, y) \in Seq({x, y}) /\ Len(Append(<<x>>, y)) = 2
      /\ Append(<<x>>, y)[1] = x /\ Append(<<x>>, y)[2] = y
      BY <1>2
<1>4. \A k \in 1 .. 2 : Append(<<x>>, y)[k] = <<x, y>>[k]
      BY <1>3
<1>5. Append(<<x>>, y) = <<x, y>>
      BY <1>2, <1>3, <1>4, SeqEqual
<1> QED BY <1>1, <1>5

\* What is left of a queue of one event and of one of two.
LEMMA Taken ==
    ASSUME NEW x, NEW y
    PROVE  Tail(<<x>>) = <<>> /\ Tail(<<x, y>>) = <<y>>
<1>1. Tail(<<x>>) = <<>>
      OBVIOUS
<1>2. Tail(<<x, y>>) = <<y>>
      OBVIOUS
<1> QED BY <1>1, <1>2

\* The first event of such queues.
LEMMA First ==
    ASSUME NEW x, NEW y
    PROVE  Head(<<x>>) = x /\ Head(<<x, y>>) = x
OBVIOUS

-----------------------------------------------------------------------------
(* The steps of the WiFi subsystem                                          *)

\* app_wifi_start keeps the station in shape.
LEMMA StartKeepsShape == WifiShape /\ WifiStart => WifiShape'
<1> SUFFICES ASSUME WifiShape, WifiStart PROVE WifiShape'
    OBVIOUS
<1>1. CASE StartPortal
  <2>1. WifiTypeOK'
        BY <1>1 DEF WifiShape, WifiTypeOK, StartPortal
  <2> QED BY <1>1, <2>1 DEF StartPortal, WifiShape, QueueShape, OffUntilStart, FailuresCounted
<1>2. CASE StartStation
  <2>1. WifiTypeOK'
        BY <1>2 DEF WifiShape, WifiTypeOK, StartStation
  <2>2. queue' = <<"STA_START">> /\ link = "down" /\ ~s_wifi_connected
        BY <1>2 DEF StartStation, WifiShape, QueueShape, OffUntilStart
  <2> QED BY <1>2, <2>1, <2>2
          DEF StartStation, WifiShape, QueueShape, OffUntilStart, FailuresCounted
<1>3. CASE StartReturns \/ StartTimesOut
  <2>1. WifiTypeOK'
        BY <1>3 DEF WifiShape, WifiTypeOK, StartReturns, StartTimesOut
  <2> QED BY <1>3, <2>1 DEF StartReturns, StartTimesOut, WifiShape, QueueShape, OffUntilStart,
                            FailuresCounted
<1> QED BY <1>1, <1>2, <1>3 DEF WifiStart

\* The driver reports what it does: the station stays in shape.
LEMMA DriverKeepsShape == WifiShape /\ (ObtainAddress \/ Disconnect) => WifiShape'
<1> SUFFICES ASSUME WifiShape, ObtainAddress \/ Disconnect PROVE WifiShape'
    OBVIOUS
<1>1. WifiTypeOK'
  <2>1. queue' \in Seq({"STA_START", "STA_DISCONNECTED", "GOT_IP"})
        BY DEF WifiShape, WifiTypeOK, ObtainAddress, Disconnect
  <2> QED BY <2>1 DEF WifiShape, WifiTypeOK, ObtainAddress, Disconnect
<1>2. OffUntilStart' /\ FailuresCounted'
      BY DEF ObtainAddress, Disconnect, WifiShape, OffUntilStart, FailuresCounted
<1>3. CASE ObtainAddress
  <2>1. queue' = <<"GOT_IP">>
        BY <1>3 DEF ObtainAddress, WifiShape, QueueShape
  <2> QED BY <1>1, <1>2, <1>3, <2>1 DEF ObtainAddress, WifiShape, QueueShape
<1>4. CASE Disconnect
  <2>1. queue \in {<<>>, <<"GOT_IP">>}
        BY <1>4 DEF Disconnect, WifiShape, QueueShape
  <2>2. queue' \in {<<"STA_DISCONNECTED">>, <<"GOT_IP", "STA_DISCONNECTED">>}
        BY <1>4, <2>1, Posted DEF Disconnect
  <2> QED BY <1>1, <1>2, <1>4, <2>2 DEF Disconnect, WifiShape, QueueShape
<1> QED BY <1>3, <1>4

\* The end of a connection is the last event in the queue.
LEMMA OnlyEnd ==
    ASSUME WifiShape, queue # <<>>, Head(queue) = "STA_DISCONNECTED"
    PROVE  link = "down" /\ Tail(queue) = <<>>
<1>1. queue = <<"STA_DISCONNECTED">> /\ link = "down"
      BY First DEF WifiShape, QueueShape
<1> QED BY <1>1, Taken

\* So does the handler: the last event it takes tells the truth, and nothing is queued
\* behind the one that ends the station.
LEMMA HandlerKeepsShape == WifiShape /\ WifiHandler => WifiShape'
<1> SUFFICES ASSUME WifiShape, WifiHandler PROVE WifiShape'
    OBVIOUS
<1> USE MaxRetryAssumption
<1>1. queue' \in Seq({"STA_START", "STA_DISCONNECTED", "GOT_IP"})
  <2>1. queue # <<>> /\ queue' = Tail(queue)
        BY DEF WifiHandler, OnStart, OnDisconnectedRetry, OnDisconnectedPortal, OnGotIp
  <2>2. queue \in Seq({"STA_START", "STA_DISCONNECTED", "GOT_IP"})
        BY DEF WifiShape, WifiTypeOK
  <2> QED BY <2>1, <2>2
<1>2. mode = "sta"
      BY DEF WifiHandler, OnStart, OnDisconnectedRetry, OnDisconnectedPortal, OnGotIp, WifiShape,
             QueueShape
<1>3. CASE OnStart
  <2>1. queue' = <<>> /\ link = "down" /\ ~s_wifi_connected
        BY <1>3 DEF OnStart, WifiShape, QueueShape
  <2> QED BY <1>1, <1>2, <1>3, <2>1
          DEF OnStart, Connect, WifiShape, WifiTypeOK, QueueShape, OffUntilStart, FailuresCounted
<1>4. CASE OnDisconnectedRetry
  <2>1. queue' = <<>> /\ link = "down"
        BY <1>4, OnlyEnd DEF OnDisconnectedRetry
  <2>2. FailuresCounted'
        BY <1>2, <1>4 DEF OnDisconnectedRetry, WifiShape, FailuresCounted
  <2>3. failures = s_retry_count /\ s_retry_count < MaxRetry /\ link' \in {"connecting", "refused"}
        BY <1>2, <1>4, <2>1 DEF OnDisconnectedRetry, Connect, WifiShape, FailuresCounted
  <2>4. s_retry_count' \in 0 .. MaxRetry /\ failures' \in 0 .. MaxRetry + 1
        BY <1>4, <2>3 DEF OnDisconnectedRetry, WifiShape, WifiTypeOK
  <2>5. WifiTypeOK'
        BY <1>1, <1>4, <2>3, <2>4 DEF OnDisconnectedRetry, WifiShape, WifiTypeOK
  <2> QED BY <1>2, <1>4, <2>1, <2>2, <2>5
          DEF OnDisconnectedRetry, Connect, WifiShape, QueueShape, OffUntilStart
<1>5. CASE OnDisconnectedPortal
  <2>1. queue' = <<>>
        BY <1>5, OnlyEnd DEF OnDisconnectedPortal
  <2>2. bits' \subseteq {"CONNECTED", "FAIL"}
        BY <1>5 DEF OnDisconnectedPortal, WifiShape, WifiTypeOK
  <2>3. failures = MaxRetry /\ s_retry_count = MaxRetry /\ ssid
        BY <1>2, <1>5 DEF OnDisconnectedPortal, WifiShape, WifiTypeOK, FailuresCounted
  <2>4. FailuresCounted'
        BY <1>5, <2>3 DEF OnDisconnectedPortal, FailuresCounted
  <2>5. failures' \in 0 .. MaxRetry + 1
        BY <1>5, <2>3 DEF OnDisconnectedPortal
  <2>6. WifiTypeOK'
        BY <1>1, <1>5, <2>2, <2>5 DEF OnDisconnectedPortal, WifiShape, WifiTypeOK
  <2> QED BY <1>2, <1>5, <2>1, <2>4, <2>6
          DEF OnDisconnectedPortal, WifiShape, QueueShape, OffUntilStart
<1>6. CASE OnGotIp
  <2>1. \/ queue = <<"GOT_IP">> /\ link = "ip"
        \/ queue = <<"GOT_IP", "STA_DISCONNECTED">> /\ link = "down"
        BY <1>6 DEF OnGotIp, WifiShape, QueueShape
  <2>3. \/ queue' = <<>> /\ link = "ip"
        \/ queue' = <<"STA_DISCONNECTED">> /\ link = "down"
        BY <1>6, <2>1, Taken DEF OnGotIp
  <2>2. bits' \subseteq {"CONNECTED", "FAIL"}
        BY <1>6 DEF OnGotIp, WifiShape, WifiTypeOK
  <2>4. WifiTypeOK' /\ FailuresCounted'
        BY <1>1, <1>2, <1>6, <2>2 DEF OnGotIp, WifiShape, WifiTypeOK, FailuresCounted
  <2> QED BY <1>2, <1>6, <2>3, <2>4 DEF OnGotIp, WifiShape, QueueShape, OffUntilStart
<1> QED BY <1>3, <1>4, <1>5, <1>6 DEF WifiHandler

-----------------------------------------------------------------------------
(* The gateway                                                              *)

\* The rest of the gateway's variables; those of app_mqtt.c and of the Zigbee task are
\* nobody's business here.
RestTypeOK ==
    /\ saved \in BOOLEAN
    /\ mainPc \in {"init", "wifiInit", "wifiStart", "registerCb", "mqttStart", "platform",
                   "createZb", "started", "done"}
    /\ state \in {"BOOTING", "WIFI_CONNECTING", "MQTT_CONNECTING", "ZB_FORMING", "RUNNING"}
    /\ client \in {"none", "ready", "started"}
    /\ {s_actuator_cb, s_connected, session, net} \subseteq BOOLEAN
    /\ subscribed \in {"no", "yes", "refused"}
    /\ mqttPc \in {"idle", "connected", "subscribe"}
    /\ zbPhase \in {"none", "created", "stack", "forming", "formed", "open", "failed"}

\* The states, as a set.
LEMMA StatesOfSequence ==
    {States[k] : k \in 1 .. Len(States)} =
        {"BOOTING", "WIFI_CONNECTING", "MQTT_CONNECTING", "ZB_FORMING", "RUNNING"}
<1>1. Len(States) = 5
      BY DEF States
<1>2. /\ States[1] = "BOOTING" /\ States[2] = "WIFI_CONNECTING"
      /\ States[3] = "MQTT_CONNECTING" /\ States[4] = "ZB_FORMING" /\ States[5] = "RUNNING"
      BY DEF States
<1>3. 1 .. Len(States) = {1, 2, 3, 4, 5}
      BY <1>1
<1> QED BY <1>2, <1>3

\* Typed are the station and the rest.
LEMMA TypeParts == BTypeOK <=> WifiTypeOK /\ RestTypeOK
BY StatesOfSequence DEF BTypeOK, RestTypeOK

\* The values after a reset are values.
LEMMA OffIsTyped ==
    /\ 0 \in 0 .. MaxRetry /\ 0 \in 0 .. MaxRetry + 1
    /\ <<>> \in Seq({"STA_START", "STA_DISCONNECTED", "GOT_IP"})
BY MaxRetryAssumption

\* A gateway that was just reset.
LEMMA InitWifi == BInit => WifiInv /\ RestTypeOK
<1> SUFFICES ASSUME BInit PROVE WifiInv /\ RestTypeOK
    OBVIOUS
<1> USE DEF BInit, PoweredOn, WifiOff
<1>1. WifiTypeOK
      BY OffIsTyped DEF WifiTypeOK
<1>2. QueueShape /\ OffUntilStart /\ FailuresCounted /\ StartFollows
      BY DEF QueueShape, OffUntilStart, FailuresCounted, StartFollows
<1>3. RestTypeOK
      BY DEF RestTypeOK
<1> QED BY <1>1, <1>2, <1>3 DEF WifiInv, WifiShape

\* Every step of every task keeps the rest typed.
LEMMA StepRest == RestTypeOK /\ [BNext]_bootVars => RestTypeOK'
<1> SUFFICES ASSUME RestTypeOK, [BNext]_bootVars PROVE RestTypeOK'
    OBVIOUS
<1> USE DEF RestTypeOK, MainStep, Goes, mqttVars, zbVars
<1>1. CASE InitRuntime \/ BeginWifi \/ CallWifiStart
      BY <1>1 DEF InitRuntime, BeginWifi, CallWifiStart, InitFlash
<1>2. CASE MqttInit \/ RegisterCb \/ MqttStart
      BY <1>2 DEF MqttInit, RegisterCb, MqttStart
<1>3. CASE SetForming \/ CreateZbTask \/ CreateHeartbeat
      BY <1>3 DEF SetForming, CreateZbTask, CreateHeartbeat
<1>4. CASE WifiWorld
      BY <1>4 DEF WifiWorld
<1>5. CASE MqttWorld
      BY <1>5 DEF MqttWorld, MqttTask, MqttHandler, SessionUp, SessionDown, OnConnected,
                  OnConnectedSubscribe, OnMqttDisconnected
<1>6. CASE ZbWorld
      BY <1>6 DEF ZbWorld, ZbTask, ZbStart, OnSkipStartup, OnFormed, OnFormedRunning,
                  OnFormationFailed
<1>7. CASE Reboot
      BY <1>7 DEF Reboot
<1>8. CASE UNCHANGED bootVars
      BY <1>8 DEF bootVars
<1> QED BY <1>1, <1>2, <1>3, <1>4, <1>5, <1>6, <1>7, <1>8 DEF BNext, MainTask

\* A step that is not the station's leaves it as it is.
LEMMA ShapeUnchanged == WifiShape /\ UNCHANGED wifiVars => WifiShape'
BY DEF wifiVars, WifiShape, WifiTypeOK, QueueShape, OffUntilStart, FailuresCounted

\* Every step of every task keeps the station in shape.
LEMMA StepWifi == WifiInv /\ RestTypeOK /\ [BNext]_bootVars => WifiInv'
<1> SUFFICES ASSUME WifiInv, RestTypeOK, [BNext]_bootVars PROVE WifiInv'
    OBVIOUS
<1>1. CASE InitRuntime
  <2>1. startPc = "none" /\ mode = "off"
        BY <1>1 DEF InitRuntime, Goes, WifiInv, WifiShape, StartFollows, OffUntilStart
  <2>2. ssid' \in BOOLEAN
    <3>1. saved' \in {saved, FALSE} /\ ssid' \in {saved', FALSE}
          BY <1>1 DEF InitRuntime, InitFlash, LoadConfig
    <3> QED BY <3>1 DEF RestTypeOK
  <2>3. WifiTypeOK'
        BY <1>1, <2>2 DEF InitRuntime, WifiInv, WifiShape, WifiTypeOK
  <2> QED BY <1>1, <2>1, <2>3
          DEF InitRuntime, Goes, WifiInv, WifiShape, QueueShape, OffUntilStart, FailuresCounted,
              StartFollows
<1>2. CASE CallWifiStart
      BY <1>2, StartKeepsShape DEF CallWifiStart, WifiInv, StartFollows
<1>3. CASE WifiWorld
  <2>1. WifiShape'
        BY <1>3, DriverKeepsShape, HandlerKeepsShape DEF WifiWorld, WifiInv
  <2>2. startPc' = startPc
        BY <1>3 DEF WifiWorld, ObtainAddress, Disconnect, WifiHandler, OnStart,
                    OnDisconnectedRetry, OnDisconnectedPortal, OnGotIp
  <2> QED BY <1>3, <2>1, <2>2 DEF WifiWorld, WifiInv, StartFollows
<1>4. CASE BeginWifi \/ MqttInit \/ RegisterCb \/ MqttStart \/ SetForming \/ CreateZbTask
            \/ CreateHeartbeat
  <2>1. UNCHANGED wifiVars /\ mainPc' \notin {"init", "wifiInit"}
        BY <1>4 DEF BeginWifi, MqttInit, RegisterCb, MqttStart, SetForming, CreateZbTask,
                    CreateHeartbeat, MainStep, Goes
  <2> QED BY <2>1, ShapeUnchanged DEF WifiInv, StartFollows
<1>5. CASE MqttWorld \/ ZbWorld \/ UNCHANGED bootVars
  <2>1. UNCHANGED wifiVars /\ mainPc' = mainPc
        BY <1>5 DEF MqttWorld, ZbWorld, bootVars
  <2>2. startPc' = startPc
        BY <2>1 DEF wifiVars
  <2> QED BY <2>1, <2>2, ShapeUnchanged DEF WifiInv, StartFollows
<1>6. CASE Reboot
  <2>1. WifiTypeOK'
        BY <1>6, OffIsTyped DEF Reboot, WifiTypeOK
  <2> QED BY <1>6, <2>1 DEF Reboot, WifiInv, WifiShape, QueueShape, OffUntilStart,
                            FailuresCounted, StartFollows
<1> QED BY <1>1, <1>2, <1>3, <1>4, <1>5, <1>6 DEF BNext, MainTask

\* Every variable of the gateway keeps its type, the counts their bounds: BTypeOK holds
\* in every state.
THEOREM GatewayTypeCorrect == BSpec => []BTypeOK
<1>1. WifiInv /\ RestTypeOK => BTypeOK
      BY TypeParts DEF WifiInv, WifiShape
<1> QED BY <1>1, InitWifi, StepWifi, StepRest, PTL DEF BSpec

\* app_wifi_is_connected is right once the events posted are handled:
\* ConnectedSettles holds in every state.
THEOREM FlagSettled == BSpec => []ConnectedSettles
<1>1. WifiInv => ConnectedSettles
      BY DEF WifiInv, WifiShape, QueueShape, ConnectedSettles
<1> QED BY <1>1, InitWifi, StepWifi, StepRest, PTL DEF BSpec

\* With an SSID, the portal takes over only after MaxRetry attempts in a row and the one
\* before them have failed: PortalAfterRetries holds in every state.
THEOREM RetriedBeforePortal == BSpec => []PortalAfterRetries
<1>1. WifiInv => PortalAfterRetries
      BY DEF WifiInv, WifiShape, FailuresCounted, PortalAfterRetries
<1> QED BY <1>1, InitWifi, StepWifi, StepRest, PTL DEF BSpec
==============================================================================
