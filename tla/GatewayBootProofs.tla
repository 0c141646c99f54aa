-------------------------- MODULE GatewayBootProofs --------------------------
(***************************************************************************)
(* Proofs about GatewayBoot: what the tasks that start next to one another *)
(* may rely on, for every number of retries and every outcome of WiFi,     *)
(* broker and formation.                                                   *)
(***************************************************************************)
EXTENDS GatewayBoot, TLAPS

\* The state the main task has written when it is at mainPc; once it has created the
\* Zigbee task it writes no more, and RUNNING is that task's.
StateFollows ==
    /\ mainPc \in {"init", "wifiInit"} => state = "BOOTING"
    /\ mainPc \in {"wifiStart", "registerCb"} => state = "WIFI_CONNECTING"
    /\ mainPc \in {"mqttStart", "platform"} => state = "MQTT_CONNECTING"
    /\ mainPc \in {"createZb", "started", "done"} => state \in {"ZB_FORMING", "RUNNING"}
    /\ mainPc \in {"init", "wifiInit", "wifiStart", "registerCb", "mqttStart", "platform",
                   "createZb", "started", "done"}
    /\ zbPhase = "none" \/ mainPc \in {"started", "done"}

\* How far the Zigbee task is, and what it has written.
PhaseFollows ==
    /\ zbPhase = "open" <=> state = "RUNNING"
    /\ zbPhase \in {"formed", "open"} => net

BootInv == StateFollows /\ PhaseFollows

\* The client is started, and has a connection, only after the callback is registered.
ClientFollows ==
    /\ mainPc \in {"init", "wifiInit", "wifiStart", "registerCb"} => client # "started"
    /\ mainPc \in {"mqttStart", "platform", "createZb", "started", "done"} => s_actuator_cb
    /\ client = "started" => s_actuator_cb
    /\ session => client = "started"
    /\ subscribed = "yes" => session
    /\ mainPc \in {"init", "wifiInit", "wifiStart", "registerCb", "mqttStart", "platform",
                   "createZb", "started", "done"}

-----------------------------------------------------------------------------
(* The state of the gateway                                                 *)

\* A gateway that was just reset boots.
LEMMA InitBoot == BInit => BootInv
BY DEF BInit, PoweredOn, BootInv, StateFollows, PhaseFollows

\* The rank of a state is its place in the sequence of states.
LEMMA RankValues ==
    /\ Rank("BOOTING") = 1 /\ Rank("WIFI_CONNECTING") = 2 /\ Rank("MQTT_CONNECTING") = 3
    /\ Rank("ZB_FORMING") = 4 /\ Rank("RUNNING") = 5
<1>1. Len(States) = 5
      BY DEF States
<1>2. \A k \in 1 .. 5, j \in 1 .. 5 : States[k] = States[j] => k = j
      BY DEF States
<1>3. \A k \in 1 .. 5 : Rank(States[k]) = k
      BY <1>1, <1>2 DEF Rank
<1> QED BY <1>3 DEF States

\* No step of a task takes the state back, and every step keeps it in line with the tasks.
LEMMA StepBoot ==
    BootInv /\ [BNext]_bootVars =>
        BootInv' /\ (mainPc' # "init" => Rank(state) <= Rank(state'))
<1> SUFFICES ASSUME BootInv, [BNext]_bootVars
             PROVE  BootInv' /\ (mainPc' # "init" => Rank(state) <= Rank(state'))
    OBVIOUS
<1> USE RankValues DEF BootInv, StateFollows, PhaseFollows, MainStep, Goes
<1>1. CASE InitRuntime
      BY <1>1 DEF InitRuntime, zbVars
<1>2. CASE BeginWifi
      BY <1>2 DEF BeginWifi, zbVars
<1>3. CASE CallWifiStart
      BY <1>3 DEF CallWifiStart, zbVars
<1>4. CASE MqttInit
      BY <1>4 DEF MqttInit, zbVars
<1>5. CASE RegisterCb
      BY <1>5 DEF RegisterCb, zbVars
<1>6. CASE MqttStart
      BY <1>6 DEF MqttStart, zbVars
<1>7. CASE SetForming
      BY <1>7 DEF SetForming, zbVars
<1>8. CASE CreateZbTask
      BY <1>8 DEF CreateZbTask
<1>9. CASE CreateHeartbeat
      BY <1>9 DEF CreateHeartbeat, zbVars
<1>10. CASE WifiWorld \/ MqttWorld
      BY <1>10 DEF WifiWorld, MqttWorld, zbVars
<1>11. CASE ZbWorld
      BY <1>11 DEF ZbWorld, ZbTask, ZbStart, OnSkipStartup, OnFormed, OnFormedRunning,
                   OnFormationFailed
<1>12. CASE Reboot
      BY <1>12 DEF Reboot
<1>13. CASE UNCHANGED bootVars
      BY <1>13 DEF bootVars, zbVars
<1> QED BY <1>1, <1>2, <1>3, <1>4, <1>5, <1>6, <1>7, <1>8, <1>9, <1>10, <1>11, <1>12, <1>13
        DEF BNext, MainTask

\* A task that reads RUNNING finds the network formed and described, and an open
\* network keeps the state at RUNNING: RunningMeansFormed holds in every state.
THEOREM RunningIsFormed == BSpec => []RunningMeansFormed
<1>1. BootInv => RunningMeansFormed
      BY DEF BootInv, PhaseFollows, RunningMeansFormed
<1> QED BY <1>1, InitBoot, StepBoot, PTL DEF BSpec

\* The state of the gateway, which two tasks write, only moves forward until the next
\* reset: StateForward holds of every step.
THEOREM StateOnlyForward == BSpec => StateForward
<1>1. BootInv /\ [BNext]_bootVars => [mainPc' # "init" => Rank(state) <= Rank(state')]_bootVars
      BY StepBoot
<1> QED BY <1>1, InitBoot, StepBoot, PTL DEF BSpec, StateForward

-----------------------------------------------------------------------------
(* Commands                                                                 *)

\* After a reset there is no client.
LEMMA InitClient == BInit => ClientFollows
BY DEF BInit, PoweredOn, ClientFollows

\* Every step keeps the client behind the callback.
LEMMA StepClient == ClientFollows /\ [BNext]_bootVars => ClientFollows'
<1> SUFFICES ASSUME ClientFollows, [BNext]_bootVars PROVE ClientFollows'
    OBVIOUS
<1> USE DEF ClientFollows, MainStep, Goes, mqttVars
<1>1. CASE InitRuntime \/ BeginWifi \/ CallWifiStart
      BY <1>1 DEF InitRuntime, BeginWifi, CallWifiStart
<1>2. CASE MqttInit
      BY <1>2 DEF MqttInit
<1>3. CASE RegisterCb
      BY <1>3 DEF RegisterCb
<1>4. CASE MqttStart
      BY <1>4 DEF MqttStart
<1>5. CASE SetForming \/ CreateZbTask \/ CreateHeartbeat
      BY <1>5 DEF SetForming, CreateZbTask, CreateHeartbeat
<1>6. CASE WifiWorld \/ ZbWorld
      BY <1>6 DEF WifiWorld, ZbWorld
<1>7. CASE MqttWorld
      BY <1>7 DEF MqttWorld, MqttTask, MqttHandler, SessionUp, SessionDown, OnConnected,
                  OnConnectedSubscribe, OnMqttDisconnected
<1>8. CASE Reboot
      BY <1>8 DEF Reboot
<1>9. CASE UNCHANGED bootVars
      BY <1>9 DEF bootVars
<1> QED BY <1>1, <1>2, <1>3, <1>4, <1>5, <1>6, <1>7, <1>8, <1>9 DEF BNext, MainTask

\* The command topic is subscribed to only when there is a callback to hand commands
\* to: NoCommandDropped holds in every state.
THEOREM CallbackInPlace == BSpec => []NoCommandDropped
<1>1. ClientFollows => NoCommandDropped
      BY DEF ClientFollows, NoCommandDropped
<1> QED BY <1>1, InitClient, StepClient, PTL DEF BSpec
==============================================================================
