----------------------------- MODULE GatewayBoot -----------------------------
(***************************************************************************)
(* The gateway from reset to its running state: app_main and               *)
(* app_gateway_start in the main task (main.c, app_gateway.c), the WiFi    *)
(* subsystem (WifiStation), the MQTT client's task with its event handler  *)
(* (app_mqtt.c), and the Zigbee task with its signal handler.              *)
(*                                                                         *)
(* The MQTT client and the Zigbee stack are external and modelled from how *)
(* the code uses them.  The client, once started, connects to the broker   *)
(* whenever it can and reports each change of the connection from its own  *)
(* task; a subscription lasts as long as the connection (a clean session,  *)
(* the client's default).  The tasks app_main creates find memory.         *)
(***************************************************************************)
EXTENDS WifiStation

VARIABLES
    saved,          \* an SSID is in flash; ssid is g_wifi_ssid, in RAM
    mainPc,         \* where the main task is
    state,          \* s_rt.state
    client,         \* the MQTT client: "none", "ready", "started"
    s_actuator_cb,  \* the command callback is registered
    s_connected,    \* app_mqtt.c's flag
    session,        \* the client has a connection to the broker
    subscribed,     \* the command subscription of this connection: "no", not asked
                    \* for; "yes", the broker holds it; "refused", asked for in vain
    mqttPc,         \* where mqtt_event_handler is
    zbPhase,        \* the Zigbee task and its stack
    net             \* s_rt.net is filled in

mqttVars == <<client, s_actuator_cb, s_connected, session, subscribed, mqttPc>>
zbVars == <<zbPhase, net>>
bootVars == <<wifiVars, saved, mainPc, state, mqttVars, zbVars>>

\* RAM after a reset.
PoweredOn ==
    /\ WifiOff /\ ssid = FALSE
    /\ mainPc = "init" /\ state = "BOOTING"
    /\ client = "none" /\ s_actuator_cb = FALSE /\ s_connected = FALSE
    /\ session = FALSE /\ subscribed = "no" /\ mqttPc = "idle"
    /\ zbPhase = "none" /\ net = FALSE

BInit == saved \in BOOLEAN /\ PoweredOn

-----------------------------------------------------------------------------
(* The main task                                                            *)

Goes(from, to) == mainPc = from /\ mainPc' = to
MainStep(from, to) == Goes(from, to) /\ UNCHANGED saved

\* nvs_flash_init: a partition that cannot be opened is erased, with the credentials
\* in it.  Nothing in the tree writes them again: app_gateway_save_config_nvs is never
\* called.
InitFlash == saved' \in {saved, FALSE}

\* load_config_nvs: a key that cannot be read leaves its default, which is no SSID.
LoadConfig == ssid' \in {saved', FALSE}

\* app_gateway_init.
InitRuntime ==
    /\ Goes("init", "wifiInit")
    /\ state' = "BOOTING"
    /\ InitFlash /\ LoadConfig
    /\ UNCHANGED <<startPc, mode, link, queue, s_retry_count, s_wifi_connected, bits, failures,
                   mqttVars, zbVars>>

BeginWifi ==
    /\ MainStep("wifiInit", "wifiStart")
    /\ state' = "WIFI_CONNECTING"
    /\ UNCHANGED <<wifiVars, mqttVars, zbVars>>

\* Inside app_wifi_start.
CallWifiStart ==
    /\ mainPc = "wifiStart"
    /\ WifiStart
    /\ UNCHANGED <<saved, mainPc, state, mqttVars, zbVars>>

\* app_wifi_start is back; its result is not looked at.  app_mqtt_init may fail
\* to create a client; that is not looked at either.
MqttInit ==
    /\ startPc \in {"ok", "fail"}
    /\ MainStep("wifiStart", "registerCb")
    /\ client' \in {"none", "ready"}
    /\ UNCHANGED <<wifiVars, state, s_actuator_cb, s_connected, session, subscribed, mqttPc,
                   zbVars>>

\* Faulty variant: the callback is not registered before the client starts.
RegisterNothing ==
    /\ MainStep("registerCb", "mqttStart")
    /\ state' = "MQTT_CONNECTING"
    /\ UNCHANGED <<wifiVars, mqttVars, zbVars>>

RegisterCb ==
    /\ MainStep("registerCb", "mqttStart")
    /\ s_actuator_cb' = TRUE
    /\ state' = "MQTT_CONNECTING"
    /\ UNCHANGED <<wifiVars, client, s_connected, session, subscribed, mqttPc, zbVars>>

MqttStart ==
    /\ MainStep("mqttStart", "platform")
    /\ client' = IF client = "ready" THEN "started" ELSE client
    /\ UNCHANGED <<wifiVars, state, s_actuator_cb, s_connected, session, subscribed, mqttPc,
                   zbVars>>

SetForming ==
    /\ MainStep("platform", "createZb")
    /\ state' = "ZB_FORMING"
    /\ UNCHANGED <<wifiVars, mqttVars, zbVars>>

\* xTaskCreate(esp_zb_task), then app_gateway_start returns ESP_OK.
CreateZbTask ==
    /\ MainStep("createZb", "started")
    /\ zbPhase' = "created"
    /\ UNCHANGED <<wifiVars, state, mqttVars, net>>

CreateHeartbeat ==
    /\ MainStep("started", "done")
    /\ UNCHANGED <<wifiVars, state, mqttVars, zbVars>>

\* Faulty variant: the task is created before the state is written.
MainTaskSwapped ==
    \/ InitRuntime \/ BeginWifi \/ CallWifiStart \/ MqttInit \/ RegisterCb \/ MqttStart
    \/ /\ MainStep("platform", "createZb")
       /\ zbPhase' = "created"
       /\ UNCHANGED <<wifiVars, state, mqttVars, net>>
    \/ /\ MainStep("createZb", "started")
       /\ state' = "ZB_FORMING"
       /\ UNCHANGED <<wifiVars, mqttVars, zbVars>>
    \/ CreateHeartbeat

MainTask ==
    \/ InitRuntime \/ BeginWifi \/ CallWifiStart \/ MqttInit \/ RegisterCb \/ MqttStart
    \/ SetForming \/ CreateZbTask \/ CreateHeartbeat

-----------------------------------------------------------------------------
(* The MQTT client's task                                                   *)

SessionUp ==
    /\ client = "started" /\ link = "ip" /\ mqttPc = "idle" /\ ~session /\ ~s_connected
    /\ session' = TRUE /\ mqttPc' = "connected"
    /\ UNCHANGED <<client, s_actuator_cb, s_connected, subscribed>>

\* The broker or the network ends the connection.
SessionDown ==
    /\ session
    /\ session' = FALSE /\ subscribed' = "no"
    /\ UNCHANGED <<client, s_actuator_cb, s_connected, mqttPc>>

\* MQTT_EVENT_CONNECTED: the flag first, then the subscription.
OnConnected ==
    /\ mqttPc = "connected"
    /\ s_connected' = TRUE /\ mqttPc' = "subscribe"
    /\ UNCHANGED <<client, s_actuator_cb, session, subscribed>>

\* Faulty variant: nothing is subscribed to.
OnConnectedOnly ==
    /\ mqttPc = "subscribe" /\ mqttPc' = "idle"
    /\ UNCHANGED <<client, s_actuator_cb, s_connected, session, subscribed>>

\* The client may not take the call, and the broker may refuse the filter; the result is
\* not looked at, and nothing asks again while the connection lasts.  Once the connection
\* is over the call does nothing.
OnConnectedSubscribe ==
    /\ mqttPc = "subscribe"
    /\ subscribed' \in IF session THEN {"yes", "refused"} ELSE {subscribed}
    /\ mqttPc' = "idle"
    /\ UNCHANGED <<client, s_actuator_cb, s_connected, session>>

\* Faulty variant: the end of a connection is logged only.
OnMqttDisconnectedLogs ==
    /\ mqttPc = "idle" /\ s_connected /\ ~session
    /\ UNCHANGED <<client, s_actuator_cb, s_connected, session, subscribed, mqttPc>>

\* MQTT_EVENT_DISCONNECTED.
OnMqttDisconnected ==
    /\ mqttPc = "idle" /\ s_connected /\ ~session
    /\ s_connected' = FALSE
    /\ UNCHANGED <<client, s_actuator_cb, session, subscribed, mqttPc>>

MqttHandler == OnConnected \/ OnConnectedSubscribe \/ OnMqttDisconnected
MqttTask == MqttHandler \/ SessionUp \/ SessionDown

-----------------------------------------------------------------------------
(* The Zigbee task                                                          *)

\* esp_zb_init, esp_zb_device_register, esp_zb_start(false).
ZbStart ==
    /\ zbPhase = "created" /\ zbPhase' = "stack"
    /\ UNCHANGED <<state, net>>

\* ESP_ZB_ZDO_SIGNAL_SKIP_STARTUP.
OnSkipStartup ==
    /\ zbPhase = "stack" /\ zbPhase' = "forming"
    /\ UNCHANGED <<state, net>>

\* ESP_ZB_BDB_SIGNAL_FORMATION, ESP_OK: the description of the network first.
OnFormed ==
    /\ zbPhase = "forming" /\ zbPhase' = "formed"
    /\ net' = TRUE
    /\ UNCHANGED state

\* The network is opened for joining, and the gateway runs.
OnFormedRunning ==
    /\ zbPhase = "formed" /\ zbPhase' = "open"
    /\ state' = "RUNNING"
    /\ UNCHANGED net

\* Faulty variant: the status of the formation is not looked at.
OnFormationUnchecked ==
    /\ zbPhase = "forming" /\ zbPhase' = "failed"
    /\ state' = "RUNNING"
    /\ UNCHANGED net

\* ESP_ZB_BDB_SIGNAL_FORMATION, anything else: a line is logged.
OnFormationFailed ==
    /\ zbPhase = "forming" /\ zbPhase' = "failed"
    /\ UNCHANGED <<state, net>>

\* Announcements and departures of devices are logged: no action here.
ZbTask == ZbStart \/ OnSkipStartup \/ OnFormed \/ OnFormedRunning \/ OnFormationFailed

-----------------------------------------------------------------------------

WifiWorld == (ObtainAddress \/ Disconnect \/ WifiHandler) /\ UNCHANGED <<saved, mainPc, state, mqttVars, zbVars>>
MqttWorld == MqttTask /\ UNCHANGED <<wifiVars, saved, mainPc, state, zbVars>>
ZbWorld == ZbTask /\ UNCHANGED <<wifiVars, saved, mainPc, mqttVars>>

\* A reset at any moment; what ESP_ERROR_CHECK does when it fails is one.
Reboot ==
    /\ startPc' = "none" /\ mode' = "off" /\ link' = "down" /\ queue' = <<>>
    /\ s_retry_count' = 0 /\ s_wifi_connected' = FALSE /\ bits' = {} /\ failures' = 0
    /\ mainPc' = "init" /\ state' = "BOOTING"
    /\ client' = "none" /\ s_actuator_cb' = FALSE /\ s_connected' = FALSE
    /\ session' = FALSE /\ subscribed' = "no" /\ mqttPc' = "idle"
    /\ zbPhase' = "none" /\ net' = FALSE
    /\ ssid' = FALSE
    /\ UNCHANGED saved

BNext == MainTask \/ WifiWorld \/ MqttWorld \/ ZbWorld \/ Reboot

\* Tasks that are ready run, the stack reports the outcome of what it started,
\* and a connection to the broker does not outlive the WiFi.
BFairness ==
    /\ WF_bootVars(MainTask)
    /\ WF_bootVars(WifiHandler /\ UNCHANGED <<saved, mainPc, state, mqttVars, zbVars>>)
    /\ WF_bootVars(MqttHandler /\ UNCHANGED <<wifiVars, saved, mainPc, state, zbVars>>)
    /\ WF_bootVars(link # "ip" /\ SessionDown /\ UNCHANGED <<wifiVars, saved, mainPc, state, zbVars>>)
    /\ WF_bootVars(ZbTask /\ UNCHANGED <<wifiVars, saved, mainPc, mqttVars>>)

BSpec == BInit /\ [][BNext]_bootVars /\ BFairness

-----------------------------------------------------------------------------
(* Properties                                                                *)

States == <<"BOOTING", "WIFI_CONNECTING", "MQTT_CONNECTING", "ZB_FORMING", "RUNNING">>
Rank(s) == CHOOSE k \in 1 .. Len(States) : States[k] = s

BTypeOK ==
    /\ WifiTypeOK /\ saved \in BOOLEAN
    /\ mainPc \in {"init", "wifiInit", "wifiStart", "registerCb", "mqttStart", "platform",
                   "createZb", "started", "done"}
    /\ state \in {States[k] : k \in 1 .. Len(States)}
    /\ client \in {"none", "ready", "started"}
    /\ {s_actuator_cb, s_connected, session, net} \subseteq BOOLEAN
    /\ subscribed \in {"no", "yes", "refused"}
    /\ mqttPc \in {"idle", "connected", "subscribe"}
    /\ zbPhase \in {"none", "created", "stack", "forming", "formed", "open", "failed"}

\* The state of the gateway only moves forward until the next reset, although
\* the main task and the Zigbee task both write it: the Zigbee task's RUNNING is
\* never overwritten.
StateForward ==
    [][mainPc' # "init" => Rank(state) <= Rank(state')]_bootVars

\* A task that reads the state RUNNING finds the network formed and described
\* in s_rt.net; and once the network is open the state stays RUNNING, although
\* the main task writes it, too.
RunningMeansFormed ==
    /\ state = "RUNNING" => net
    /\ zbPhase = "open" => state = "RUNNING"

\* A command cannot arrive before there is a callback to hand it to.
NoCommandDropped == subscribed = "yes" => s_actuator_cb

\* The gateway gets to the end of its boot sequence, or is reset, whatever
\* becomes of the WiFi, of the broker and of the formation of the network.
BootCompletes == mainPc # "init" ~> mainPc \in {"done", "init"}

\* On every connection to the broker, also on the second, the subscription to the command
\* topic is asked for, or that connection is over.  Whether it is granted is not claimed:
\* one that is refused is not asked for again, and the gateway then gets no commands for
\* as long as the connection lasts.
SubscriptionAsked == s_connected ~> (subscribed # "no" \/ ~s_connected \/ ~session)

\* app_mqtt.c's flag follows the end of the connection.
MqttFlagSettles == ~session ~> (session \/ ~s_connected)

==============================================================================
