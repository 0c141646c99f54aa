# Verification of ESP-AgriNet

TLA+ models of the ESP-AgriNet firmware: the gateway (ESP32-S3 with an ESP32-H2
radio), the actuator node and the sensor node. They are written from the C
sources under `src/`; TLC checks them on small instances and TLAPS proves the
central results for every value of the constants. `PROJECT.json` lists the
components, runs, mutants, theorems, hazards and findings, and says for every
definition which lines of the source it models.

## 1. The system

| component | state | operations | interacts with |
|---|---|---|---|
| node table (`app_gateway.c`) | `s_rt.nodes`, `s_rt.nodes_count` | `app_gateway_register_node`, `app_gateway_mark_node_offline` (Zigbee task) | heartbeat and command routing read it, without a lock |
| heartbeat (`main.c`, `app_gateway.c`) | loop index, `now_ms`, `last_state_pub` | one pass over the table every second; the gateway state every minute | marks entries offline, publishes through the MQTT client |
| command routing (`app_gateway.c`) | index, then pointer into the table | `app_gateway_send_actuator_cmd` (MQTT task) | table, radio, MQTT client |
| command parsing (`agrinet_mqtt_schema.c`) | none | `agrinet_mqtt_parse_actuator_cmd` | called for every command |
| topic, alert message (`app_mqtt.c`, `agrinet_mqtt_schema.c`) | none | `strtok` in `mqtt_event_handler`, `agrinet_mqtt_build_alert_json` | called for every command; by publishers |
| actuator node | `s_act_state`, `s_state`, outputs, ZCL attributes | `actuator_zcl_cb`, `app_actuators_apply`, `app_actuators_init` | receives frames |
| WiFi station (`app_wifi.c`) | retry count, flag, event bits | `app_wifi_start`, `wifi_event_handler` | driver's events, main task |
| MQTT client (`app_mqtt.c`) | `s_client`, `s_connected`, callback | init, start, event handler, publish | broker, main task |
| boot (`main.c`, `app_gateway.c`) | `s_rt.state`, `s_rt.net` | `app_main`, `app_gateway_init`, `app_gateway_start`, Zigbee signal handler | starts all the others |
| sensor node | calibration, readings, attributes | `app_sensors_init`, `sensor_task`, `app_sensors_read`, Zigbee signal handler | sensors, Zigbee stack |
| drivers' arithmetic (`app_sensors.c`) | none | compensation, checksum, conversions | called by `app_sensors_read` |
| configuration in NVS | site, broker, credentials | load, save (save has no caller) | boot |
| other JSON builders, custom clusters, scripts | - | - | not modelled, see section 7 |

What is hard here: three tasks of a dual-core host work on one table with no lock;
the 32-bit millisecond clock wraps; events are handled after the fact; frames
are lost and nobody looks at the outcome of a request; state is kept several
times over; every board can reset at any moment. `PROJECT.json`, "hazards", has
each of these at its line.

The names of the variables and actions are the names of the source where there is
one. Definitions called a *faulty variant* in a comment are not part of any
specification: each is the definition that follows it with a plausible mistake, and
replacing the one by the other must break a property. That shows that the
property depends on the code being as it is.

## 2. Modules

**`NodeTable`** is the core. The Zigbee task's registration is a step per group of
stores: `RegKnown` / `RegNew` (search and `nodes_count++`), `RegAddr`, `RegSeen`,
`RegOnline`, `RegIdHead`, `RegIdTail` (the string is overwritten from the left,
so a reader may see it half-way). The heartbeat is `HbSample` (the clock, once per
pass), then for every entry `HbPass` or `HbExpired` and `HbMark` (the test and the
store are two steps), then `HbPublish` or `HbSkipPublish`. Reads of what only the
Zigbee task itself writes are grouped with its step; everything else interleaves.
The array of structures is one variable per field. `clock` counts modulo `ClockMod`
(2^32 in the code) and `Elapsed` is subtraction on `uint32_t`. The ages are history
variables: true elapsed times the properties are stated with.

`app_gateway_register_node` and `app_gateway_mark_node_offline` have no caller in
the tree (section 3). The modules use them under the contract their header
states: called from the Zigbee callback, thus from the Zigbee task, when a device
joins, is discovered, or is lost. A reset of the gateway empties the
table, which is the initial state, so it is no action of these modules.

**`NodeCommands`** extends it with the MQTT task, which scans the table by `node_id` (a
step for either half that `strcmp` reads, `CmdScan` and `CmdScanTail`, so that a writer may
overtake the reader and the reader the writer), keeps the index as its pointer and reads the address for each of the two
radio requests (`CmdOnOff`, `CmdMoveToLevel`); and with the radio network, external,
which gives devices addresses, other ones when they rejoin, and the same address to
another device later.

**`CommandTopic`** and **`ActuatorCommand`** hold pure operators: which node the gateway
takes a topic to name (empty levels are no tokens, the seventh token may be read
unassigned), what the parser makes of a payload and which frames the gateway makes of
that. **`Subsequence`**, the elements of a sequence at given positions, is what `strtok`
keeps of the levels and what the panel sees of the frames: `SelectSeq` of the standard
modules, without its recursion, which the provers cannot expand. **`Actuation`** is the way of a message to the outputs of one node, with
malformed topics, other nodes' messages, parts of messages, lost frames, writes to
other clusters and resets of the node; an output is the duty it is driven at.
`wanted`, a history variable, is what the last messages asked of each actuator, and is
computed from the levels of the topic and the fields of the payload, not from the gateway's
reading of either: the switch's value after a complete message with that actuator's
field alone, unquoted; "any", which is no claim, after every other message with a
field of it that may have been for this node (several actuators, a level alone, a quoted string, an
incomplete topic, a later part), after a lost frame and after a write to Identify. Most
of those the code does not obey as the documents say; the run `included_sent` and the
differences in section 3 are about them. **`SwitchPanel`** is the abstract specification:
orders to switch one actuator, carried out in order, one at a time, or lost; only an
actuator in `Disturbed` may be switched off by something else (a write to its
Identify cluster: section 3). `Actuation` implements it (`ImplementsPanel`), the on/off
frames in flight being the orders.

**`WifiStation`** is `app_wifi.c`: the main task in `app_wifi_start`, the event
handler, and the driver, which posts events into a queue the handler works off later and
may refuse a call of `esp_wifi_connect`.
**`GatewayBoot`** extends it to the whole start of the gateway: main task, WiFi, MQTT
client, Zigbee task with its signal handler, and a reset at any moment. `saved` is the
SSID in flash, `ssid` the global `load_config_nvs` reads it into. A subscription may be
refused, by the client or by the broker.

**`SensorNode`** is `app_main` and the measurement task next to the Zigbee task of the
sensor node. A value is "fresh" (of this cycle), "stale" (of the last), "older", "zero" (a cleared
structure, or what the arithmetic makes of missing coefficients), "default" (a register's reset
value, of a sensor that never measured) or "garbage" (an uninitialised variable,
a division by zero); every sensor may fail in every cycle. `cal` is how much of the BME280's
calibration could be read at boot, `measuring` what it was told to measure, as either
register write may be lost; `torn` remembers that the endpoint was registered between the
two attribute writes of a cycle.

**`SensorDrivers`** has the arithmetic of the drivers as pure operators: calibration words,
temperature and humidity of the BME280 with shifts and casts as in the code, the division
by a float of the BH1750, checksum and scaling of the SCD41, soil and battery.
**`AlertMessage`** is the alert message as far as its lengths go. **`Bench`** feeds both: a
raw value rises through its range (`Rise`), bits of a frame flip (`Flip`), alerts are
raised (`Raise`); the properties compare what comes of neighbouring inputs. The bench is
not part of the firmware and takes nothing over from it but the operators. The loops of the
checksum (eight shifts a byte) and of the macro that appends a name (eight uses) are
written out, as the code's macro is, so that the provers can expand them.

**`NodeTableProofs`**, **`NodeCommandsProofs`**, **`SensorNodeProofs`**, **`GatewayBootProofs`**,
**`WifiStationProofs`**, **`ActuationProofs`**, **`SubsequenceProofs`** and **`BenchProofs`** hold the theorems about
the modules they are named after; `WifiStationProofs` proves its theorems of the
whole gateway (`BSpec`), as the main task calls `app_wifi_start`, a reset may come in
between, and nothing else may touch the station's state. `MCNodeTable`,
`MCNodeCommands`, `MCActuation` and `MCBench` give the constants values for TLC; the runs of
`GatewayBoot` and `SensorNode` need a configuration file only.

## 3. What the runs show

Passing runs:

- `node_table`: entries are unique by address (`UniqueShort`) although `nodes_count`
  covers an entry before it is written; an address once written stays (`ShortStable`),
  which is what a task that holds a pointer relies on; a verdict of the heartbeat is
  justified (`VerdictJustified`); no entry is online longer than the timeout and two
  heartbeats (`OfflineDeadline`); the state's publication is attempted in time
  (`PublishDeadline`; whether the attempt succeeds, the code does not look at);
  all of it across the wrap of the clock. `IInv` is the inductive invariant of the
  proofs, checked here as an ordinary invariant.
- `node_table_live`: an entry that is online goes offline or is registered again.
- `node_commands`: a command's frames go to one address, never to 0x0000
  (`FramesAddressed`), and to one under which the named device was registered
  (`FramesToNamedDevice`), although entries are overwritten meanwhile, also between the two
  halves of one comparison; a command ends
  although the table grows during the scan (`CommandEnds`).
- `actuation`: the copies of the node's state and the outputs agree (`CopiesAgree`);
  once no frame is in flight an actuator is as the last message with a field of it asked,
  if that was complete, had no other actuator's field and an unquoted switch, and
  nothing was lost since; a message for another node never changes that
  (`SettledAsCommanded`); the panel is implemented, every order in its turn (`ImplementsPanel`).
- `boot`: `app_wifi_is_connected` is right once the events posted are handled
  (`ConnectedSettles`); the station is given up only after `WIFI_MAX_RETRY` retries in
  a row (`PortalAfterRetries`), and every disconnection is answered by a call of
  `esp_wifi_connect` or by giving up (`DisconnectionAnswered`); the boot completes
  whatever fails (`BootCompletes`); `s_rt.state`, which two tasks write, only moves
  forward (`StateForward`), and RUNNING means formed (`RunningMeansFormed`); a command
  cannot arrive before there is a callback (`NoCommandDropped`), on every connection to
  the broker the subscription is asked for (`SubscriptionAsked`; one that is refused
  is not asked for again, see below), and its end is noticed (`MqttFlagSettles`).
- `sensor`: no value of an earlier cycle survives in the readings (`NoStaleReading`);
  CO2 is an earlier one's only when its trigger was lost (`CO2FollowsTrigger`);
  the attributes for temperature and humidity are of one cycle, and never of one before
  the last (`AttributesTogether`), the humidity being 0 when its coefficients are missing
  and a reset value when it is not measured, and with two exceptions the property states: between
  the two writes the humidity is a cycle behind; and when the endpoint is registered
  just there, the temperature is 0 until the next cycle writes. Measuring goes on (`KeepsMeasuring`).
- `bench`: light, soil moisture and battery are in their documented ranges for every raw value
  (`ReadingsInRange`), and a higher quantity is never read as a lower one (`OrderKept` for every raw
  value of the analog inputs, the light and the SCD41, `BmeOrderKept` for the BME280 over the sweeps of
  section 4). The temperatures are in no range the code sees to (see the differences below). A BME280 whose
  coefficients are missing is read as 0, whatever it measures
  (`MissedCalibration`; `SensorNode` builds on this); a frame of the SCD41 with up to three
  bits flipped anywhere, and a bus stuck low or high, are refused (`CorruptionRefused`);
  every alert of a mask is in the message, and the message fits (`AlertsComplete`). The
  humidity is compared before its last scaling, which is wrong (`bench_humidity`).

Violation runs: each checks one sentence of the documents, of a header or of a
comment that the code does not live up to. `PROJECT.json`, "findings", quotes the
sentence and explains the behaviour found:

| run | what happens |
|---|---|
| `node_table_race` | a node registered during a heartbeat pass is marked offline at once |
| `node_commands_route` | after a rejoin with a new address commands go to the old one |
| `included_sent` | of two switches one frame is sent, endpoint of the first, value of the last |
| `sensor_soil` | the fallback soil temperature may be an uninitialised variable |
| `bench_humidity` | the BME280's humidity is 1024 times too large, then cut to 16 bits: from 0.33 per cent on what is left is unrelated to the humidity |

Further differences between the code and what is said about it, met while the models
were written. Each is in the code as it stands, and the models contain it; no run is
spent on it, as reading the line shows it.

| said | done |
|---|---|
| "only the included fields are applied" (`docs/MQTT_API.md:134`) | a payload with only a level switches the actuator off: `act_on` comes from a state that is zero there (`app_gateway.c:433`; `ActOn`) |
| "String: `"on"` / `"off"`, `"true"` / `"false"`" are accepted forms (`docs/MQTT_API.md:151`) | the quote is not skipped, the value is not taken: the frame goes to endpoint 0 and the actuator stays as it is (`agrinet_mqtt_schema.c:159`; `QuotedForms`) |
| levels "accept integers 0..100" (`docs/MQTT_API.md:153`) | 0 to 255 are taken (`agrinet_mqtt_schema.c:176`; `Levelled`) |
| `temp_c` -40..120 (`docs/MQTT_API.md:67`) | the BME280's temperature is not limited, nor is the raw value (`app_sensors.c:144`, `:174`; `Temperature`) |
| `soil_temp_c` -40..120 (`docs/MQTT_API.md:71`, `docs/ZIGBEE_DATA_MODEL.md:117`) | it is the SCD41's temperature, -45 to 130 degrees, not limited (`app_sensors.c:265`, `:442`; `ScdTemperature`) |
| `co2_ppm` 0..10000 (`docs/MQTT_API.md:73`) | the 16 bits the sensor sends, 0 to 65535 (`app_sensors.c:264`) |
| "Illuminance : int16 lux" (`agrinet_types.h:39`) | the field is a `uint16_t`, and the conversion gives up to 54612 (`Lux`) |
| "BME280 initialised" (the log line, `app_sensors.c:124`) | the register writes before it may have been lost (`app_sensors.c:111` to `:118`; `BmeInit`) |
| "retry STA connect (%d/%d)" (the log line, `app_wifi.c:53`) | the result of `esp_wifi_connect` is not looked at, a call that is refused is not made again and no event follows it (`app_wifi.c:46`, `:51`; `Connect`) |
| "subscribed to %s" (the log line, `app_mqtt.c:45`) | the result of the subscription is not looked at, a refused one is not repeated (`app_mqtt.c:44`; `OnConnectedSubscribe`) |
| "turn the pump on at 80% PWM" (`docs/FLASHING.md:167`) | the endpoints have no Level Control cluster, the output is driven at 100 per cent (actuator `main.c:69`; `IgnoreFrame`) |
| "Updates the on/off / level attribute to confirm state" (`docs/ARCHITECTURE.md:132`) | a write to any other attribute, such as Identify's, switches the output off and leaves the on/off attribute (actuator `main.c:87`; `Identify`) |
| "Publishes the updated actuator state back" (`docs/MQTT_API.md:185`) | what the payload does not name is published as off (`app_gateway.c:477`; `Command`) |
| "Blocking wait ... for the WiFi to become associated" (`app_wifi.h:46`) | the CONNECTED bit is never cleared (`app_wifi.c:167`; `OnGotIp`) |
| "Blocks until the coordinator is formed" (`app_gateway.h:83`) | the Zigbee task is created and the call returns (`app_gateway.c:298`; `CreateZbTask`) |
| "WiFi connects → MQTT connects → Zigbee coordinator starts" (`docs/ARCHITECTURE.md:66`) | the results are not looked at, the coordinator starts without either (`app_gateway.c:276`; `MqttInit`) |
| "Called from the Zigbee callback when a device joins" (`app_gateway.h:94`) | `app_gateway_register_node` has no caller; an announcement is logged (`app_gateway.c:189`) |
| "Nodes perform BDB network steering and join automatically" (`docs/ZIGBEE_DATA_MODEL.md:190`) | a steering that failed is not tried again (sensor `main.c:83`; `OnNotJoined`) |
| "Restart network formation" (the log line, `app_gateway.c:181`) | a failed formation is logged and not started again (`OnFormationFailed`) |
| "expected: agrinet/<site>/nodes/<node>/actuators/<act>/set" (`app_mqtt.c:67`) | a topic without an actuator's name has six tokens and may be obeyed: the seventh is compared unassigned (`app_mqtt.c:79`; `Recognised`) |
| `pressure_pa` 30000..110000 (`docs/MQTT_API.md:69`) | the compensation is not the data sheet's: its example (`adc_t` 519888, `adc_p` 415148) gives -196682123 instead of 100653 (`app_sensors.c:146`; the expressions were executed, 64 bits are not modelled) |
| "Battery: voltage divider → 0..100%" (`docs/ARCHITECTURE.md:121`) | without the ADC's calibration scheme the voltage cannot exceed 2200 mV and the battery is always at 0 (`app_sensors.c:357`; `PinMillivolts`) |
| "Published every 60 seconds per sensor node" (`docs/MQTT_API.md:46`) | `app_gateway_publish_sensor` and `app_gateway_publish_alert` have no caller (`app_gateway.c:359`) |
| captive portal "for provisioning" (`docs/ARCHITECTURE.md:106`) | `app_gateway_save_config_nvs` has no caller: what is entered cannot be kept, and an SSID erased stays away (`app_gateway.c:106`; `InitFlash`) |
| "Updates the corresponding Zigbee attributes (... custom soil/CO2 clusters)" (`docs/ARCHITECTURE.md:122`) | only temperature and humidity are set (sensor `main.c:175`; `SetTemp`, `SetHum`) |

## 4. Bounds

- `NodeTable`: two entries and three addresses, so that the table fills up and a
  registration is refused; one device suffices, as nothing in this run compares IEEE
  addresses. `ClockMod` = 8 with a timeout of 2 makes the clock wrap in every second
  pass. `HbMax` bounds the time between two heartbeats, and the time the Zigbee task
  may be kept from its next store after it sampled the clock; `Tick` is where both bind. The ages
  stop at `AgeCap` and `PubCap`, past every bound a property speaks of.
  Addresses only get compared, so they are symmetric; the liveness run uses no symmetry.
- `NodeCommands`: two devices, two addresses, two entries: addresses are exchanged,
  entries reused, the table full. `ClockStopped` cuts the run at the first tick:
  the command task reads neither times nor `online`, and the proofs cover the rest.
- `Actuation`: an actuator of each kind (dimmed, relay, servo), fourteen payloads (single
  switches, switch and level, a level beyond the documents' 100 and one beyond a byte, quoted,
  level alone, two switches, none at all)
  and seven topics (another node, either free level empty, a topic too long, a later part
  of a message); every payload comes with the node's topic, and every topic with one
  payload, as the two are taken apart independently. `MaxAir` = 2 frames in flight: a
  payload makes up to two, and a frame can be overtaken by a reset or followed by
  the frame of another command.
- `Bench`: soil, battery, light and SCD41 temperature take every raw value; the BME280's
  temperature every 16th raw value from 0 to 741440, about -140 to 91 degrees, and its humidity
  every fifth value at both ends of that, for two sets of coefficients and for three that
  are missing in part. Beyond 741440 the square of the quadratic term no longer fits 32 bits
  when the first coefficient is missing; the code multiplies it by 0 then. `MaxFlips` = 3 is what the checksum is made to
  detect in a word; four flips it may not. TLC's integers have 32 bits as the code's
  `int32_t` and it stops at an overflow: for these coefficients there is none.
  The assumptions say what the constants stand for: the raw values of light and SCD41 have
  16 bits (`SweepAssumption`); registers are bytes, and a sensor whose first temperature
  coefficient is 0 is one whose calibration was not read (`ImagesAssumption`: the three words
  come in one transfer into a cleared structure); a frame on the bus carries its
  checksums, or nothing drives the bus (`FramesAssumption`). `SensorsAssumption` is about the
  sensors and not about the code, which takes any coefficients: what it asks for is that T2 is
  at least 16384 and T3 at most 2048 either way (26435 and -1000 in the data sheet's example),
  that the humidity's gain is at least 16384 (about 46000 for the images here), that the sweep
  is of 20 bits, and that the casts lose nothing at its ends: 16 bits are enough for the
  temperature and 32 for the humidity. It does not ask for a temperature in its documented
  range. Sensors without a calibration are not
  restricted by it.
- `GatewayBoot`: `MaxRetry` = 5 as in the code; nothing else is bounded.
- `SensorNode` has no bound; a frame it reads from the SCD41 is good or refused, as `Bench` shows of the checksum.

## 5. Fairness

FreeRTOS schedules every task that is ready, so each task's steps are weakly fair;
in `NodeTable` time passes, too. Nothing makes a device join, leave or answer, a
broker accept a connection, or WiFi come up. In `Actuation` a frame is delivered or
given up, since the radio's retries are bounded. In `GatewayBoot` a connection to the
broker is noticed to be over when the WiFi is gone, and the stack reports the outcome
of what it was told to start. Resets are never fair.

## 6. Proofs

Those of `NodeTable` and `NodeCommands` are for every number of entries, every set of
devices and addresses, every timeout and period, under the assumptions named in `NodeTable`: the zeroed values are not
those of a device, a heartbeat comes at least every `HbMax` with `HbMax` at most the
timeout and the period, and the clock is wide enough to tell a timeout and two
heartbeats from a wrap (2^32 ms against five minutes).

`IInv` is `TypeOK`, `TableShape`, `ClockTracked`, `AgesBounded` and
`VerdictJustified`.

- `UniqueShort` is not inductive: two entries might both lack their address and
  receive the same one. `TableShape` adds that slots not in use are zeroed, that only
  the entry being registered lacks its address, and that no other entry has the
  address it is about to get. From it follow `ShortsUnique` and `ShortsStable`.
- `OfflineDeadline` needs the differences of the wrapping clock to be true times
  (`ClockTracked`), which holds as long as ages stay below `ClockMod`, which
  follows from the bounds (`AgesBounded`): an entry online is no older than the
  timeout at the sample of the clock if the running pass is beyond it, and at most one
  heartbeat older if it is not. The two parts are proved together; from them follow
  `VerdictsJustified`, `OfflineInTime` and `PublishInTime`.
- `CommandsReachNamed` rests on an invariant of the identifiers (`IdsTrace`): an
  entry's `node_id` is that of a device registered under its address, or, while it is
  being overwritten, has the new device's first half and such a device's second half.
  `strcmp` reads such an entry a half at a time, before or after either is written, so
  `BeginsNamed` says as much of the entry whose first half has matched, and `HalvesAreNamed` puts
  the halves together. The assumption `UnmixableIds` is part of the property: half of one identifier and half of
  another is not that of a third device. `NodeCommandsProofs` first shows that every step
  of the composed system is a step of the table, and takes over what was proved there.

Those of `SensorNode` assume nothing; those of `GatewayBoot` assume nothing of `MaxRetry`.

- `NoStaleReadings` and `CO2OfThisCycle` rest on `TriggerTrace`: an earlier result can
  be waiting in the SCD41 when it is read only if this cycle's trigger was lost, and no
  field has been filled before its sensor's turn.
- `AttributesOfOneCycle`: the readings hold humidity and temperature together
  (`ReadTogether`), but the attributes are two writes, and the Zigbee task may create them
  between the two. `AttributesTrace` says that there is nothing in them before the endpoint
  is registered, that the first one is this cycle's when the second is written, unless
  the endpoint is newer (`torn`), and that each is of this cycle or the last;
  `NothingYet` covers the time before the tasks exist.
- `RunningIsFormed` and `StateOnlyForward`: two tasks write `s_rt.state` without a lock, so
  the invariant `StateFollows` says what the main task has written at each of its steps and
  that the Zigbee task exists only once the main task writes no more; `PhaseFollows` ties
  RUNNING to an open network and that to a described one.
- `CallbackInPlace`: `ClientFollows` orders the client, its connection and its subscription
  behind `RegisterCb`; that the MQTT task, once up, connects and disconnects as it likes does
  not matter.

Those of the WiFi station hold for every natural number `MaxRetry`.

- `RetriedBeforePortal` and `FlagSettled` rest on `WifiInv`. Events are handled after
  the fact, so the invariant says what the handler may still have before it:
  `QueueShape`, that at most a connection and its end are queued, as the driver reports one
  change and then waits, and that the flag is right when nothing is; `FailuresCounted`,
  that the retry count is the number of failures in a row until the station is given
  up, and that there is a station only with an SSID; `OffUntilStart`, that the driver is off
  until `app_wifi_start` begins; `StartFollows`, that this is not before the main task gets
  to it, so that the SSID is not read again under a station. `GatewayTypeCorrect`
  adds the types of everything else.

Those of `Actuation` hold for every set of actuators and messages and every number of
frames in flight. They assume what `ActuatorCommand` and `Actuation` name: endpoints are
finitely many and not 0; a message has the seven levels of the subscription, or no
topic, and fields the parser knows; servos cannot be dimmed; and the node's identifier
is not the word "actuators" (`NodeAssumption`: `derive_node_id` makes "node-" and eight
digits). Without the last one a topic with an empty level would name the node by
its fifth level.

- `ActuatorsSettle` is not inductive, as it only speaks of an empty air. `ActInv` says,
  for every actuator the messages make a claim of (`wanted` is not "any"), that the last frame in flight for it
  has the value asked for (`LastSays`), and that the node has it when there is none
  (`Follows`). A frame appended for another actuator, a frame lost, a reset that
  leaves frames in flight and a callback each keep that. Two lemmas on topics carry
  the case of a command: a complete topic of the node is recognised, whatever the
  unassigned pointer holds (`CompleteIsTaken`), and a topic that is taken for the node's
  has its identifier at the fourth level, however many levels are empty
  (`TakenNamesNode`); and one on the frames, that a single switch goes to its own
  actuator (`FrameOfOneSwitch`), although endpoint and value are taken from the two ends
  of the mask.
- `CopiesAlwaysAgree` and `ActuationTypeCorrect` rest on `NodeOK`: no level is ever
  stored in the node (nothing takes a level frame), so that every output is driven at
  level 0, where duties fit 12 bits and that of a running output differs from that of
  one that is off (`DriveRuns`).
- `PanelImplemented` maps the initial states and every step of `Actuation` to the
  `SwitchPanel`. The orders are a subsequence of the frames, and `SubsequenceProofs` has
  what that needs: a subsequence grows at its end, loses its head or stays when the
  sequence does (`SubsequenceGrows`, `SubsequenceLosesHead`, `SubsequenceShifts`). A command
  is an order or nothing, a frame received carries the first one out, one lost
  loses it, a write to Identify is `Disturb`, a reset is the panel's.

Those of `Bench` hold for every frame and mask, every sweep of the raw values and every set
of register images under the assumptions of section 4; only `BmeOrderPreserved` needs
`SensorsAssumption`. `BenchInv` only says that
the raw value is where the sweep began or not past its end, and that no more bits are flipped
than may be; the work is in the operators.

- `FramesRefused`: a shift of the checksum is linear over the symmetric difference of bit
  sets (`ShiftLinear`), so is the checksum of a word (`Crc8Linear`), and a flipped bit adds
  a mark to the difference of computed and received checksum, its syndrome, which depends
  on the bit's place alone (`FlipMarks`). The mark is the lowest bit shifted up to 23 times;
  these 24 values differ and all have an odd number of bits, the polynomial having an even
  one (`PowersDiffer`). One or three flips therefore leave a word with an odd
  syndrome, and two in one word do not cancel out. A bus that is stuck has three even
  syndromes that are not empty (`StuckSyndromes`), and three flips would have to repair each
  with one, which makes it odd.
- `AlertsNamed`: at every alert the array is at most 16 characters an alert long, so the
  guard holds and the name is appended (`TestedKeeps`, `ListingComplete`).
- `ReadingsRanged` and `OrderPreserved`: `MoistureFalls`, `BatteryRises`, `LuxRises` and
  `ScdRises` bound the division in each conversion. Light is the delicate one, as the float
  may lose 1 where the quotient is whole. `ReadingsRanged` is about the light, the soil moisture
  and the battery, for which the code has clamps or needs none.
- `BmeOrderPreserved`: `SweepInv` adds that the raw value has not
  fallen below the first one. When `adc_t` rises by 16, the linear term of `t_fine` rises by
  8 at least (`FirstTerm`; it has one bit more than the quadratic one), while the quadratic
  term falls by 4 at most (`SecondTerm`), so that `t_fine` rises (`TFineRises`) and is
  between its values at the ends, so that the cast to 16 bits loses nothing (`DegreesKept`). The humidity's correction grows with the square of the
  product, in jumps of up to 16320 wherever its shifted value changes; the product rises by
  the gain, which is more, or not at all (`ProductRises`, `CorrectionKeepsOrder`). With a
  smaller gain the order could be lost. All of this is about integers: that the
  intermediate results fit 32 bits depends on the coefficients and is what TLC sees.
- `UncalibratedIsZero`: without coefficients the products are 0, and the constants added for
  rounding are smaller than the divisors that follow them (`NoTemperature`, `HumidityClamped`).

Checked by TLC only: everything under fairness (liveness is out of the prover's reach,
as is ENABLED) and, of the refinement, the panel's own fairness. Every safety property and
every action property of the passing runs is a theorem.

## 7. Not modelled

- The content of JSON messages other than the alerts' lengths: formatting only.
- `agrinet_clusters.c`: stubs that log and return; nothing calls them.
- The BME280's pressure: 64-bit arithmetic, which TLC does not have. Section 3 says what
  running the expressions gives.
- `app_gateway_save_config_nvs`, `app_sensors_sleep`, `app_sensors_wake`,
  `app_actuators_read`, `app_gateway_publish_sensor`: no caller in the tree. Of the
  configuration that is loaded only whether there is an SSID changes what the models do.
- The actuator node's steering: the sensor node's code over again; a command for a node
  that has not joined is a lost frame.
- `ESP_ZB_BDB_SIGNAL_DEVICE_FIRST_START` and `_REBOOT` on the nodes: the stack sends them for
  an initialisation the nodes never ask for, as they start the steering at once.
- Scripts and build files.

- What the code itself does not look at at boot: the result of `xTaskCreate`. The tasks are
  assumed to find memory.
- What becomes of a published message: an attempt to publish leaves no trace of its outcome in
  the gateway's state (`app_gateway.c:502` to `:509`).

The Zigbee stack, the MQTT client, the WiFi driver and the sensors are external and
modelled from how the code uses them. That the Zigbee stack is called from several
tasks without its lock is outside these models: each call is taken as atomic.

## 8. State of the project

All the modules of section 2 are written, with the proofs of section 6. What could be added:

1. A proof that 32 bits are enough for the BME280's intermediate results, from ranges of the
   coefficients; TLC sees it for the images of `MCBench`.
2. The BME280's pressure, with its 64-bit products split into two words, once section 3's
   difference is resolved.
3. The parts section 7 lists, as soon as they have a caller.
