------------------------------ MODULE NodeTable ------------------------------
(***************************************************************************)
(* The gateway's node table, s_rt.nodes of app_gateway.c, shared without a *)
(* lock by two tasks of the dual-core host:                                *)
(*                                                                         *)
(*   - the Zigbee task runs app_gateway_register_node when a device joins  *)
(*     or is discovered, and app_gateway_mark_node_offline;                *)
(*   - the heartbeat task of main.c runs app_gateway_heartbeat at 1 Hz.    *)
(*                                                                         *)
(* NodeCommands.tla adds the third task, the MQTT client's.                *)
(*                                                                         *)
(* A step is one group of accesses to the table between which the other    *)
(* tasks may run.  Reads and writes of what only the Zigbee task writes    *)
(* (nodes_count, short_addr, ieee_addr) are grouped with that task's step. *)
(* The array of structures is one variable per field.                      *)
(*                                                                         *)
(* esp_timer_get_time() / 1000 is cast to uint32_t: clock counts modulo    *)
(* ClockMod, one unit being any span shorter than the heartbeat period.    *)
(***************************************************************************)
EXTENDS Integers

CONSTANTS
    MaxNodes,   \* AGRINET_GW_MAX_NODES
    Shorts,     \* network short addresses a device can be given
    NoShort,    \* 0x0000, "unjoined": the address in a zeroed entry
    Ieees,      \* IEEE addresses of the devices
    NoIeee,     \* the IEEE address in a zeroed entry
    Halves,     \* halves of a node_id string, written one after the other
    Blank,      \* the zeroed half of a node_id
    IdOf,       \* derive_node_id: the node_id of an IEEE address
    ClockMod,   \* 2^32 ms in the code
    Timeout,    \* 5 * 60 * 1000
    PubPeriod,  \* 60000
    HbDelay,    \* the vTaskDelay between two heartbeats
    HbMax       \* bound: longest time from one sample of the clock by the
                \* heartbeat to the next

ASSUME MaxNodesAssumption == MaxNodes \in Nat \ {0}
ASSUME NamesAssumption ==
    /\ NoShort \notin Shorts
    /\ NoIeee \notin Ieees
    /\ Blank \notin Halves
    /\ IdOf \in [Ieees -> Halves \X Halves]
ASSUME TimingAssumption ==
    /\ ClockMod \in Nat /\ Timeout \in Nat /\ PubPeriod \in Nat
    /\ HbDelay \in Nat /\ HbMax \in Nat
    /\ 0 < HbDelay /\ HbDelay <= HbMax
    /\ HbMax <= Timeout /\ HbMax <= PubPeriod
    /\ Timeout + 2 * HbMax + 1 < ClockMod
    /\ PubPeriod + 2 * HbMax + 1 < ClockMod

VARIABLES
    nodes_count,    \* entries in use
    short_addr,     \* \
    ieee_addr,      \*  |
    last_seen_ms,   \*  | fields of the entries
    online,         \*  |
    node_id,        \* /
    zbPc,           \* where the Zigbee task is in app_gateway_register_node
    zbIdx,          \* its idx
    zbShort,        \* its short_addr argument
    zbIeee,         \* its ieee_addr argument
    hbPc,           \* where the heartbeat task is
    hbI,            \* its loop index i
    hbNow,          \* its now_ms
    last_state_pub, \* the static of app_gateway_heartbeat
    clock,          \* esp_timer_get_time() / 1000, as a uint32_t
    age,            \* history: time since last_seen_ms was written, per entry
    hbAge,          \* history: time since the heartbeat sampled the clock
    pubAge          \* history: time since the sample of the last attempt to publish

tableVars == <<nodes_count, short_addr, ieee_addr, last_seen_ms, online, node_id>>
zbVars == <<zbPc, zbIdx, zbShort, zbIeee>>
hbVars == <<hbPc, hbI, hbNow, last_state_pub>>
timeVars == <<clock, age, hbAge, pubAge>>
vars == <<tableVars, zbVars, hbVars, timeVars>>

Slots == 0 .. MaxNodes - 1
Entries == {i \in Slots : i < nodes_count}

\* Ages are history variables: they stop at the first value past every bound
\* the properties speak of.
AgeCap == Timeout + 2 * HbMax + 1
PubCap == PubPeriod + 2 * HbMax + 1

\* Faulty variant: the difference is taken in a wider type and does not wrap.
ElapsedUnwrapped(a, b) == a - b

\* a - b on uint32_t.
Elapsed(a, b) == IF b <= a THEN a - b ELSE a - b + ClockMod

\* app_gateway_init zeroes the runtime; the tasks start after it.
Init ==
    /\ nodes_count = 0
    /\ short_addr = [i \in Slots |-> NoShort]
    /\ ieee_addr = [i \in Slots |-> NoIeee]
    /\ last_seen_ms = [i \in Slots |-> 0]
    /\ online = [i \in Slots |-> FALSE]
    /\ node_id = [i \in Slots |-> <<Blank, Blank>>]
    /\ zbPc = "idle" /\ zbIdx = 0 /\ zbShort = NoShort /\ zbIeee = NoIeee
    /\ hbPc = "sleep" /\ hbI = 0 /\ hbNow = 0
    /\ last_state_pub = 0
    /\ clock = 0
    /\ age = [i \in Slots |-> AgeCap]
    /\ hbAge = 0
    /\ pubAge = 0

-----------------------------------------------------------------------------
(* The Zigbee task: app_gateway_register_node, app_gateway_mark_node_offline *)

\* find_node_by_short(s) = i: the first entry in use with that address.
FoundAt(s, i) ==
    /\ i \in Entries
    /\ short_addr[i] = s
    /\ \A j \in Entries : short_addr[j] = s => i <= j

\* Faulty variant: only entries that are online are compared.
NotFoundOnline(s) == \A j \in Entries : online[j] => short_addr[j] # s

NotFound(s) == \A j \in Entries : short_addr[j] # s

\* Faulty variant: a device that is back with another address keeps its entry.
RegKnownByIeee(s, e) ==
    /\ zbPc = "idle"
    /\ \E i \in Entries : ieee_addr[i] = e /\ zbIdx' = i
    /\ zbPc' = "addr" /\ zbShort' = s /\ zbIeee' = e
    /\ UNCHANGED <<tableVars, hbVars, timeVars>>

\* The call finds an entry with the address: idx is that entry.
RegKnown(s, e) ==
    /\ zbPc = "idle"
    /\ \E i \in Entries : FoundAt(s, i) /\ zbIdx' = i
    /\ zbPc' = "addr" /\ zbShort' = s /\ zbIeee' = e
    /\ UNCHANGED <<tableVars, hbVars, timeVars>>

\* Faulty variant: the test for a full table is off by one.
RegNewPastFull(s, e) ==
    /\ zbPc = "idle"
    /\ NotFound(s)
    /\ nodes_count <= MaxNodes
    /\ zbIdx' = nodes_count
    /\ nodes_count' = nodes_count + 1
    /\ zbPc' = "addr" /\ zbShort' = s /\ zbIeee' = e
    /\ UNCHANGED <<short_addr, ieee_addr, last_seen_ms, online, node_id, hbVars, timeVars>>

\* Faulty variant: a full table gives its first entry to the new node.
RegNewEvicts(s, e) ==
    /\ zbPc = "idle"
    /\ NotFound(s)
    /\ zbIdx' = IF nodes_count < MaxNodes THEN nodes_count ELSE 0
    /\ nodes_count' = IF nodes_count < MaxNodes THEN nodes_count + 1 ELSE nodes_count
    /\ zbPc' = "addr" /\ zbShort' = s /\ zbIeee' = e
    /\ UNCHANGED <<short_addr, ieee_addr, last_seen_ms, online, node_id, hbVars, timeVars>>

\* The call finds none: nodes_count is incremented before the entry it now
\* covers is written.  (When the table is full the call returns
\* ESP_ERR_NO_MEM and changes nothing.)
RegNew(s, e) ==
    /\ zbPc = "idle"
    /\ NotFound(s)
    /\ nodes_count < MaxNodes
    /\ zbIdx' = nodes_count
    /\ nodes_count' = nodes_count + 1
    /\ zbPc' = "addr" /\ zbShort' = s /\ zbIeee' = e
    /\ UNCHANGED <<short_addr, ieee_addr, last_seen_ms, online, node_id, hbVars, timeVars>>

RegAddr ==
    /\ zbPc = "addr"
    /\ short_addr' = [short_addr EXCEPT ![zbIdx] = zbShort]
    /\ ieee_addr' = [ieee_addr EXCEPT ![zbIdx] = zbIeee]
    /\ zbPc' = "seen"
    /\ UNCHANGED <<nodes_count, last_seen_ms, online, node_id,
                   zbIdx, zbShort, zbIeee, hbVars, timeVars>>

\* Faulty variant: the time is written for a node that was not online only.
RegSeenOfNew ==
    /\ zbPc = "seen"
    /\ IF online[zbIdx]
       THEN UNCHANGED <<last_seen_ms, age>>
       ELSE /\ last_seen_ms' = [last_seen_ms EXCEPT ![zbIdx] = clock]
            /\ age' = [age EXCEPT ![zbIdx] = 0]
    /\ zbPc' = "online"
    /\ UNCHANGED <<nodes_count, short_addr, ieee_addr, online, node_id,
                   zbIdx, zbShort, zbIeee, hbVars, clock, hbAge, pubAge>>

RegSeen ==
    /\ zbPc = "seen"
    /\ last_seen_ms' = [last_seen_ms EXCEPT ![zbIdx] = clock]
    /\ age' = [age EXCEPT ![zbIdx] = 0]
    /\ zbPc' = "online"
    /\ UNCHANGED <<nodes_count, short_addr, ieee_addr, online, node_id,
                   zbIdx, zbShort, zbIeee, hbVars, clock, hbAge, pubAge>>

RegOnline ==
    /\ zbPc = "online"
    /\ online' = [online EXCEPT ![zbIdx] = TRUE]
    /\ zbPc' = "idHead"
    /\ UNCHANGED <<nodes_count, short_addr, ieee_addr, last_seen_ms, node_id,
                   zbIdx, zbShort, zbIeee, hbVars, timeVars>>

\* snprintf fills node_id from the left, over whatever was there.
RegIdHead ==
    /\ zbPc = "idHead"
    /\ node_id' = [node_id EXCEPT ![zbIdx] = <<IdOf[zbIeee][1], node_id[zbIdx][2]>>]
    /\ zbPc' = "idTail"
    /\ UNCHANGED <<nodes_count, short_addr, ieee_addr, last_seen_ms, online,
                   zbIdx, zbShort, zbIeee, hbVars, timeVars>>

RegIdTail ==
    /\ zbPc = "idTail"
    /\ node_id' = [node_id EXCEPT ![zbIdx] = <<node_id[zbIdx][1], IdOf[zbIeee][2]>>]
    /\ zbPc' = "idle" /\ zbIdx' = 0 /\ zbShort' = NoShort /\ zbIeee' = NoIeee
    /\ UNCHANGED <<nodes_count, short_addr, ieee_addr, last_seen_ms, online,
                   hbVars, timeVars>>

\* app_gateway_mark_node_offline(s); an unknown address changes nothing.
MarkOffline(s) ==
    /\ zbPc = "idle"
    /\ \E i \in Entries : FoundAt(s, i) /\ online' = [online EXCEPT ![i] = FALSE]
    /\ UNCHANGED <<nodes_count, short_addr, ieee_addr, last_seen_ms, node_id,
                   zbVars, hbVars, timeVars>>

RegStep == RegAddr \/ RegSeen \/ RegOnline \/ RegIdHead \/ RegIdTail

-----------------------------------------------------------------------------
(* The heartbeat task: app_gateway_heartbeat, then vTaskDelay               *)

\* Faulty variant: the loop starts at the second entry.
HbSampleFromOne ==
    /\ hbPc = "sleep" /\ hbAge >= HbDelay
    /\ hbNow' = clock /\ hbAge' = 0
    /\ hbI' = 1 /\ hbPc' = "loop"
    /\ UNCHANGED <<tableVars, zbVars, last_state_pub, clock, age, pubAge>>

\* vTaskDelay is over: the clock is sampled, once for the whole pass.
HbSample ==
    /\ hbPc = "sleep" /\ hbAge >= HbDelay
    /\ hbNow' = clock /\ hbAge' = 0
    /\ hbI' = 0 /\ hbPc' = "loop"
    /\ UNCHANGED <<tableVars, zbVars, last_state_pub, clock, age, pubAge>>

\* Faulty variant: a node is given up one unit of time early.
ExpiredAtTimeout(i) == online[i] /\ Elapsed(hbNow, last_seen_ms[i]) >= Timeout

Expired(i) == online[i] /\ Elapsed(hbNow, last_seen_ms[i]) > Timeout

\* The condition of the loop body holds: the write comes later.
HbExpired ==
    /\ hbPc = "loop" /\ hbI < nodes_count
    /\ Expired(hbI)
    /\ hbPc' = "mark"
    /\ UNCHANGED <<tableVars, zbVars, hbI, hbNow, last_state_pub, timeVars>>

HbPass ==
    /\ hbPc = "loop" /\ hbI < nodes_count
    /\ ~Expired(hbI)
    /\ hbI' = hbI + 1
    /\ UNCHANGED <<tableVars, zbVars, hbPc, hbNow, last_state_pub, timeVars>>

HbMark ==
    /\ hbPc = "mark"
    /\ online' = [online EXCEPT ![hbI] = FALSE]
    /\ hbI' = hbI + 1 /\ hbPc' = "loop"
    /\ UNCHANGED <<nodes_count, short_addr, ieee_addr, last_seen_ms, node_id,
                   zbVars, hbNow, last_state_pub, timeVars>>

\* The loop is over: publish the gateway state when it is due, then sleep.  The attempt
\* is all that last_state_pub stands for: whether app_mqtt_publish takes the message (not
\* without a connection, not with a full outbox) is neither looked at nor kept.
PubDue == Elapsed(hbNow, last_state_pub) > PubPeriod

HbPublish ==
    /\ hbPc = "loop" /\ hbI >= nodes_count
    /\ PubDue
    /\ last_state_pub' = hbNow /\ pubAge' = hbAge
    /\ hbPc' = "sleep" /\ hbI' = 0
    /\ UNCHANGED <<tableVars, zbVars, hbNow, clock, age, hbAge>>

HbSkipPublish ==
    /\ hbPc = "loop" /\ hbI >= nodes_count
    /\ ~PubDue
    /\ hbPc' = "sleep" /\ hbI' = 0
    /\ UNCHANGED <<tableVars, zbVars, hbNow, last_state_pub, timeVars>>

HbStep == HbSample \/ HbExpired \/ HbPass \/ HbMark \/ HbPublish \/ HbSkipPublish

-----------------------------------------------------------------------------
(* Time.  The two bounds say that the heartbeat task is scheduled at least   *)
(* every HbMax, and that the Zigbee task is not kept from its next store for *)
(* as long as that.                                                          *)
Tick ==
    /\ hbAge < HbMax
    /\ zbPc = "online" => age[zbIdx] < HbMax
    /\ clock' = IF clock = ClockMod - 1 THEN 0 ELSE clock + 1
    /\ age' = [i \in Slots |-> IF age[i] < AgeCap THEN age[i] + 1 ELSE AgeCap]
    /\ hbAge' = hbAge + 1
    /\ pubAge' = IF pubAge < PubCap THEN pubAge + 1 ELSE PubCap
    /\ UNCHANGED <<tableVars, zbVars, hbVars>>

ZbCall == \E s \in Shorts : MarkOffline(s) \/ \E e \in Ieees : RegKnown(s, e) \/ RegNew(s, e)

Next == ZbCall \/ RegStep \/ HbStep \/ Tick

Spec == Init /\ [][Next]_vars

\* FreeRTOS keeps scheduling tasks that are ready, and time passes; nothing
\* obliges a device to join, to come back or to leave.
Fairness == WF_vars(RegStep) /\ WF_vars(HbStep) /\ WF_vars(Tick)
FairSpec == Spec /\ Fairness

-----------------------------------------------------------------------------
(* Properties                                                                *)

ZbPcs == {"idle", "addr", "seen", "online", "idHead", "idTail"}

\* Every variable holds a value of its C type; indices stay within the array.
TypeOK ==
    /\ nodes_count \in 0 .. MaxNodes
    /\ short_addr \in [Slots -> Shorts \cup {NoShort}]
    /\ ieee_addr \in [Slots -> Ieees \cup {NoIeee}]
    /\ last_seen_ms \in [Slots -> 0 .. ClockMod - 1]
    /\ online \in [Slots -> BOOLEAN]
    /\ node_id \in [Slots -> (Halves \cup {Blank}) \X (Halves \cup {Blank})]
    /\ zbPc \in ZbPcs
    /\ zbIdx \in Slots
    /\ zbPc # "idle" => zbIdx < nodes_count /\ zbShort \in Shorts /\ zbIeee \in Ieees
    /\ hbPc \in {"sleep", "loop", "mark"}
    /\ hbI \in 0 .. MaxNodes
    /\ hbI <= nodes_count
    /\ hbPc = "mark" => hbI < nodes_count
    /\ hbNow \in 0 .. ClockMod - 1
    /\ last_state_pub \in 0 .. ClockMod - 1
    /\ clock \in 0 .. ClockMod - 1
    /\ age \in [Slots -> 0 .. AgeCap]
    /\ hbAge \in 0 .. HbMax
    /\ pubAge \in 0 .. PubCap

\* No two entries carry the same short address, although an entry counts as
\* in use before its address is written (find_node_by_short is what the
\* registration relies on to update rather than to append).
UniqueShort ==
    \A i, j \in Entries :
        i # j /\ short_addr[i] # NoShort => short_addr[i] # short_addr[j]

\* The address in an entry never changes once it is written: a task that
\* holds a pointer to an entry (app_gateway_send_actuator_cmd does, over two
\* radio requests) addresses one device's slot throughout.
ShortStable ==
    [][\A i \in Slots : short_addr[i] # NoShort => short_addr'[i] = short_addr[i]]_vars

\* Across the wrap of the 32-bit clock, the heartbeat decides to mark an entry
\* offline only when the node was last registered more than Timeout ago, or
\* when it was registered again after the pass sampled the clock.
VerdictJustified ==
    hbPc = "mark" => age[hbI] > Timeout + hbAge \/ age[hbI] <= hbAge

\* A node that is not registered again is offline at the latest two heartbeats
\* after Timeout: no entry stays online past that, whatever the interleaving
\* of the registration's stores with the heartbeat's pass.
OfflineDeadline ==
    \A i \in Entries : online[i] => age[i] <= Timeout + 2 * HbMax

\* The gateway attempts to publish its state at least every PubPeriod and two
\* heartbeats, also across the wrap of the clock.  (An attempt may fail, and is not
\* repeated before the next one is due.)
PublishDeadline == pubAge <= PubPeriod + 2 * HbMax

\* An entry that is online goes offline, or is registered again.
SilentGoesOffline ==
    \A i \in Slots : online[i] ~> (~online[i] \/ (zbPc = "online" /\ zbIdx = i))

\* The inductive invariant.  Slots that are not in use are still zeroed, and
\* only the entry being registered may be without its address: that is why the
\* next registration cannot append a second entry with it.
TableShape ==
    /\ \A i \in Slots \ Entries : short_addr[i] = NoShort /\ ~online[i]
    /\ \A i \in Entries : short_addr[i] = NoShort => zbPc = "addr" /\ zbIdx = i
    /\ zbPc = "addr" =>
           /\ short_addr[zbIdx] \in {NoShort, zbShort}
           /\ \A j \in Entries \ {zbIdx} : short_addr[j] # zbShort
    /\ UniqueShort

\* The differences of the 32-bit clock are the true times wherever the
\* heartbeat relies on one.
BeingSeen(i) == online[i] \/ (zbPc = "online" /\ zbIdx = i)

ClockTracked ==
    /\ Elapsed(clock, hbNow) = hbAge
    /\ Elapsed(clock, last_state_pub) = pubAge
    /\ \A i \in Slots : BeingSeen(i) => Elapsed(clock, last_seen_ms[i]) = age[i]

\* An entry the running pass has dealt with was not expired when the clock was
\* sampled; any other may be one heartbeat older.
Slack(i) == IF hbPc = "sleep" \/ i < hbI THEN 0 ELSE HbMax

AgesBounded ==
    /\ zbPc = "online" => age[zbIdx] <= HbMax
    /\ \A i \in Slots : online[i] => age[i] <= Timeout + hbAge + Slack(i)
    /\ hbAge <= pubAge
    /\ pubAge <= PubPeriod + hbAge + (IF hbPc = "sleep" THEN 0 ELSE HbMax)

IInv == TypeOK /\ TableShape /\ ClockTracked /\ AgesBounded /\ VerdictJustified

\* What the documentation says of the heartbeat: only a node that has not been
\* heard from in Timeout is marked offline.
OnlySilentMarked == hbPc = "mark" => age[hbI] > Timeout
==============================================================================
