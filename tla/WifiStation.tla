----------------------------- MODULE WifiStation -----------------------------
(***************************************************************************)
(* The gateway's WiFi subsystem (app_wifi.c): app_wifi_start, called by    *)
(* the main task, wifi_event_handler, run by the event loop task, and the  *)
(* WiFi driver, which works on its own and posts an event for what has     *)
(* happened.  Events wait in a queue: the handler acts on the past.        *)
(*                                                                         *)
(* The driver is external and modelled from how the code uses it: it tries *)
(* to connect when it is told to, or refuses the call, which nobody looks  *)
(* at; and when an attempt or a connection fails it posts one              *)
(* STA_DISCONNECTED and waits to be told again.  After a refused call it   *)
(* has nothing to report, and nobody tells it again.                       *)
(***************************************************************************)
EXTENDS Integers, Sequences

CONSTANTS
    MaxRetry    \* WIFI_MAX_RETRY

ASSUME MaxRetryAssumption == MaxRetry \in Nat

VARIABLES
    ssid,           \* a WiFi SSID is configured (g_wifi_ssid is not empty)
    startPc,        \* app_wifi_start: "none", "waiting", "ok", "fail"
    mode,           \* the driver's mode: "off", "sta", "ap"
    link,           \* the station: "down", "connecting", "ip", or "refused":
                    \* down, and the last esp_wifi_connect failed
    queue,          \* events posted and not yet handled
    s_retry_count,
    s_wifi_connected,
    bits,           \* s_wifi_event_group
    failures        \* history: disconnections since an address was obtained

wifiVars == <<ssid, startPc, mode, link, queue, s_retry_count, s_wifi_connected, bits, failures>>

\* After app_wifi_init.
WifiOff ==
    /\ startPc = "none" /\ mode = "off" /\ link = "down"
    /\ queue = <<>>
    /\ s_retry_count = 0 /\ s_wifi_connected = FALSE
    /\ bits = {}
    /\ failures = 0

-----------------------------------------------------------------------------
(* The main task: app_wifi_start(captive_on_failure), always called with TRUE *)

\* No SSID: the access point is started for provisioning.
StartPortal ==
    /\ startPc = "none" /\ ~ssid
    /\ mode' = "ap" /\ startPc' = "ok"
    /\ UNCHANGED <<ssid, link, queue, s_retry_count, s_wifi_connected, bits, failures>>

\* esp_wifi_start posts STA_START; the call then waits for either bit.
StartStation ==
    /\ startPc = "none" /\ ssid
    /\ mode' = "sta" /\ startPc' = "waiting"
    /\ queue' = Append(queue, "STA_START")
    /\ UNCHANGED <<ssid, link, s_retry_count, s_wifi_connected, bits, failures>>

StartReturns ==
    /\ startPc = "waiting" /\ bits # {}
    /\ startPc' = IF "CONNECTED" \in bits THEN "ok" ELSE "fail"
    /\ UNCHANGED <<ssid, mode, link, queue, s_retry_count, s_wifi_connected, bits, failures>>

\* Faulty variant: the wait has no timeout.
StartWaitsForEver == FALSE

\* The wait is over after 15 s.
StartTimesOut ==
    /\ startPc = "waiting" /\ bits = {}
    /\ startPc' = "fail"
    /\ UNCHANGED <<ssid, mode, link, queue, s_retry_count, s_wifi_connected, bits, failures>>

WifiStart == StartPortal \/ StartStation \/ StartReturns \/ StartTimesOut

-----------------------------------------------------------------------------
(* The driver                                                               *)

ObtainAddress ==
    /\ mode = "sta" /\ link = "connecting"
    /\ link' = "ip"
    /\ queue' = Append(queue, "GOT_IP")
    /\ UNCHANGED <<ssid, startPc, mode, s_retry_count, s_wifi_connected, bits, failures>>

Disconnect ==
    /\ mode = "sta" /\ link \in {"connecting", "ip"}
    /\ link' = "down"
    /\ queue' = Append(queue, "STA_DISCONNECTED")
    /\ UNCHANGED <<ssid, startPc, mode, s_retry_count, s_wifi_connected, bits, failures>>

-----------------------------------------------------------------------------
(* The event loop task: wifi_event_handler                                  *)

\* esp_wifi_connect, whose result is not looked at; queue, s_retry_count and the rest
\* are the caller's.
Connect == link' \in IF link = "down" THEN {"connecting", "refused"} ELSE {link}

OnStart ==
    /\ queue # <<>> /\ Head(queue) = "STA_START"
    /\ Connect
    /\ queue' = Tail(queue)
    /\ UNCHANGED <<ssid, startPc, mode, s_retry_count, s_wifi_connected, bits, failures>>

\* Faulty variant: one attempt more than MaxRetry is counted.
RetryOnceTooOften ==
    /\ queue # <<>> /\ Head(queue) = "STA_DISCONNECTED"
    /\ s_wifi_connected' = FALSE
    /\ s_retry_count <= MaxRetry
    /\ Connect
    /\ s_retry_count' = s_retry_count + 1
    /\ failures' = failures + 1
    /\ queue' = Tail(queue)
    /\ UNCHANGED <<ssid, startPc, mode, bits>>

\* Faulty variant: the flag is cleared only when the station is given up.
RetryKeepsFlag ==
    /\ queue # <<>> /\ Head(queue) = "STA_DISCONNECTED"
    /\ s_retry_count < MaxRetry
    /\ Connect
    /\ s_retry_count' = s_retry_count + 1
    /\ failures' = failures + 1
    /\ queue' = Tail(queue)
    /\ UNCHANGED <<ssid, startPc, mode, s_wifi_connected, bits>>

\* Faulty variant: the attempt is counted and not made.
RetryWithoutConnect ==
    /\ queue # <<>> /\ Head(queue) = "STA_DISCONNECTED"
    /\ s_wifi_connected' = FALSE
    /\ s_retry_count < MaxRetry
    /\ s_retry_count' = s_retry_count + 1
    /\ failures' = failures + 1
    /\ queue' = Tail(queue)
    /\ UNCHANGED <<ssid, startPc, mode, link, bits>>

\* Further attempts are left.
OnDisconnectedRetry ==
    /\ queue # <<>> /\ Head(queue) = "STA_DISCONNECTED"
    /\ s_wifi_connected' = FALSE
    /\ s_retry_count < MaxRetry
    /\ Connect
    /\ s_retry_count' = s_retry_count + 1
    /\ failures' = failures + 1
    /\ queue' = Tail(queue)
    /\ UNCHANGED <<ssid, startPc, mode, bits>>

\* None is left: the driver is made an access point, for good.
OnDisconnectedPortal ==
    /\ queue # <<>> /\ Head(queue) = "STA_DISCONNECTED"
    /\ s_wifi_connected' = FALSE
    /\ s_retry_count >= MaxRetry
    /\ bits' = bits \cup {"FAIL"}
    /\ mode' = "ap" /\ link' = "down"
    /\ failures' = failures + 1
    /\ queue' = Tail(queue)
    /\ UNCHANGED <<ssid, startPc, s_retry_count>>

\* Faulty variant: the attempts of earlier connections keep counting.
OnGotIpKeepsCount ==
    /\ queue # <<>> /\ Head(queue) = "GOT_IP"
    /\ s_wifi_connected' = TRUE
    /\ bits' = bits \cup {"CONNECTED"}
    /\ failures' = 0
    /\ queue' = Tail(queue)
    /\ UNCHANGED <<ssid, startPc, mode, link, s_retry_count>>

OnGotIp ==
    /\ queue # <<>> /\ Head(queue) = "GOT_IP"
    /\ s_retry_count' = 0
    /\ s_wifi_connected' = TRUE
    /\ bits' = bits \cup {"CONNECTED"}
    /\ failures' = 0
    /\ queue' = Tail(queue)
    /\ UNCHANGED <<ssid, startPc, mode, link>>

WifiHandler == OnStart \/ OnDisconnectedRetry \/ OnDisconnectedPortal \/ OnGotIp

-----------------------------------------------------------------------------
(* Properties                                                                *)

WifiTypeOK ==
    /\ ssid \in BOOLEAN
    /\ startPc \in {"none", "waiting", "ok", "fail"}
    /\ mode \in {"off", "sta", "ap"}
    /\ link \in {"down", "connecting", "ip", "refused"}
    /\ queue \in Seq({"STA_START", "STA_DISCONNECTED", "GOT_IP"})
    /\ s_retry_count \in 0 .. MaxRetry
    /\ s_wifi_connected \in BOOLEAN
    /\ bits \subseteq {"CONNECTED", "FAIL"}
    /\ failures \in 0 .. MaxRetry + 1

\* app_wifi_is_connected is right as soon as the events posted have been
\* handled, however many connections came and went in the meantime.
ConnectedSettles == queue = <<>> => s_wifi_connected = (link = "ip")

\* With an SSID, the station is given up for the portal only after MaxRetry
\* attempts in a row, and the one before them, have failed.
PortalAfterRetries == mode = "ap" /\ ssid => failures = MaxRetry + 1

\* No disconnection is left unanswered: whenever the station is down the driver is told
\* to connect again, or the portal takes over.  (A call that is refused is not made again:
\* the station then stays as it is until the next reset.)
DisconnectionAnswered ==
    (mode = "sta" /\ link = "down") ~> (link \in {"connecting", "refused"} \/ mode # "sta")

==============================================================================
