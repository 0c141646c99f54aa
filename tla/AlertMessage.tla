----------------------------- MODULE AlertMessage -----------------------------
(***************************************************************************)
(* agrinet_mqtt_build_alert_json: the names of the alerts in a mask are    *)
(* appended to a buffer while it has room, and the message is built around *)
(* them.  An alert is the number of its bit, counted from 1; of a text     *)
(* only its length matters.                                                *)
(***************************************************************************)
EXTENDS Integers

\* temp_high, temp_low, humidity_high, humidity_low, soil_dry, soil_wet, co2_high,
\* battery_low.
NameLength == <<9, 8, 13, 12, 8, 8, 8, 11>>
Alerts == DOMAIN NameLength

\* APPEND_ALERT: quotes, and a comma but before the first.
Appended(acc, k) ==
    [pos |-> acc.pos + NameLength[k] + IF acc.listed = {} THEN 2 ELSE 3,
     listed |-> acc.listed \cup {k}]

\* Faulty variant: the buffer is sized for the names without quotes and commas.
HasRoomTight(pos, k) == pos + NameLength[k] + 1 + 4 < 80

\* The guard of APPEND_ALERT: sizeof counts the terminating NUL.
HasRoom(pos, k) == pos + NameLength[k] + 1 + 4 < 160

\* What the array holds once the macro has been used for alert k.
Tested(acc, mask, k) == IF k \in mask /\ HasRoom(acc.pos, k) THEN Appended(acc, k) ELSE acc

FirstHalf(mask) ==
    Tested(Tested(Tested(Tested([pos |-> 0, listed |-> {}], mask, 1), mask, 2), mask, 3), mask, 4)

\* What the array holds in the end, and how long it is.
Listing(mask) ==
    Tested(Tested(Tested(Tested(FirstHalf(mask), mask, 5), mask, 6), mask, 7), mask, 8)

\* The message: the texts around the identifier, the array and the mask, which has
\* at most digits characters.
AlertJsonLength(mask, idLength, digits) == 9 + idLength + 12 + Listing(mask).pos + 9 + digits + 1

\* A message that does not fit into the 256 characters of
\* app_gateway_publish_alert is not published.
AlertPublished(mask, idLength, digits) == AlertJsonLength(mask, idLength, digits) < 256
==============================================================================
