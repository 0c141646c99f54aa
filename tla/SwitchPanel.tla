----------------------------- MODULE SwitchPanel -----------------------------
(***************************************************************************)
(* What the project's documents promise of actuator commands, without the  *)
(* gateway, the radio or the node's driver: orders to switch one actuator  *)
(* are carried out one at a time, in the order they were given; an order   *)
(* may be lost; after a reset of the node every actuator is off.  Nothing  *)
(* else moves an actuator, but those in Disturbed: the firmware switches   *)
(* one of these off when another of its attributes is written.             *)
(***************************************************************************)
EXTENDS Integers, Sequences

CONSTANTS Actuators, Disturbed

VARIABLES
    orders,     \* orders given and not yet carried out: <<actuator, on>>
    running     \* which actuators are on

pvars == <<orders, running>>

Init ==
    /\ orders = <<>>
    /\ running = [a \in Actuators |-> FALSE]

Order(a, on) ==
    /\ orders' = Append(orders, <<a, on>>)
    /\ UNCHANGED running

CarryOut ==
    /\ orders # <<>>
    /\ running' = [running EXCEPT ![orders[1][1]] = orders[1][2]]
    /\ orders' = Tail(orders)

LoseOrder ==
    /\ orders # <<>>
    /\ orders' = Tail(orders)
    /\ UNCHANGED running

Reset ==
    /\ running' = [a \in Actuators |-> FALSE]
    /\ UNCHANGED orders

Disturb(a) ==
    /\ running' = [running EXCEPT ![a] = FALSE]
    /\ UNCHANGED orders

Next ==
    \/ \E a \in Actuators, on \in BOOLEAN : Order(a, on)
    \/ CarryOut \/ LoseOrder \/ Reset
    \/ \E a \in Disturbed : Disturb(a)

Spec == Init /\ [][Next]_pvars /\ WF_pvars(CarryOut \/ LoseOrder)
==============================================================================
