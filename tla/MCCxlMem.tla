------------------------------ MODULE MCCxlMem ------------------------------
EXTENDS CxlMem
CONSTANTS HostWays, DeviceWays
All      == [a \in Agents |-> Addrs]
HostOnly == [a \in Agents |-> IF a = Host THEN Addrs ELSE {}]
\* One line is written by the host and read by the device alone, the others
\* are written by both and read by the host.
OneLine   == CHOOSE x \in Addrs : TRUE
ReadOne   == [a \in Agents |-> IF a = Host THEN Addrs \ {OneLine} ELSE {OneLine}]
AllButOne == [a \in Agents |-> IF a = Host THEN Addrs ELSE Addrs \ {OneLine}]
NoOne    == [a \in Agents |-> {}]
WaysOf   == [a \in Agents |-> IF a = Host THEN HostWays ELSE DeviceWays]
=============================================================================
