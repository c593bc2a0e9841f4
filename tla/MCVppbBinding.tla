---------------------------- MODULE MCVppbBinding ----------------------------
EXTENDS VppbBinding
CONSTANT p1
AllLds == [p \in Ports |-> {0, 1}]
OneBound == [v \in Vppbs |-> IF v = 0 THEN [port |-> p1, ld |-> 1] ELSE None]
=============================================================================
