------------------------- MODULE MCFabricManagement -------------------------
(* A switch with an upstream port (0), a multi-logical device of two logical *)
(* devices (1) and a single one (2), with two targets that share a target id *)
(* and one that does not.                                                    *)
EXTENDS FabricManagement

SomePorts == 0 :> "USP" @@ 1 :> "MLD" @@ 2 :> "SLD"
SomePlugged == {0, 1, 2}
T(id, instance) == [target_id |-> id, instance_id |-> instance]
SomeTargets == {T(1, 0), T(1, 1), T(2, 0)}
E(p, id, instance) == [pid |-> p] @@ T(id, instance)
SomeEntries == {E(0, 1, 0), E(0, 1, 1), E(0, 2, 0), E(1, 1, 0)}

\* What CxlSwitch registers, and a switch that has the commands of the PBR tests
Deployed ==
  {"BACKGROUND_OPERATION_STATUS", "IDENTIFY_SWITCH_DEVICE", "GET_PHYSICAL_PORT_STATE",
   "GET_VIRTUAL_CXL_SWITCH_INFO", "BIND_VPPB", "UNBIND_VPPB", "GET_CONNECTED_DEVICES",
   "FREEZE_VPPB", "UNFREEZE_VPPB"}
Pbr ==
  {"BACKGROUND_OPERATION_STATUS", "IDENTIFY_PBR_SWITCH", "CONFIGURE_PID_ASSIGNMENT",
   "GET_PID_BINDING", "CONFIGURE_PID_BINDING", "GET_DRT", "SET_DRT"}
TwoSwitches == {Deployed, Pbr}

Event(name, port, data) == [name |-> name, port |-> port, data |-> data]
Assign(operation, entries) ==
  Event("pbr_assignPid", 0, [operation |-> operation, entries |-> entries])
Drt(n) == [index |-> 0, start |-> 1, n |-> n]
SetDrtEvent(type) ==
  Event("pbr_setDrt", 0, [index |-> 0, start |-> 1,
        entries |-> <<[entry_type |-> type, routing_target |-> 1]>>])
Binding(operation) ==
  Event("pbr_configurePidBinding", 0, [operation |-> operation, edge |-> <<0, 0>>, pid |-> 1])

OneEdge == {<<0, 0>>}

SomeEvents ==
  {Event("port_get", 0, <<>>)}
  \cup {Event("vcs_unbind", 0, [vcs |-> v]) : v \in {0, 1}}
  \cup {Event("mld_get", p, <<>>) : p \in Ports}
  \cup {Event("mld_getAllocation", 1, [start |-> s, limit |-> 1]) : s \in {0, 2}}
  \cup {Event("mld_setAllocation", 1, [start |-> 0, limit |-> 1])}
  \cup {Assign(ASSIGN, <<E(0, 1, 0)>>), Assign(ASSIGN, <<E(0, 1, 1), E(1, 1, 0), E(0, 2, 0)>>),
        Assign(CLEAR, <<E(0, 1, 0)>>)}
  \cup {Binding(BIND)}
  \cup {Event("pbr_getDrt", 0, Drt(1)), SetDrtEvent(PHYSICAL_PORT), SetDrtEvent(RESERVED)}
=============================================================================
