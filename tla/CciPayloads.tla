---------------------------- MODULE CciPayloads -----------------------------
(***************************************************************************)
(* The payloads of CCI commands, answers and notifications (the dump and   *)
(* parse of the classes under cci/), as layouts like those of Packets.     *)
(* Items of a list have a layout of their own.                             *)
(***************************************************************************)
EXTENDS Packets

----------------------------------------------------------------------------
(* Generic commands.                                                       *)

BackgroundOperationStatusResponsePayload ==
  [operation_in_progress |-> 1, percentage_complete |-> 7, reserved |-> 8,
   command_opcode |-> 16, return_code |-> 16, vendor_specific_extended_status |-> 16]

----------------------------------------------------------------------------
(* The physical switch.                                                    *)

\* The buffer is made for 49 bytes and grows as the bit masks are written.
IdentifySwitchDeviceResponsePayload ==
  [ingress_port_id |-> 8, reserved |-> 8, num_physical_ports |-> 8, num_vcss |-> 8,
   active_port_bitmask |-> 256, active_vcs_bitmask |-> 256, total_num_vppbs |-> 16,
   num_bound_vppbs |-> 16, num_hdm_decoders |-> 8]

GetPhysicalPortStateRequestPayload == [number_of_ports |-> 8, port_id_list |-> 255 * 8]
GetPhysicalPortStateResponsePayload == [number_of_ports |-> 8, reserved |-> 24]
PortInfo ==
  [port_id |-> 8, current_port_configuration_state |-> 4, connected_device_mode |-> 4,
   connected_device_type |-> 8, supported_cxl_modes |-> 8, maximum_link_width |-> 6,
   negotiated_link_width |-> 6, supported_link_speeds_vector |-> 6, max_link_speed |-> 6,
   current_link_speed |-> 6, ltssm_state |-> 8, first_negotiated_lane_number |-> 8,
   link_state_flags |-> 16, supported_ld_count |-> 8, reserved |-> 26]

GetConnectedDevicesResponsePayload == [device_count |-> 8]
DeviceInfo ==
  [pcie_vendor_id |-> 16, pcie_device_id |-> 16, pcie_subsystem_vendor_id |-> 16,
   pcie_subsystem_id |-> 16, device_serial_number |-> 64, bound_port_id |-> 8,
   total_capacity |-> 32]

----------------------------------------------------------------------------
(* Virtual switches.                                                       *)

GetVirtualCxlSwitchInfoRequestPayload ==
  [start_vppb |-> 8, vppb_list_limit |-> 8, number_of_vcss |-> 8]
GetVirtualCxlSwitchInfoResponsePayload == [number_of_vcss |-> 8, reserved |-> 24]
VcsInfoBlock == [vcs_id |-> 8, vcs_state |-> 8, usp_id |-> 8, num_of_vppbs |-> 8]
PpbInfo == [binding_status |-> 8, bound_port_id |-> 8, bound_ld_id |-> 8, reserved |-> 8]

BindVppbRequestPayload ==
  [vcs_id |-> 8, vppb_id |-> 8, physical_port_id |-> 8, reserved |-> 8, ld_id |-> 16]
UnbindVppbRequestPayload == [vcs_id |-> 8, vppb_id |-> 8, unbind_option |-> 4, reserved |-> 4]
FreezeVppbRequestPayload == [vcs_id |-> 8, vppb_id |-> 8]
UnfreezeVppbRequestPayload == [vcs_id |-> 8, vppb_id |-> 8]

----------------------------------------------------------------------------
(* Logical devices: the list of SET_LD_ALLOCATIONS has two ranges for each.  *)

SetLdAllocationsRequestPayload == [number_of_lds |-> 8, start_ld_id |-> 8, reserved |-> 16]
LdAllocation == [range_1 |-> 64, range_2 |-> 64]

----------------------------------------------------------------------------
(* PBR switches.                                                           *)

IdentifyPbrSwitchResponsePayload ==
  [gae_support_map |-> 64, num_drts |-> 8, num_rgts |-> 8, reserved |-> 8, routing_caps |-> 8]

ConfigurePidAssignmentRequestPayload == [operation |-> 3, reserved |-> 13, num_targets |-> 16]
PidAssignmentEntry == [pid |-> 12, reserved |-> 4, target_id |-> 16, instance_id |-> 8]

GetPidBindingRequestPayload == [target_vcs |-> 8, target_vppb |-> 8]
HmatInfo ==
  [latency_entry_base_unit |-> 64, latency_entry |-> 16, bw_entry_base_unit |-> 64, bw_entry |-> 16]
GetPidBindingResponsePayload == [pid |-> 12, reserved |-> 20] @@ HmatInfo
ConfigurePidBindingRequestPayload ==
  [operation |-> 3, target_vcs |-> 8, target_vppb |-> 8, pid |-> 12, reserved |-> 33] @@ HmatInfo

GetDrtRequestPayload ==
  [drt_index |-> 8, reserved |-> 8, num_entries |-> 16, start_entry |-> 16]
GetDrtResponsePayload ==
  [drt_index |-> 8, reserved |-> 16, num_entries |-> 16, start_entry |-> 16,
   associated_rgt_index |-> 8]
SetDrtRequestPayload ==
  [drt_index |-> 8, reserved |-> 8, num_entries |-> 16, start_entry |-> 16]
DrtEntryPayload == [entry_type |-> 2, reserved |-> 6, routing_target |-> 8]

----------------------------------------------------------------------------
(* Notifications.                                                          *)

NotifyPortUpdateRequestPayload == [port_id |-> 8, connected |-> 8]
NotifySwitchUpdateRequestPayload == [vcs_id |-> 8, vppb_id |-> 8, binding_status |-> 8]
NotifyDeviceUpdateRequestPayload == <<>>
=============================================================================
