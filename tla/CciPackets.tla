----------------------------- MODULE CciPackets -----------------------------
(***************************************************************************)
(* The packets of the component command interface: commands of the fabric  *)
(* manager, the answers of the switch and of the multi-logical devices     *)
(* behind it, and the switch's notifications (transport/transaction.py,    *)
(* cci/common.py).                                                         *)
(*                                                                         *)
(* A CCI message is a header and a payload.  Between the fabric manager    *)
(* and the switch it travels as the payload of another packet; between the *)
(* switch and a device its header and its payload are fields of the packet.*)
(***************************************************************************)
EXTENDS CciPayloads

CONSTANT TagBits  \* the width of message_tag; 8 in the code

ASSUME TagBitsAssumption == TagBits \in 1..8

----------------------------------------------------------------------------
(* Names and numbers.                                                      *)

CCI_RETURN_CODE ==
  [SUCCESS |-> 0, BACKGROUND_COMMAND_STARTED |-> 1, INVALID_INPUT |-> 2, UNSUPPORTED |-> 3,
   INTERNAL_ERROR |-> 4, BUSY |-> 6]

Opcode ==
  [BACKGROUND_OPERATION_STATUS |-> 2,
   IDENTIFY_SWITCH_DEVICE |-> 20736, GET_PHYSICAL_PORT_STATE |-> 20737,
   GET_VIRTUAL_CXL_SWITCH_INFO |-> 20992, BIND_VPPB |-> 20993, UNBIND_VPPB |-> 20994,
   FREEZE_VPPB |-> 21013, UNFREEZE_VPPB |-> 21014,
   GET_LD_INFO |-> 21504, GET_LD_ALLOCATIONS |-> 21505, SET_LD_ALLOCATIONS |-> 21506,
   IDENTIFY_PBR_SWITCH |-> 22272, CONFIGURE_PID_ASSIGNMENT |-> 22276, GET_PID_BINDING |-> 22277,
   CONFIGURE_PID_BINDING |-> 22278, GET_DRT |-> 22280, SET_DRT |-> 22281,
   NOTIFY_PORT_UPDATE |-> 49152, NOTIFY_SWITCH_UPDATE |-> 49153, NOTIFY_DEVICE_UPDATE |-> 49154,
   GET_CONNECTED_DEVICES |-> 49155]

REQUEST  == 0
RESPONSE == 1

----------------------------------------------------------------------------
(* Layouts.                                                                *)

CCI_MSG_CLASS == [REQ |-> 1, RSP |-> 2]
CciHeader == [port_index |-> 8, msg_class |-> 8]

\* Tags narrower than the code's leave the rest of their byte reserved.
CciMessageHeader ==
  [message_category |-> 4, reserved0 |-> 4, message_tag |-> TagBits, reserved1 |-> 16 - TagBits,
   command_opcode |-> 16, message_payload_length_low |-> 16, message_payload_length_high |-> 5,
   reserved2 |-> 2, background_operation |-> 1, return_code |-> 16,
   vendor_specific_extended_status |-> 16]

GetLdAllocationsRequestPayload == [start_ld_id |-> 8, ld_allocation_list_limit |-> 8]
GetLdInfoResponsePayload == [memory_size |-> 64, ld_count |-> 16, QoS_Telemetry_capability |-> 8]
GetLdAllocationsResponsePayload ==
  [number_of_lds |-> 8, memory_granularity |-> 8, start_ld_id |-> 8,
   ld_allocation_list_length |-> 8]

----------------------------------------------------------------------------
(* Messages and the packets that carry them to and from the switch.        *)

\* set_message_payload_length
SetPayloadLength(head, n) ==
  [head EXCEPT !.message_payload_length_low = n % 2^16,
               !.message_payload_length_high = (n \div 2^16) % 2^5]
PayloadLength(head) == head.message_payload_length_high * 2^16 + head.message_payload_length_low

CciMessage(values, payload, n) ==
  [head |-> SetPayloadLength(Filled(CciMessageHeader, values), n), payload |-> payload]

\* The packet's own length leaves out nothing: system header, CCI header,
\* message header and payload.
CciPayload(message, port) ==
  Made("CCI_MCTP", <<CciHeader>>, <<[port_index |-> port]>>, message,
       Bytes(CciMessageHeader) + PayloadLength(message.head))

Command(op, tag, port, payload, n) ==
  CciPayload(CciMessage([message_category |-> REQUEST, message_tag |-> tag,
                         command_opcode |-> Opcode[op]], payload, n), port)

Answer(tag, rc, background, payload, n) ==
  CciPayload(CciMessage([message_category |-> RESPONSE, message_tag |-> tag,
                         background_operation |-> IF background THEN 1 ELSE 0,
                         return_code |-> CCI_RETURN_CODE[rc]], payload, n), 0)

Notification(op, layout) ==
  CciPayload(CciMessage([message_category |-> REQUEST, command_opcode |-> Opcode[op]],
                        <<>>, Bytes(layout)), 0)

IsNotification(m) == m.head.message_category = REQUEST
Tag(m) == m.head.message_tag
IsOp(m, op) == m.head.command_opcode = Opcode[op]
Succeeded(m) == m.head.return_code = CCI_RETURN_CODE.SUCCESS

\* The payload bytes of a command; `k` counts the items of the list it carries.
CommandBytes(op, k) ==
  CASE op = "BIND_VPPB" -> Bytes(BindVppbRequestPayload)
    [] op = "UNBIND_VPPB" -> Bytes(UnbindVppbRequestPayload)
    [] op = "FREEZE_VPPB" -> Bytes(FreezeVppbRequestPayload)
    [] op = "UNFREEZE_VPPB" -> Bytes(UnfreezeVppbRequestPayload)
    [] op = "GET_PHYSICAL_PORT_STATE" -> Bytes(GetPhysicalPortStateRequestPayload)
    [] op = "GET_VIRTUAL_CXL_SWITCH_INFO" -> Bytes(GetVirtualCxlSwitchInfoRequestPayload) + k
    [] op = "GET_LD_ALLOCATIONS" -> Bytes(GetLdAllocationsRequestPayload)
    [] op = "SET_LD_ALLOCATIONS" -> Bytes(SetLdAllocationsRequestPayload) + k * Bytes(LdAllocation)
    [] OTHER -> 0

PbrCommandBytes(op, k) ==
  CASE op = "CONFIGURE_PID_ASSIGNMENT" ->
         Bytes(ConfigurePidAssignmentRequestPayload) + k * Bytes(PidAssignmentEntry)
    [] op = "GET_PID_BINDING" -> Bytes(GetPidBindingRequestPayload)
    [] op = "CONFIGURE_PID_BINDING" -> Bytes(ConfigurePidBindingRequestPayload)
    [] op = "GET_DRT" -> Bytes(GetDrtRequestPayload)
    [] op = "SET_DRT" -> Bytes(SetDrtRequestPayload) + k * Bytes(DrtEntryPayload)
    [] OTHER -> 0

----------------------------------------------------------------------------
(* Packets between the switch and a multi-logical device.                  *)

LdOpcodes == {"GET_LD_INFO", "GET_LD_ALLOCATIONS", "SET_LD_ALLOCATIONS"}
IsLdCommand(m) == \E op \in LdOpcodes : IsOp(m, op)

LdPacket(class, head, layout, values, data, n) ==
  Made("CCI_MCTP", <<CciHeader, CciMessageHeader, layout>>,
       <<[msg_class |-> CCI_MSG_CLASS[class]], head, values>>, data, n)
LdHead(p) == p.heads[2]

\* create_from_ccimessage: the header and what the command's payload says are
\* copied.  The one of SET_LD_ALLOCATIONS assigns a list to a field of bytes
\* and raises.
CanConvert(m) == ~IsOp(m, "SET_LD_ALLOCATIONS")
CreateFromCciMessage(m) ==
  IF IsOp(m, "GET_LD_INFO") THEN LdPacket("REQ", m.head, <<>>, <<>>, m.payload, 0)
  ELSE LdPacket("REQ", m.head, GetLdAllocationsRequestPayload,
                [start_ld_id |-> m.payload.data.start,
                 ld_allocation_list_limit |-> m.payload.data.limit], m.payload, 0)

LdAnswerHead(p, n) ==
  SetPayloadLength(
    Filled(CciMessageHeader,
           [message_category |-> RESPONSE, message_tag |-> LdHead(p).message_tag,
            command_opcode |-> LdHead(p).command_opcode]), n)

\* Sizes are in units of the 256 MB every logical device has.
GetLdInfoResponse(p, count) ==
  LdPacket("RSP", LdAnswerHead(p, 11), GetLdInfoResponsePayload,
           [memory_size |-> count, ld_count |-> count], p.data, 0)

\* The list has two numbers of eight bytes for each device it speaks of.
GetLdAllocationsResponse(p, number, length) ==
  LdPacket("RSP", LdAnswerHead(p, 4 + 16 * length), GetLdAllocationsResponsePayload,
           [number_of_lds |-> number, start_ld_id |-> p.heads[3].start_ld_id,
            ld_allocation_list_length |-> length], p.data, 16 * length)

\* create_ccimessage, and wrapping for the fabric manager
CreateCciMessage(p) ==
  CciPayload([head |-> LdHead(p), payload |-> [of |-> p.data.of, says |-> p.heads[3]]], 0)
=============================================================================
