----------------------------- MODULE IoManagers -----------------------------
(***************************************************************************)
(* How ConfigSpaceManager and MmioManager, the CXL.io ends of every PCI    *)
(* component, answer a request: its completion, which carries the tag and  *)
(* the logical device of the request.                                      *)
(***************************************************************************)
EXTENDS Packets

ReqId(p) == Swap16(p.heads[3].req_id)
TagOf(p) == p.heads[3].tag

\* _send_unsupported_request
Unsupported(p) == Cpl(ReqId(p), TagOf(p), UR, LdId(p))

\* The completion of a read has requester 0, whoever asked: _req_id is never
\* set.  That of a write has the requester of the request.
CfgReadDone(p, value) == [CplD(ReqId(p), TagOf(p), value, 4, LdId(p)) EXCEPT !.heads[3].req_id = 0]
CfgWriteDone(p) == Cpl(ReqId(p), TagOf(p), SC, LdId(p))

\* _send_completion of MmioManager echoes the requester as it came.
MmioReadDone(p, data) ==
  [CplD(ReqId(p), TagOf(p), data, GetDataSize(p), LdId(p)) EXCEPT !.heads[3].req_id = p.heads[3].req_id]

\* Only function 0 is served, and, for reads, device 0 unless the component is
\* a downstream bridge.
Served(type, p) ==
  /\ FunctionOf(p) = 0
  /\ IsCfgRead(p) => type = "DOWNSTREAM_BRIDGE" \/ DeviceOf(p) = 0

\* _convert_request_type_when_needed: on the bus behind the bridge a request
\* is one of type 0.
Converted(p, secondary) ==
  IF IsCfgType1(p) /\ BusOf(p) = secondary
  THEN [p EXCEPT !.heads[2].fmt_type = IF IsCfgRead(p) THEN FmtType.CFG_RD0 ELSE FmtType.CFG_WR0]
  ELSE p

\* _should_forward_packet: the whole access lies in the bridge's window.
InWindow(address, size, base, limit) == address >= base /\ address + size - 1 <= limit

\* _get_register_and_offset: the BAR has been set and holds the whole access.
InBar(address, size, bar, length) == bar # 0 /\ address >= bar /\ address + size - 1 <= bar + length - 1
=============================================================================
