------------------------------ MODULE Packets ------------------------------
(***************************************************************************)
(* The packets components exchange over TCP (transport/transaction.py):    *)
(* the bit fields of their headers, how a sender fills them and what a     *)
(* receiver reads from them.                                               *)
(*                                                                         *)
(* A layout gives the width of each field.  A packet is its payload type,  *)
(* its length, its headers and its data; the data are a value that is      *)
(* never looked into, unless an offset shifts them.                        *)
(***************************************************************************)
EXTENDS Integers, Sequences, FiniteSetsExt, TLC

----------------------------------------------------------------------------
(* Fields.                                                                 *)

\* A bit field keeps the low bits of what is written to it.  TLC's integers
\* are narrower than the widest fields, which keep everything.
Kept(value, width) == IF width > 30 THEN value ELSE value % 2^width

Total(f, S) == MapThenSumSet(LAMBDA k : f[k], S)
Bytes(layout) == Total(layout, DOMAIN layout) \div 8

Filled(layout, values) ==
  [f \in DOMAIN layout |-> IF f \in DOMAIN values THEN Kept(values[f], layout[f]) ELSE 0]

\* len(packet), which counts the system header's two bytes
Length(layouts, n) == 2 + Total([i \in DOMAIN layouts |-> Bytes(layouts[i])], DOMAIN layouts) + n

SystemHeader == [payload_length |-> 12]

Made(type, layouts, values, data, n) ==
  [type   |-> type,
   length |-> Kept(Length(layouts, n), SystemHeader.payload_length),
   heads  |-> [i \in DOMAIN layouts |-> Filled(layouts[i], values[i])],
   data   |-> data, n |-> n]

\* bswap16: the two bytes of a 16 bit number change places.
Swap16(n) == (n % 256) * 256 + ((n \div 256) % 256)

----------------------------------------------------------------------------
(* Sideband and PBR packets.                                               *)

CONNECTION_REQUEST == 0
CONNECTION_ACCEPT  == 1
CONNECTION_REJECT  == 2
CONNECTION_DISCONNECTED == 3

Sideband(type) == Made("SIDEBAND", <<[type |-> 8]>>, <<[type |-> type]>>, 0, 0)

ConnectionRequest(port) ==
  Made("SIDEBAND", <<[type |-> 8], [port |-> 8]>>,
       <<[type |-> CONNECTION_REQUEST], [port |-> port]>>, 0, 0)

IsSideband(p, type) == p.type = "SIDEBAND" /\ p.heads[1].type = type

PbrHeader == [spid |-> 12, dpid |-> 12, rsvd |-> 8]

\* A packet wrapped for the PBR fabric is the payload of another one.
PbrPacket(spid, dpid, inner) ==
  Made("PBR", <<PbrHeader>>, <<[spid |-> spid, dpid |-> dpid]>>, inner, inner.length)

----------------------------------------------------------------------------
(* CXL.io.                                                                 *)

TlpPrefix == [pcie_base_spec_defined |-> 8, ld_id |-> 16, reserved |-> 8]

CxlIoHeader == [fmt_type |-> 8, th |-> 1, rsvd |-> 1, attr_b2 |-> 1, t8 |-> 1, tc |-> 3, t9 |-> 1,
                length_upper |-> 2, at |-> 2, attr |-> 2, ep |-> 1, td |-> 1, length_lower |-> 8]

FmtType == [MRD_32B |-> 0, MRD_64B |-> 32, MWR_32B |-> 64, MWR_64B |-> 96, CFG_RD0 |-> 4,
            CFG_WR0 |-> 68, CFG_RD1 |-> 5, CFG_WR1 |-> 69, CPL |-> 10, CPL_D |-> 74]

Fmt(p, names) == p.type = "CXL_IO" /\ \E n \in names : p.heads[2].fmt_type = FmtType[n]
IsCfgType0(p) == Fmt(p, {"CFG_RD0", "CFG_WR0"})
IsCfgType1(p) == Fmt(p, {"CFG_RD1", "CFG_WR1"})
IsCfgRead(p)  == Fmt(p, {"CFG_RD0", "CFG_RD1"})
IsCfgWrite(p) == Fmt(p, {"CFG_WR0", "CFG_WR1"})
IsMemRead(p)  == Fmt(p, {"MRD_32B", "MRD_64B"})
IsMemWrite(p) == Fmt(p, {"MWR_32B", "MWR_64B"})
IsMmio(p)     == IsMemRead(p) \/ IsMemWrite(p)
IsCompletion(p) == Fmt(p, {"CPL", "CPL_D"})
IsCfg(p)      == IsCfgType0(p) \/ IsCfgType1(p) \/ IsCompletion(p)

LdId(p) == p.heads[1].ld_id

\* build_transaction_id: what pairs a completion with its request
TransactionId(p) == p.heads[3].req_id * 256 + p.heads[3].tag

MReqHeader == [req_id |-> 16, tag |-> 8, first_dw_be |-> 4, last_dw_be |-> 4,
               addr_upper |-> 56, rsvd |-> 2, addr_lower |-> 6]
MReq == <<TlpPrefix, CxlIoHeader, MReqHeader>>

\* A memory request covers whole double words.  The upper two bits of their
\* number are written in place and so do not fit their field.
Dwords(addr, length) == ((addr % 4) + length + 3) \div 4
MReqValues(fmt, a) ==
  LET n == Dwords(a.addr, a.length)
      last == (a.addr % 4) + a.length - 4 * (n - 1) IN
  <<[ld_id |-> a.ld_id],
    [fmt_type |-> FmtType[fmt], length_upper |-> (n % 1024) - (n % 256), length_lower |-> n % 256],
    [req_id |-> Swap16(a.req_id), tag |-> a.tag % 256,
     first_dw_be |-> (2^(IF a.length < 4 THEN a.length ELSE 4) - 1) * 2^(a.addr % 4),
     last_dw_be |-> IF n > 1 THEN 2^last - 1 ELSE 0,
     addr_upper |-> a.addr \div 256, addr_lower |-> (a.addr % 256) \div 4]>>

MemRd(a) == Made("CXL_IO", MReq, MReqValues("MRD_64B", a), 0, 0)
MemWr(a) == Made("CXL_IO", MReq, MReqValues("MWR_64B", a), a.data, a.length)

GetAddress(p)  == p.heads[3].addr_upper * 256 + p.heads[3].addr_lower * 4
GetDataSize(p) == (p.heads[2].length_upper * 256 + p.heads[2].length_lower) * 4

CfgReqHeader == [req_id |-> 16, tag |-> 8, first_dw_be |-> 4, last_dw_be |-> 4, dest_id |-> 16,
                 ext_reg_num |-> 4, rsvd |-> 4, r |-> 2, reg_num |-> 6]
CfgReq == <<TlpPrefix, CxlIoHeader, CfgReqHeader>>

\* fill raises for an address beyond 4 kB and for an access that crosses a
\* double word.
CfgLegal(a) == a.addr <= 4095 /\ (a.addr % 4) + a.size <= 4
CfgReqValues(fmt, a) ==
  <<[ld_id |-> a.ld_id],
    [fmt_type |-> FmtType[fmt], length_lower |-> 1],
    [req_id |-> Swap16(a.req_id), tag |-> a.tag % 256,
     first_dw_be |-> (2^a.size - 1) * 2^(a.addr % 4), dest_id |-> Swap16(a.id),
     ext_reg_num |-> a.addr \div 256, reg_num |-> a.addr \div 4]>>

CfgRd(a) == Made("CXL_IO", CfgReq, CfgReqValues(IF a.type0 THEN "CFG_RD0" ELSE "CFG_RD1", a), 0, 0)
CfgWr(a) == Made("CXL_IO", CfgReq, CfgReqValues(IF a.type0 THEN "CFG_WR0" ELSE "CFG_WR1", a),
                 a.value * 2^(8 * (a.addr % 4)), 4)

DestId(p)   == Swap16(p.heads[3].dest_id)
BusOf(p)    == DestId(p) \div 256
DeviceOf(p) == (DestId(p) \div 8) % 32
FunctionOf(p) == DestId(p) % 8

Register(p) == (p.heads[3].ext_reg_num * 64 + p.heads[3].reg_num) * 4
Enabled(p) == {i \in 0 .. 3 : (p.heads[3].first_dw_be \div 2^i) % 2 = 1}

\* A read is of the whole double word; a write is of the enabled bytes.
ReadInfo(p)  == [addr |-> Register(p), size |-> 4]
WriteInfo(p) == [addr |-> Register(p) + Min(Enabled(p)), size |-> Cardinality(Enabled(p))]
CfgValue(p) == LET w == WriteInfo(p) IN Kept(p.data \div 2^(8 * (w.addr % 4)), 8 * w.size)

CplHeader == [cpl_id |-> 16, byte_count_upper |-> 4, bcm |-> 1, status |-> 3, byte_count_lower |-> 8,
              req_id |-> 16, tag |-> 8, lower_addr |-> 7, rsvd |-> 1]
CplLayout == <<TlpPrefix, CxlIoHeader, CplHeader>>
SC == 0
UR == 1

Cpl(req_id, tag, status, ld_id) ==
  Made("CXL_IO", CplLayout,
       <<[ld_id |-> ld_id], [fmt_type |-> FmtType.CPL],
         [status |-> status, byte_count_lower |-> 4, req_id |-> Swap16(req_id), tag |-> tag]>>, 0, 0)

CplD(req_id, tag, data, n, ld_id) ==
  Made("CXL_IO", CplLayout,
       <<[ld_id |-> ld_id],
         [fmt_type |-> FmtType.CPL_D, length_upper |-> (n \div 4) \div 256, length_lower |-> n \div 4],
         [status |-> SC, req_id |-> Swap16(req_id), tag |-> tag,
          byte_count_upper |-> n \div 256, byte_count_lower |-> n]>>, data, n)

CompletionSc(p) == Fmt(p, {"CPL_D"}) \/ (Fmt(p, {"CPL"}) /\ p.heads[3].status = SC)
CompletionUr(p) == Fmt(p, {"CPL"}) /\ p.heads[3].status = UR

----------------------------------------------------------------------------
(* CXL.cache and CXL.mem: a class, and the header of that class.           *)

ClassHeader == [port_index |-> 8, msg_class |-> 8]

\* An address is that of a line: create raises for others.
LineLegal(a) == "addr" \notin DOMAIN a \/ a.addr % 64 = 0
Lined(valid, a) ==
  [f \in {"valid"} \cup DOMAIN a |->
     CASE f = "valid" -> valid
       [] f = "addr" -> a.addr \div 64
       [] OTHER -> a[f]]
LineAddress(p) == p.heads[2].addr * 64

CacheClass == [D2H_REQ |-> 1, D2H_RSP |-> 2, D2H_DATA |-> 3, H2D_REQ |-> 4, H2D_RSP |-> 5, H2D_DATA |-> 6]
D2HReqHeader == [valid |-> 1, cache_opcode |-> 5, cqid |-> 12, nt |-> 1, cache_id |-> 4, addr |-> 46, rsvd |-> 3]
D2HRspHeader == [valid |-> 1, cache_opcode |-> 5, uqid |-> 12, rsvd |-> 6]
D2HDataHeader == [valid |-> 1, uqid |-> 12, bogus |-> 1, poison |-> 1, bep |-> 1, rsvd |-> 8]
H2DReqHeader == [valid |-> 1, cache_opcode |-> 3, addr |-> 46, uqid |-> 12, cache_id |-> 4, rsvd |-> 6]
\* (Mutant: a bit too few for the opcode.)
H2DRspNarrow == [valid |-> 1, cache_opcode |-> 3, rsp_data |-> 12, rsp_pre |-> 2, cqid |-> 12, cache_id |-> 4, rsvd |-> 6]
H2DRspHeader == [valid |-> 1, cache_opcode |-> 4, rsp_data |-> 12, rsp_pre |-> 2, cqid |-> 12, cache_id |-> 4, rsvd |-> 5]
H2DDataHeader == [valid |-> 1, cqid |-> 12, poison |-> 1, go_err |-> 1, cache_id |-> 4, rsvd |-> 5]

MemClass == [M2S_REQ |-> 1, M2S_RWD |-> 2, M2S_BIRSP |-> 3, S2M_BISNP |-> 4, S2M_NDR |-> 5, S2M_DRS |-> 6]
M2SReqHeader == [valid |-> 1, mem_opcode |-> 4, snp_type |-> 3, meta_field |-> 2, meta_value |-> 2, tag |-> 16,
                 addr |-> 46, ld_id |-> 4, rsvd |-> 20, tc |-> 2, padding |-> 4]
M2SRwDHeader == [valid |-> 1, mem_opcode |-> 4, snp_type |-> 3, meta_field |-> 2, meta_value |-> 2, tag |-> 16,
                 addr |-> 46, poison |-> 1, bep |-> 1, ld_id |-> 4, rsvd |-> 22, tc |-> 2]
M2SBIRspHeader == [valid |-> 1, opcode |-> 4, bi_id |-> 12, bi_tag |-> 12, low_addr |-> 2, rsvd |-> 9]
S2MBISnpHeader == [valid |-> 1, opcode |-> 4, bi_id |-> 12, bi_tag |-> 12, addr |-> 46, rsvd |-> 5]
S2MNDRHeader == [valid |-> 1, opcode |-> 3, meta_field |-> 2, meta_value |-> 2, tag |-> 16, ld_id |-> 4,
                 dev_load |-> 2, rsvd |-> 10]
S2MDRSHeader == [valid |-> 1, opcode |-> 3, meta_field |-> 2, meta_value |-> 2, tag |-> 16, poison |-> 1,
                 ld_id |-> 4, dev_load |-> 2, rsvd |-> 9]

CacheHeaders == [D2H_REQ |-> D2HReqHeader, D2H_RSP |-> D2HRspHeader, D2H_DATA |-> D2HDataHeader,
                 H2D_REQ |-> H2DReqHeader, H2D_RSP |-> H2DRspHeader, H2D_DATA |-> H2DDataHeader]
MemHeaders == [M2S_REQ |-> M2SReqHeader, M2S_RWD |-> M2SRwDHeader, M2S_BIRSP |-> M2SBIRspHeader,
               S2M_BISNP |-> S2MBISnpHeader, S2M_NDR |-> S2MNDRHeader, S2M_DRS |-> S2MDRSHeader]

\* Data are 64 bytes; a data response is the only packet not marked valid.
CachePacket(class, a, data) ==
  Made("CXL_CACHE", <<ClassHeader, CacheHeaders[class]>>,
       <<[msg_class |-> CacheClass[class]], Lined(1, a)>>,
       data, IF class \in {"D2H_DATA", "H2D_DATA"} THEN 64 ELSE 0)
MemPacket(class, a, data) ==
  Made("CXL_MEM", <<ClassHeader, MemHeaders[class]>>,
       <<[msg_class |-> MemClass[class]], Lined(IF class = "S2M_DRS" THEN 0 ELSE 1, a)>>,
       data, IF class \in {"M2S_RWD", "S2M_DRS"} THEN 64 ELSE 0)

\* The creators of each class: their arguments, and the constants they set.
D2HReq(addr, cache_id, opcode, cqid) ==
  CachePacket("D2H_REQ", [addr |-> addr, cache_id |-> cache_id, cache_opcode |-> opcode, cqid |-> cqid], 0)
D2HRsp(uqid, opcode) == CachePacket("D2H_RSP", [uqid |-> uqid, cache_opcode |-> opcode], 0)
D2HData(uqid, data) == CachePacket("D2H_DATA", [uqid |-> uqid], data)
H2DReq(addr, cache_id, opcode) ==
  CachePacket("H2D_REQ", [addr |-> addr, cache_id |-> cache_id, cache_opcode |-> opcode], 0)
H2DRsp(cache_id, opcode, rsp_data, cqid) ==
  CachePacket("H2D_RSP", [cache_id |-> cache_id, cache_opcode |-> opcode, rsp_data |-> rsp_data, cqid |-> cqid], 0)
H2DData(cache_id, data, cqid) == CachePacket("H2D_DATA", [cache_id |-> cache_id, cqid |-> cqid], data)

MemRdReq(addr, opcode, field, value, snp, ld_id) ==
  MemPacket("M2S_REQ", [addr |-> addr, mem_opcode |-> opcode, meta_field |-> field, meta_value |-> value,
                        snp_type |-> snp, ld_id |-> ld_id], 0)
MemWrReq(addr, data, opcode, field, value, snp, ld_id) ==
  MemPacket("M2S_RWD", [addr |-> addr, mem_opcode |-> opcode, meta_field |-> field, meta_value |-> value,
                        snp_type |-> snp, ld_id |-> ld_id], data)
BIRsp(opcode, bi_id, bi_tag) ==
  MemPacket("M2S_BIRSP", [opcode |-> opcode, bi_id |-> bi_id, bi_tag |-> bi_tag], 0)
\* The tag given is replaced by that of a counter.
BISnp(addr, opcode, bi_id, counter) ==
  MemPacket("S2M_BISNP", [addr |-> addr, opcode |-> opcode, bi_id |-> bi_id, bi_tag |-> counter % 4096], 0)
MemData(data, opcode, field, value, ld_id) ==
  MemPacket("S2M_DRS", [opcode |-> opcode, meta_field |-> field, meta_value |-> value, ld_id |-> ld_id], data)
MemCmp(opcode, field, value, ld_id) ==
  MemPacket("S2M_NDR", [opcode |-> opcode, meta_field |-> field, meta_value |-> value, ld_id |-> ld_id], 0)

IsMem(p, classes) == p.type = "CXL_MEM" /\ \E c \in classes : p.heads[1].msg_class = MemClass[c]
IsCache(p, classes) == p.type = "CXL_CACHE" /\ \E c \in classes : p.heads[1].msg_class = CacheClass[c]

\* What PacketReader makes of a packet it received.  It has a class for each
\* format and message class, and raises for others.
ReadsIo(p) == IsCfg(p) \/ IsMmio(p)
ReadsMem(p) == IsMem(p, DOMAIN MemClass)
ReadsCache(p) == IsCache(p, DOMAIN CacheClass)
ReadsSideband(p) ==
  \E t \in {CONNECTION_REQUEST, CONNECTION_ACCEPT, CONNECTION_REJECT} : IsSideband(p, t)
Readable(p) ==
  CASE p.type = "CXL_IO" -> ReadsIo(p)
    [] p.type = "CXL_MEM" -> ReadsMem(p)
    [] p.type = "CXL_CACHE" -> ReadsCache(p)
    [] p.type = "SIDEBAND" -> ReadsSideband(p)
    [] p.type = "PBR" -> TRUE
    [] OTHER -> FALSE

\* The opcodes and states the headers carry.
D2HReqOpcodes == 1 .. 14 \cup {16}
D2HRspOpcodes == {1, 4, 5, 6, 7, 15, 22}
H2DReqOpcodes == 1 .. 3
H2DRspOpcodes == {1, 4, 5, 6, 8, 12, 13, 15}
H2DRspStates  == 1 .. 4 \cup {6}
MetaFields    == {0, 3}
MetaValues    == {0, 2, 3}
SnpTypes      == 0 .. 3
M2SReqOpcodes == 0 .. 4 \cup 8 .. 10
M2SRwDOpcodes == {1, 2, 4}
BIRspOpcodes  == 0 .. 2 \cup 4 .. 6
BISnpOpcodes  == 0 .. 2 \cup 4 .. 6
NDROpcodes    == 0 .. 4
DRSOpcodes    == {0, 1}
=============================================================================
