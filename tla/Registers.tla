----------------------------- MODULE Registers ------------------------------
(***************************************************************************)
(* The registers of CXL components as their host sees them: what a write   *)
(* of the host's changes (util/unaligned_bit_structure.py), which          *)
(* capability structures a component has and where                         *)
(* (mmio/component_register), and the back-invalidation decoder            *)
(* (component/bi_decoder.py).                                              *)
(*                                                                         *)
(* A layout is a record of fields; a register holds a value for each.      *)
(***************************************************************************)
EXTENDS Naturals, Sequences

----------------------------------------------------------------------------
(* Fields.                                                                 *)

FIELD_ATTR == {"RO", "RW", "RWL", "HW_INIT", "RESERVED"}

BitField(start, end, attribute, default) ==
  [start |-> start, end |-> end, attribute |-> attribute, default |-> default]

\* A reserved field is not read-only.
IsReadonly(field) == field.attribute \in {"RO", "HW_INIT"}

Reset(layout) == [f \in DOMAIN layout |-> layout[f].default]

\* BitMaskedBitStructure.write_bytes: the bits of read-only fields are masked.
WriteBytes(layout, register, value) ==
  [f \in DOMAIN layout |-> IF IsReadonly(layout[f]) THEN register[f] ELSE value[f]]

\* The host tests a bit of the double word it has read.
FieldAt(layout, bit) == CHOOSE f \in DOMAIN layout : layout[f].start <= bit /\ bit <= layout[f].end
TestBit(layout, register, bit) ==
  LET f == FieldAt(layout, bit) IN
  (register[f] \div (2 ^ (bit - layout[f].start))) % 2 = 1

----------------------------------------------------------------------------
(* Back-invalidation decoders, of a downstream port ("DSP") and of a memory  *)
(* device ("D2").                                                            *)

BiDecoderCapability(type) ==
  LET dsp == type = "DSP" IN
  [hdm_d_compatible |-> BitField(0, 0, IF dsp THEN "RESERVED" ELSE "HW_INIT", 0),
   explicit_bi_decoder_commit_required |->
     BitField(1, 1, IF dsp THEN "HW_INIT" ELSE "RESERVED", IF dsp THEN 1 ELSE 0),
   reserved |-> BitField(2, 31, "RESERVED", 0)]

BiDecoderControl(type) ==
  LET dsp == type = "DSP" IN
  [bi_forward |-> BitField(0, 0, IF dsp THEN "RW" ELSE "RESERVED", 0),
   bi_enable |-> BitField(1, 1, "RW", 1),
   bi_decoder_commit |-> BitField(2, 2, IF dsp THEN "RW" ELSE "RESERVED", 0),
   reserved |-> BitField(3, 31, "RESERVED", 0)]

BiDecoderStatus ==
  [bi_decoder_committed |-> BitField(0, 0, "RO", 0),
   bi_decoder_error_not_committed |-> BitField(1, 1, "RO", 0),
   reserved1 |-> BitField(2, 7, "RESERVED", 0),
   bi_decoder_commit_timeout_scale |-> BitField(8, 11, "HW_INIT", 1),
   bi_decoder_commit_timeout_base |-> BitField(12, 15, "HW_INIT", 5),
   reserved2 |-> BitField(16, 31, "RESERVED", 0)]

\* The registers of the structure, at one double word after the other.
BiDecoder(type) == <<BiDecoderCapability(type), BiDecoderControl(type), BiDecoderStatus>>

----------------------------------------------------------------------------
(* Capability structures.                                                  *)

CapabilityId == [ras |-> 2, link |-> 4, hdm_decoder |-> 5, bi_route_table |-> 11, bi_decoder |-> 12]

\* The order of the structures is the same in every component.
Order == <<"hdm_decoder", "link", "ras", "bi_decoder", "bi_route_table">>
Has(type) ==
  CASE type = "USP" -> {"hdm_decoder", "link", "ras", "bi_route_table"}
    [] type = "DSP" -> {"link", "ras", "bi_decoder"}
    [] type = "D2"  -> {"hdm_decoder", "link", "ras", "bi_decoder"}
Capabilities(type) == SelectSeq(Order, LAMBDA c : c \in Has(type))

StructureSize(decoders) ==
  [hdm_decoder |-> 16 + (32 * decoders), link |-> 64, ras |-> 96, bi_decoder |-> 12, bi_route_table |-> 12]

\* The headers: each gives a structure's id and where it begins.
CapabilityHeader(type, decoders) ==
  LET caps == Capabilities(type)
      Pointer[i \in 1 .. Len(caps)] ==
        IF i = 1 THEN 4 * (Len(caps) + 1)
        ELSE Pointer[i - 1] + StructureSize(decoders)[caps[i - 1]]
  IN [i \in 1 .. Len(caps) |-> [id |-> CapabilityId[caps[i]], pointer |-> Pointer[i]]]

\* The bus driver's map, from a capability's id to where it begins.
CachememRegisters(type, decoders) ==
  LET headers == CapabilityHeader(type, decoders)
      ids == {headers[i].id : i \in DOMAIN headers}
  IN [id \in ids |-> headers[CHOOSE i \in DOMAIN headers : headers[i].id = id].pointer]

\* The driver reads the structure's first double word, which is the capability
\* register, for a bit of the second, the control register.
GetBiEnable(type, decoders) ==
  LET found == CachememRegisters(type, decoders) IN
  /\ CapabilityId.bi_decoder \in DOMAIN found
  /\ LET first == BiDecoder(type)[1] IN TestBit(first, Reset(first), 1)
=============================================================================
