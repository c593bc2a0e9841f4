---------------------------- MODULE HdmRegisters ----------------------------
(***************************************************************************)
(* The registers of HDM decoders (hdm_decoder_capability.py) and how the   *)
(* host's bus driver programs one (cxl_bus_driver.py): it writes the       *)
(* range, and then a control register whose commit bit makes the component *)
(* take over what the registers hold.                                      *)
(***************************************************************************)
EXTENDS HdmDecoder, Registers

CONSTANT RangeUnit  \* 2^28: the lower bits of a base or a size cannot be written

ASSUME RangeUnitAssumption == RangeUnit \in Nat \ {0}

\* CxlHdmDecoderControlRegister of a component whose decoders can do
\* back-invalidation and not UIO, as all that exist
ControlLayout ==
  [interleave_granularity |-> BitField(0, 3, "RWL", 0),
   interleave_ways |-> BitField(4, 7, "RWL", 0),
   lock_on_commit |-> BitField(8, 8, "RWL", 0),
   commit |-> BitField(9, 9, "RWL", 0),
   committed |-> BitField(10, 10, "RO", 0),
   error_not_committed |-> BitField(11, 11, "RO", 0),
   target_range_type |-> BitField(12, 12, "RWL", 1),
   bi |-> BitField(13, 13, "RWL", 0),
   uio |-> BitField(14, 14, "RO", 0),
   reserved |-> BitField(15, 31, "RESERVED", 0)]

\* The eight target registers of a switch's decoder, or none for a device's
NoTargets(switch) == IF switch THEN [i \in 1 .. 8 |-> 0] ELSE <<>>

\* CxlHdmDecoderItem, and the decoder of the manager that a commit fills.
Item(switch) ==
  [base |-> 0, size |-> 0, control |-> Reset(ControlLayout), targets |-> NoTargets(switch),
   decoder |-> NoDecoder]
Structure(switch, count) == [i \in 1 .. count |-> Item(switch)]
Committed(item) == item.control.committed = 1

\* Writes to the range registers lose the lower bits.
Whole(n) == n - (n % RangeUnit)
WriteBase(item, base) == [item EXCEPT !.base = Whole(base)]
WriteSize(item, size) == [item EXCEPT !.size = Whole(size)]

\* The host's list of targets, zero past its end; a device has none.
Padded(list) == [i \in 1 .. 8 |-> IF i <= Len(list) THEN list[i] ELSE 0]
WriteTargets(item, list) == [item EXCEPT !.targets = IF @ = <<>> THEN @ ELSE Padded(list)]

\* handle_commit: the manager never refuses.
TakeOver(item, control) ==
  [item EXCEPT !.decoder = Decoder(item.base, item.size, control.interleave_granularity,
                                   control.interleave_ways, item.targets)]

\* Nothing is ever locked: as the commit bit goes back to zero, a later write
\* can commit again.
Acknowledged(control) == [control EXCEPT !.commit = 0, !.committed = 1, !.error_not_committed = 0]

WriteControl(item, value) ==
  LET written == WriteBytes(ControlLayout, item.control, value) IN
  IF item.control.commit = 0 /\ written.commit = 1 THEN [TakeOver(item, written) EXCEPT !.control = Acknowledged(written)]
  ELSE [item EXCEPT !.control = written]

\* What the driver writes: the bits it does not name are zero.
ControlValue(ig, iw) ==
  [f \in DOMAIN ControlLayout |->
     CASE f = "interleave_granularity" -> ig
       [] f = "interleave_ways" -> iw
       [] f = "commit" -> 1
       [] OTHER -> 0]

\* configure_hdm_decoder_switch and configure_hdm_decoder_device
Configure(item, base, size, ig, iw, list) ==
  WriteControl(WriteSize(WriteBase(WriteTargets(item, list), base), size), ControlValue(ig, iw))

\* _get_next_available_decoder_index
FreeDecoders(items) == {i \in DOMAIN items : ~Committed(items[i])}

\* The decoders of the manager
DecodersOf(items) == [i \in DOMAIN items |-> items[i].decoder]
=============================================================================
