----------------------------- MODULE HdmDecoder -----------------------------
(***************************************************************************)
(* The address decoders of hdm_decoder.py: how a host physical address     *)
(* (HPA) selects a target port of a switch or an edge PID of a PBR fabric, *)
(* and how it becomes a device physical address (DPA).                     *)
(*                                                                         *)
(* A decoder is the record that a commit copies from the registers:        *)
(* [base, size, ig, iw, targets].  Bits are cut out with \div and %.       *)
(***************************************************************************)
EXTENDS Naturals, Sequences

\* INTERLEAVE_GRANULARITY and INTERLEAVE_WAYS: the encodings that exist.
IgCodes == 0 .. 6
PowerWays == 0 .. 4
ThreeWays == 8 .. 10
IwCodes == PowerWays \cup ThreeWays

Pow2(n) == <<1, 2, 4, 8, 16, 32, 64>>[n + 1]

\* 1 << (ig + 8)
Granule(ig) == 256 * Pow2(ig)

\* IW_TO_WAYS.calc
Ways(iw) == IF iw \in PowerWays THEN Pow2(iw) ELSE 3 * Pow2(iw - 8)

\* get_decoder_count
DecoderCount(code) ==
  CASE code = 0 -> 1
    [] code \in 1 .. 8 -> 2 * code
    [] code \in 9 .. 12 -> (4 * (code - 9)) + 20

Decoder(base, size, ig, iw, targets) ==
  [base |-> base, size |-> size, ig |-> ig, iw |-> iw, targets |-> targets]
NoDecoder == Decoder(0, 0, 0, 0, <<>>)

IsHpaInRange(d, hpa) == d.base <= hpa /\ hpa < d.base + d.size

(***************************************************************************)
(* The switch's decoder takes the granule's number in the address itself,  *)
(* the device's decoder in the offset from its base.  For 3, 6 and 12 ways *)
(* the switch indexes with 1 << iw >= 256: past the eight targets for most *)
(* addresses (an IndexError, here None).                                   *)
(***************************************************************************)
TargetIndexOf(iw, granule) == granule % (IF iw \in PowerWays THEN Pow2(iw) ELSE 256 * Pow2(iw - 8))

\* (Mutant: the target is chosen by the bits above the granule's.)
GetTargetAbove(d, hpa, none) ==
  LET i == TargetIndexOf(d.iw, (hpa \div Granule(d.ig)) \div 2) IN
  IF i < Len(d.targets) THEN d.targets[i + 1] ELSE none
GetTarget(d, hpa, none) ==
  LET i == TargetIndexOf(d.iw, hpa \div Granule(d.ig)) IN
  IF i < Len(d.targets) THEN d.targets[i + 1] ELSE none

DpaHigh(iw, granule) ==
  IF iw \in PowerWays THEN granule \div Pow2(iw) ELSE (granule \div Pow2(iw - 8)) \div 3

GetDpa(d, hpa) ==
  LET offset == hpa - d.base
      g == Granule(d.ig)
  IN (offset % g) + (g * DpaHigh(d.iw, offset \div g))

\* get_decoder_from_hpa: the first whose range holds the address, or none.
DecoderFromHpa(decoders, hpa, none) ==
  LET hits == {i \in DOMAIN decoders : IsHpaInRange(decoders[i], hpa)} IN
  IF hits = {} THEN none ELSE decoders[CHOOSE i \in hits : \A j \in hits : i <= j]

\* SwitchHdmDecoderManager.get_target, PbrHdmDecoderManager.get_dpid
ManagerTarget(decoders, hpa, none) ==
  LET d == DecoderFromHpa(decoders, hpa, none) IN
  IF d = none THEN none ELSE GetTarget(d, hpa, none)

\* DeviceHdmDecoderManager.get_dpa
ManagerDpa(decoders, hpa, none) ==
  LET d == DecoderFromHpa(decoders, hpa, none) IN
  IF d = none THEN none ELSE GetDpa(d, hpa)
=============================================================================
