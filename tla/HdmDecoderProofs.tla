-------------------------- MODULE HdmDecoderProofs --------------------------
(***************************************************************************)
(* What the address decoders of HdmDecoder promise, for every granularity, *)
(* every number of ways that is a power of two, and every range; and what  *)
(* the registers of HdmRegisters promise the host that programs a decoder. *)
(***************************************************************************)
EXTENDS HdmRegisters, TLAPS

----------------------------------------------------------------------------
(* Division by the granule and by the number of ways.                      *)

LEMMA Euclid ==
  ASSUME NEW g \in Nat, g > 0, NEW r \in Nat, r < g, NEW q \in Nat
  PROVE (r + (g * q)) % g = r /\ (r + (g * q)) \div g = q
OBVIOUS

\* Remainder and quotient determine a number.
LEMMA Rebuilt ==
  ASSUME NEW o \in Nat, NEW p \in Nat, NEW g \in Nat, g > 0,
         o % g = p % g, o \div g = p \div g
  PROVE o = p
OBVIOUS

LEMMA DivMultiple ==
  ASSUME NEW g \in Nat, g > 0, NEW o \in Nat, NEW m \in Nat
  PROVE ((g * m) + o) \div g = m + (o \div g) /\ ((g * m) + o) % g = o % g
<1> DEFINE r == o % g
           q == o \div g
<1>1. r \in Nat /\ r < g /\ q \in Nat /\ o = r + (g * q)
  OBVIOUS
<1>2. (g * m) + o = r + (g * (m + q))
  BY <1>1
<1>3. m + q \in Nat
  BY <1>1
<1> HIDE DEF r, q
<1>4. (r + (g * (m + q))) % g = r /\ (r + (g * (m + q))) \div g = m + q
  BY <1>1, <1>3, Euclid
<1> QED
  BY <1>2, <1>4 DEF r, q

LEMMA GranulePositive ==
  ASSUME NEW ig \in IgCodes, NEW iw \in PowerWays
  PROVE Granule(ig) \in Nat /\ Granule(ig) > 0 /\ Pow2(iw) \in Nat /\ Pow2(iw) > 0
BY DEF Granule, Pow2, IgCodes, PowerWays

----------------------------------------------------------------------------

\* A decoder of an interleave set: its range starts at a multiple of what
\* one turn over all its ways takes.
Aligned(d) ==
  /\ d.base \in Nat /\ d.size \in Nat /\ d.ig \in IgCodes /\ d.iw \in PowerWays
  /\ \E k \in Nat : d.base = Granule(d.ig) * (Pow2(d.iw) * k)

TargetIndex(d, hpa) == TargetIndexOf(d.iw, hpa \div Granule(d.ig))

\* Two addresses that SwitchHdmDecoder sends to the same way and that
\* DeviceHdmDecoder turns into the same device address are the same address:
\* the switch looks at the address and the device at its offset, and still
\* no two host addresses share a byte of memory.
THEOREM OneHpaPerByte ==
  ASSUME NEW d, Aligned(d), NEW h1 \in Nat, NEW h2 \in Nat,
         IsHpaInRange(d, h1), IsHpaInRange(d, h2),
         TargetIndex(d, h1) = TargetIndex(d, h2), GetDpa(d, h1) = GetDpa(d, h2)
  PROVE h1 = h2
<1> DEFINE g == Granule(d.ig)
           n == Pow2(d.iw)
           o1 == h1 - d.base
           o2 == h2 - d.base
           x1 == o1 \div g
           x2 == o2 \div g
<1>1. /\ g \in Nat /\ g > 0 /\ n \in Nat /\ n > 0 /\ d.base \in Nat
      /\ d.iw \in PowerWays
  BY GranulePositive DEF Aligned
<1>2. o1 \in Nat /\ o2 \in Nat
  BY <1>1 DEF Aligned, IsHpaInRange
<1>3. PICK k \in Nat : d.base = g * (n * k)
  BY DEF Aligned
<1> HIDE DEF g, n
<1>4. x1 \in Nat /\ x2 \in Nat
  BY <1>1, <1>2
<1>5. h1 \div g = (n * k) + x1 /\ h2 \div g = (n * k) + x2
  <2>1. n * k \in Nat
    BY <1>1
  <2>2. h1 = (g * (n * k)) + o1 /\ h2 = (g * (n * k)) + o2
    BY <1>1, <1>2, <1>3
  <2> HIDE DEF o1, o2
  <2>3. ((g * (n * k)) + o1) \div g = (n * k) + (o1 \div g)
    BY <1>1, <1>2, <2>1, DivMultiple
  <2>4. ((g * (n * k)) + o2) \div g = (n * k) + (o2 \div g)
    BY <1>1, <1>2, <2>1, DivMultiple
  <2> QED
    BY <2>2, <2>3, <2>4
<1>6. x1 % n = x2 % n
  <2>1. TargetIndex(d, h1) = (h1 \div g) % n /\ TargetIndex(d, h2) = (h2 \div g) % n
    BY <1>1 DEF TargetIndex, TargetIndexOf, g, n
  <2> HIDE DEF x1, x2
  <2>2. ((n * k) + x1) % n = x1 % n /\ ((n * k) + x2) % n = x2 % n
    BY <1>1, <1>4, DivMultiple
  <2> QED
    BY <1>5, <2>1, <2>2
<1>7. o1 % g = o2 % g /\ x1 \div n = x2 \div n
  <2>1. GetDpa(d, h1) = (o1 % g) + (g * (x1 \div n)) /\ GetDpa(d, h2) = (o2 % g) + (g * (x2 \div n))
    BY <1>1 DEF GetDpa, DpaHigh, g, n
  <2>2. o1 % g \in Nat /\ o1 % g < g /\ o2 % g \in Nat /\ o2 % g < g
    BY <1>1, <1>2
  <2>3. x1 \div n \in Nat /\ x2 \div n \in Nat
    BY <1>1, <1>4
  <2> HIDE DEF o1, o2, x1, x2
  <2>4. ((o1 % g) + (g * (x1 \div n))) % g = o1 % g /\ ((o1 % g) + (g * (x1 \div n))) \div g = x1 \div n
    BY <1>1, <2>2, <2>3, Euclid
  <2>5. ((o2 % g) + (g * (x2 \div n))) % g = o2 % g /\ ((o2 % g) + (g * (x2 \div n))) \div g = x2 \div n
    BY <1>1, <2>2, <2>3, Euclid
  <2> QED
    BY <2>1, <2>4, <2>5
<1>8. x1 = x2
  BY <1>1, <1>4, <1>6, <1>7, Rebuilt
<1>9. o1 = o2
  BY <1>1, <1>2, <1>7, <1>8, Rebuilt
<1> QED
  BY <1>1, <1>2, <1>9 DEF o1, o2

\* A range of s turns over all ways takes s granules of every device: no
\* address is decoded past the end of the device's part.
THEOREM DpaInDevice ==
  ASSUME NEW d, Aligned(d), NEW s \in Nat, d.size = Granule(d.ig) * (Pow2(d.iw) * s),
         NEW h \in Nat, IsHpaInRange(d, h)
  PROVE GetDpa(d, h) \in 0 .. (Granule(d.ig) * s) - 1
<1> DEFINE g == Granule(d.ig)
           n == Pow2(d.iw)
           o == h - d.base
           x == o \div g
           y == x \div n
<1>1. g \in Nat /\ g > 0 /\ n \in Nat /\ n > 0 /\ d.base \in Nat /\ d.iw \in PowerWays
  BY GranulePositive DEF Aligned
<1>2. o \in Nat /\ o < g * (n * s)
  BY <1>1 DEF IsHpaInRange
<1>3. GetDpa(d, h) = (o % g) + (g * y)
  BY <1>1 DEF GetDpa, DpaHigh
<1> HIDE DEF g, n, o
<1>4. x \in Nat /\ o = (o % g) + (g * x) /\ o % g \in Nat /\ o % g < g
  BY <1>1, <1>2
<1> HIDE DEF x
<1>5. y \in Nat /\ x = (x % n) + (n * y) /\ x % n \in Nat
  BY <1>1, <1>4
<1> HIDE DEF y
<1>6. y < s
  <2>1. n * s \in Nat
    BY <1>1
  <2>2. x < n * s
    BY <1>1, <1>2, <1>4, <2>1
  <2>3. n * y < n * s
    BY <1>1, <1>5, <2>1, <2>2
  <2> QED
    BY <1>1, <1>5, <2>3
<1>7. (o % g) + (g * y) < g * (y + 1) /\ g * (y + 1) <= g * s
  BY <1>1, <1>4, <1>5, <1>6
<1> QED
  BY <1>1, <1>3, <1>4, <1>5, <1>7 DEF g

----------------------------------------------------------------------------
(* Programming.                                                            *)

\* The registers of a decoder between two writes of its host: the commit bit
\* reads as zero, and the read-only bits are as the component has set them.
Quiet(item) ==
  /\ item \in [base : Nat, size : Nat, control : [DOMAIN ControlLayout -> Nat],
               targets : {<<>>} \cup [1 .. 8 -> Nat], decoder : {item.decoder}]
  /\ item.control["commit"] = 0

LEMMA ControlFields ==
  /\ DOMAIN ControlLayout =
       {"interleave_granularity", "interleave_ways", "lock_on_commit", "commit", "committed",
        "error_not_committed", "target_range_type", "bi", "uio", "reserved"}
  /\ \A f \in DOMAIN ControlLayout :
       IsReadonly(ControlLayout[f]) <=> f \in {"committed", "error_not_committed", "uio"}
BY DEF ControlLayout, BitField, IsReadonly

\* A control register written by the host takes what the driver asks for, but
\* for the bits that are the component's.
LEMMA ControlWritten ==
  ASSUME NEW control \in [DOMAIN ControlLayout -> Nat], NEW ig \in Nat, NEW iw \in Nat
  PROVE LET w == WriteBytes(ControlLayout, control, ControlValue(ig, iw)) IN
        /\ w \in [DOMAIN ControlLayout -> Nat]
        /\ w["commit"] = 1 /\ w["interleave_granularity"] = ig /\ w["interleave_ways"] = iw
<1> DEFINE w == WriteBytes(ControlLayout, control, ControlValue(ig, iw))
<1>1. \A f \in DOMAIN ControlLayout :
        w[f] = IF f \in {"committed", "error_not_committed", "uio"} THEN control[f]
               ELSE ControlValue(ig, iw)[f]
  BY ControlFields DEF WriteBytes
<1>2. \A f \in DOMAIN ControlLayout :
        ControlValue(ig, iw)[f] = CASE f = "interleave_granularity" -> ig
                                    [] f = "interleave_ways" -> iw
                                    [] f = "commit" -> 1
                                    [] OTHER -> 0
  BY DEF ControlValue
<1>3. w = [f \in DOMAIN ControlLayout |-> w[f]]
  BY DEF WriteBytes
<1> HIDE DEF w
<1>4. \A f \in DOMAIN ControlLayout : w[f] \in Nat
  BY <1>1, <1>2, ControlFields
<1>5. w["commit"] = 1 /\ w["interleave_granularity"] = ig /\ w["interleave_ways"] = iw
  BY <1>1, <1>2, ControlFields
<1> QED
  BY <1>3, <1>4, <1>5 DEF w

\* What the writes make of registers given one by one.
Registers5(b, s, c, t, d) == [base |-> b, size |-> s, control |-> c, targets |-> t, decoder |-> d]

LEMMA TargetsWritten ==
  ASSUME NEW b, NEW s, NEW c, NEW t, NEW d, NEW list
  PROVE WriteTargets(Registers5(b, s, c, t, d), list) =
          Registers5(b, s, c, IF t = <<>> THEN <<>> ELSE Padded(list), d)
BY DEF WriteTargets, Registers5

LEMMA RangeWritten ==
  ASSUME NEW b, NEW s, NEW c, NEW t, NEW d, NEW base \in Nat, NEW size \in Nat,
         base % RangeUnit = 0, size % RangeUnit = 0
  PROVE WriteSize(WriteBase(Registers5(b, s, c, t, d), base), size) = Registers5(base, size, c, t, d)
<1>1. Whole(base) = base /\ Whole(size) = size
  BY RangeUnitAssumption DEF Whole
<1>2. WriteBase(Registers5(b, s, c, t, d), base) = Registers5(base, s, c, t, d)
  BY <1>1 DEF WriteBase, Registers5
<1>3. WriteSize(Registers5(base, s, c, t, d), size) = Registers5(base, size, c, t, d)
  BY <1>1 DEF WriteSize, Registers5
<1> QED
  BY <1>2, <1>3

LEMMA TakenOver ==
  ASSUME NEW b, NEW s, NEW c, NEW t, NEW d, NEW w
  PROVE TakeOver(Registers5(b, s, c, t, d), w) =
          Registers5(b, s, c, t, Decoder(b, s, w.interleave_granularity, w.interleave_ways, t))
BY DEF TakeOver, Registers5

LEMMA ControlReplaced ==
  ASSUME NEW b, NEW s, NEW c, NEW t, NEW d, NEW item, item = Registers5(b, s, c, t, d), NEW a
  PROVE [item EXCEPT !.control = a] = Registers5(b, s, a, t, d)
BY DEF Registers5

\* Whatever a decoder held before, committed or not, once the bus driver has
\* programmed it, it is committed, decodes the range and the ways asked for,
\* and can be programmed again: the writes come in an order in which nothing
\* of them is lost (configure_hdm_decoder_switch, configure_hdm_decoder_device).
THEOREM ConfigureCommits ==
  ASSUME NEW item, Quiet(item), NEW base \in Nat, NEW size \in Nat, NEW list,
         base % RangeUnit = 0, size % RangeUnit = 0, NEW ig \in Nat, NEW iw \in Nat
  PROVE LET done == Configure(item, base, size, ig, iw, list) IN
        /\ Committed(done) /\ done.control.commit = 0
        /\ done.decoder = Decoder(base, size, ig, iw, IF item.targets = <<>> THEN <<>> ELSE Padded(list))
<1> DEFINE t == IF item.targets = <<>> THEN <<>> ELSE Padded(list)
           r == Registers5(base, size, item.control, t, item.decoder)
           w == WriteBytes(ControlLayout, item.control, ControlValue(ig, iw))
           c == Acknowledged(w)
           done == Configure(item, base, size, ig, iw, list)
<1>1. item = Registers5(item.base, item.size, item.control, item.targets, item.decoder)
  BY DEF Quiet, Registers5
<1>2. WriteSize(WriteBase(WriteTargets(item, list), base), size) = r
  <2>1. WriteTargets(item, list) = Registers5(item.base, item.size, item.control, t, item.decoder)
    BY <1>1, TargetsWritten
  <2> HIDE DEF t
  <2> QED
    BY <2>1, RangeWritten
<1>3. item.control \in [DOMAIN ControlLayout -> Nat] /\ item.control.commit = 0
  BY DEF Quiet
<1>4. /\ w \in [DOMAIN ControlLayout -> Nat]
      /\ w.commit = 1 /\ w.interleave_granularity = ig /\ w.interleave_ways = iw
  BY <1>3, ControlWritten
<1>5. r.control = item.control
  BY DEF Registers5
<1>6. done = [TakeOver(r, w) EXCEPT !.control = c]
  <2> HIDE DEF r
  <2> QED
    BY <1>2, <1>3, <1>4, <1>5 DEF Configure, WriteControl
<1> HIDE DEF t, w, c, done
<1>7. done = Registers5(base, size, c, t, Decoder(base, size, ig, iw, t))
  <2>1. TakeOver(r, w) = Registers5(base, size, item.control, t, Decoder(base, size, ig, iw, t))
    BY <1>4, TakenOver
  <2> HIDE DEF r
  <2>2. [TakeOver(r, w) EXCEPT !.control = c] =
          Registers5(base, size, c, t, Decoder(base, size, ig, iw, t))
    BY <2>1, ControlReplaced
  <2> QED
    BY <1>6, <2>2
<1>8. c.commit = 0 /\ c.committed = 1
  BY <1>4, ControlFields DEF Acknowledged, c
<1>9. done.control = c /\ done.decoder = Decoder(base, size, ig, iw, t)
  BY <1>7 DEF Registers5
<1>10. Committed(done) /\ done.control.commit = 0
  BY <1>8, <1>9 DEF Committed
<1> QED
  BY <1>9, <1>10 DEF done, t
=============================================================================
