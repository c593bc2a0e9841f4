------------------------- MODULE CxlCacheSnoopProofs -------------------------
(***************************************************************************)
(* Proofs about the snoops of CxlCache, for any number of devices, lines,  *)
(* values and ways, and any program: the snoop filter has every line a     *)
(* device may use, a device that may write a line without asking is alone  *)
(* with it, and the bridge never reaches an answer it does not support.    *)
(*                                                                         *)
(* The bridge asks all devices of a list and takes as many answers, and    *)
(* for each it strikes the last device of the list off the list and off    *)
(* the snoop filter, whichever device answered.  What keeps this right is  *)
(* a count: the devices that owe an answer and the answers that wait are   *)
(* as many as the list has devices (Account), so that all have answered    *)
(* when the list is empty.  And the bridge serves one request at a time    *)
(* while a device has one request under way, in one place (Pipe), so that  *)
(* what a device has been granted but not yet received is known (Holds,    *)
(* Owns), and is never lost sight of by a snoop, which cannot overtake it. *)
(*                                                                         *)
(* The last part is about the data (OneMemory): with one device, one       *)
(* writer per line and no replacement at the host, CxlCache implements     *)
(* CoherentMemory.  The invariant (Facts) says where the last value stored *)
(* in a line is (Stored), that whatever can become somebody's copy is that *)
(* value (Fresh, GoFresh, Flushing, Carried), and which request of the     *)
(* bridge the one packet of data on its way belongs to (Moving).           *)
(***************************************************************************)
EXTENDS CxlCacheProofs, FiniteSetTheorems

Writes        == {"WRITE_BACK", "WRITE_BACK_CLEAN"}
Evicts        == {"CLEAN_EVICT_NO_DATA", "DIRTY_EVICT"}
Invalidations == {"SNP_INV", "RD_OWN_NO_DATA"}
Reads         == {"SNP_DATA", "RD_SHARED"}
Gone          == {"RSP_I_HIT_I", "RSP_I_HIT_SE"}
GoOf          == [WRITE_BACK |-> "GO_WRITE_PULL", WRITE_BACK_CLEAN |-> "GO_I",
                  SNP_DATA |-> "GO_S", SNP_INV |-> "GO_E"]

----------------------------------------------------------------------------
(* The packets of a kind that are in a queue, and when there is one only.  *)

Of(q, ch) == {q[i] : i \in {j \in DOMAIN q : q[j].ch = ch}}
Once(q, ch) == \A i, j \in DOMAIN q : q[i].ch = ch /\ q[j].ch = ch => i = j
OfDevice(q, d) == {q[i] : i \in {j \in DOMAIN q : q[j].dev = d}}
OnceOfDevice(q, d) == \A i, j \in DOMAIN q : q[i].dev = d /\ q[j].dev = d => i = j

LEMMA OfEmpty == \A ch : Of(<<>>, ch) = {} /\ Once(<<>>, ch)
BY DEF Of, Once

LEMMA OfAppend ==
  ASSUME NEW S, NEW q \in Seq(S), NEW p \in S, NEW ch
  PROVE /\ Of(Append(q, p), ch) = IF p.ch = ch THEN Of(q, ch) \cup {p} ELSE Of(q, ch)
        /\ Once(q, ch) /\ (p.ch = ch => Of(q, ch) = {}) => Once(Append(q, p), ch)
<1>1. /\ DOMAIN Append(q, p) = DOMAIN q \cup {Len(q) + 1} /\ Len(q) + 1 \notin DOMAIN q
      /\ \A i \in DOMAIN q : Append(q, p)[i] = q[i]
      /\ Append(q, p)[Len(q) + 1] = p
  OBVIOUS
<1> DEFINE r == Append(q, p)
<1>2. Of(r, ch) = IF p.ch = ch THEN Of(q, ch) \cup {p} ELSE Of(q, ch)
  <2> HIDE DEF r
  <2> QED
    BY <1>1 DEF Of, r
<1>3. ASSUME Once(q, ch), p.ch = ch => Of(q, ch) = {}
      PROVE Once(r, ch)
  <2>1. \A i \in DOMAIN q : p.ch = ch => q[i].ch # ch
    BY <1>3 DEF Of
  <2> HIDE DEF r
  <2> QED
    BY <1>1, <1>3, <2>1 DEF Once, r
<1> QED
  BY <1>2, <1>3

LEMMA OfTail ==
  ASSUME NEW S, NEW q \in Seq(S), q # <<>>, NEW ch
  PROVE /\ Of(q, ch) = IF Head(q).ch = ch THEN Of(Tail(q), ch) \cup {Head(q)} ELSE Of(Tail(q), ch)
        /\ Once(q, ch) => Once(Tail(q), ch)
        /\ Once(q, ch) /\ Head(q).ch = ch => Of(Tail(q), ch) = {}
<1> DEFINE t == Tail(q)
<1>1. /\ DOMAIN q = 1 .. Len(q) /\ Len(q) \in Nat /\ Len(q) >= 1 /\ DOMAIN t = 1 .. Len(q) - 1
      /\ \A i \in DOMAIN t : t[i] = q[i + 1] /\ i + 1 \in DOMAIN q
      /\ Head(q) = q[1] /\ 1 \in DOMAIN q
      /\ \A i \in DOMAIN q : i # 1 => i - 1 \in DOMAIN t /\ t[i - 1] = q[i]
  OBVIOUS
<1> HIDE DEF t
<1>2. Of(q, ch) = IF Head(q).ch = ch THEN Of(t, ch) \cup {Head(q)} ELSE Of(t, ch)
  <2>1. \A e \in Of(t, ch) : e \in Of(q, ch)
    BY <1>1 DEF Of
  <2>2. \A e \in Of(q, ch) : (e = Head(q) /\ Head(q).ch = ch) \/ e \in Of(t, ch)
    BY <1>1 DEF Of
  <2>3. Head(q).ch = ch => Head(q) \in Of(q, ch)
    BY <1>1 DEF Of
  <2> QED
    BY <2>1, <2>2, <2>3
<1>3. ASSUME Once(q, ch) PROVE Once(t, ch)
  <2> SUFFICES ASSUME NEW i \in DOMAIN t, NEW j \in DOMAIN t, t[i].ch = ch, t[j].ch = ch
               PROVE i = j
    BY DEF Once
  <2>1. i + 1 = j + 1
    BY <1>1, <1>3 DEF Once
  <2> QED
    BY <1>1, <2>1
<1>4. ASSUME Once(q, ch), Head(q).ch = ch PROVE Of(t, ch) = {}
  <2> SUFFICES ASSUME NEW i \in DOMAIN t, t[i].ch = ch PROVE FALSE
    BY DEF Of
  <2>1. i + 1 = 1
    BY <1>1, <1>4 DEF Once
  <2> QED
    BY <1>1, <2>1
<1> QED
  BY <1>2, <1>3, <1>4 DEF t

----------------------------------------------------------------------------
(* Where the packets of a device are.                                      *)

Reqs(d)    == Of(up[d], "req")
Rsps(d)    == Of(up[d], "rsp")
Waiting(d) == OfDevice(d2hReq, d)

\* The answer to the device's request, and a snoop, on the way down
Go(d)      == down[d] # <<>> /\ down[d][1].ch = "rsp"
LastOf(q)  == q[Len(q)]
Snooped(d) == down[d] # <<>> /\ LastOf(down[d]).ch = "req"

Failed(d)  == dcoh[d].state = "FAILED"

\* The bridge serves the device's request; an evict is answered half-way.
Working(d) ==
  /\ bridge.state # "INIT" /\ bridge.src = d
  /\ bridge.state = "DONE" => bridge.type \notin Evicts

\* A request of a device is in one place at a time, and the same everywhere.
Places(d) ==
  /\ Once(up[d], "req") /\ OnceOfDevice(d2hReq, d)
  /\ dcoh[d].state \in {"INIT", "START"} =>
       Reqs(d) = {} /\ Waiting(d) = {} /\ ~Working(d) /\ ~Go(d)
  /\ Reqs(d) # {} => Waiting(d) = {} /\ ~Working(d) /\ ~Go(d)
  /\ Waiting(d) # {} => ~Working(d) /\ ~Go(d)
  /\ Working(d) => ~Go(d)

\* At most an answer and, behind it, a snoop
DownShape(d) ==
  \/ down[d] = <<>>
  \/ Len(down[d]) = 1
  \/ Len(down[d]) = 2 /\ down[d][1].ch = "rsp" /\ down[d][2].ch = "req"

OwnRequest(d, r) ==
  r.dev = d /\ r.addr = dcoh[d].packet.addr /\ r.opcode = D2HOpcode[dcoh[d].packet.type]

Same(d) ==
  /\ \A r \in Reqs(d) \cup Waiting(d) : OwnRequest(d, r)
  /\ Working(d) => /\ bridge.addr = dcoh[d].packet.addr
                   /\ bridge.type = D2HOpcode[dcoh[d].packet.type]
  /\ Go(d) => down[d][1].opcode = GoOf[dcoh[d].packet.type]

Pipe(d) == Places(d) /\ DownShape(d) /\ Same(d)

----------------------------------------------------------------------------
(* Who owes the bridge an answer to the snoops it has sent.                *)

Owes(d) == Snooped(d) \/ Rsps(d) # {} \/ Failed(d)
Owing == {d \in Devices : Owes(d)}

RoundSnoop == IF bridge.type \in Invalidations THEN "SNP_INV" ELSE "SNP_DATA"

\* A device owes one answer: the snoop is on its way to it, or the answer
\* back, or the DCOH has died of it.
OneDebt(d) ==
  /\ Once(up[d], "rsp")
  /\ Snooped(d) => Rsps(d) = {} /\ ~Failed(d)
  /\ Rsps(d) # {} => ~Failed(d)
  /\ Snooped(d) => LastOf(down[d]).addr = bridge.addr /\ LastOf(down[d]).opcode = RoundSnoop
  /\ bridge.type \in Invalidations => \A r \in Rsps(d) : r.opcode \in Gone

Quiet == bridge.state # "WAIT" => Owing = {} /\ d2hRsp = <<>>

Counted ==
  bridge.state = "WAIT" =>
    /\ bridge.type \in Invalidations \cup Reads
    /\ Cardinality(Owing) + Len(d2hRsp) = Cardinality(bridge.list)
    /\ bridge.list = Sharers(bridge.addr, bridge.src)
    /\ bridge.type \in Reads => Cardinality(bridge.list) = 1 /\ Owing \subseteq bridge.list
    /\ bridge.type \in Invalidations => \A i \in DOMAIN d2hRsp : d2hRsp[i].opcode \in Gone

\* What the bridge knows when it has all answers
Concluded ==
  bridge.state = "DONE" =>
    /\ bridge.type \in Invalidations => Sharers(bridge.addr, bridge.src) = {}
    /\ bridge.src = Host =>
         /\ bridge.type \in Invalidations \cup Reads
         /\ bridge.rsp \in {"RSP_I", "RSP_S", "RSP_M"}
         /\ bridge.type \in Invalidations => bridge.rsp = "RSP_I"

Account == (\A d \in Devices : OneDebt(d)) /\ Quiet /\ Counted /\ Concluded

----------------------------------------------------------------------------
(* What a device has, or has been granted.                                 *)

LiveOwned(a, x) == Live(a, x) /\ cache[a][x].state \in {"E", "M"}

Granted(d, x, types) == Go(d) /\ dcoh[d].packet.addr = x /\ dcoh[d].packet.type \in types
Holds(d, x) == Live(d, x) \/ Granted(d, x, {"SNP_DATA", "SNP_INV"})
Owns(d, x)  == LiveOwned(d, x) \/ Granted(d, x, {"SNP_INV"})

\* The snoop filter has what a device holds, unless the bridge struck it off
\* when another device answered: then this one has yet to.
Included ==
  \A d \in Devices, x \in Addrs : Holds(d, x) =>
    x \in sf[d] \/ (bridge.state = "WAIT" /\ bridge.addr = x /\ (Snooped(d) \/ Failed(d)))

Alone ==
  \A d \in Devices, x \in Addrs : Owns(d, x) =>
    /\ ~Live(Host, x)
    /\ \A e \in Devices \ {d} : ~Holds(e, x) /\ x \notin sf[e]

\* What a round of snoops has achieved: who has answered an invalidation does
\* not hold the line, who has answered a read does not own it, and who has
\* answered that it has no copy has none.
Asked == bridge.state \in {"WAIT", "DONE"}
AllGone ==
  Asked /\ bridge.type \in Invalidations =>
    \A d \in Devices \ {bridge.src}, x \in Addrs :
      Holds(d, x) /\ x = bridge.addr => Snooped(d) \/ Failed(d)
NoneOwns ==
  Asked /\ bridge.type \in Reads =>
    \A d \in Devices \ {bridge.src}, x \in Addrs :
      Owns(d, x) /\ x = bridge.addr => Snooped(d) \/ Failed(d)
AnsweredGone(d) ==
  \/ \E r \in Rsps(d) : r.opcode \in Gone
  \/ \E i \in DOMAIN d2hRsp : d2hRsp[i].opcode \in Gone
GoneMeansGone ==
  bridge.state = "WAIT" /\ bridge.type \in Reads =>
    \A d \in bridge.list, x \in Addrs : Holds(d, x) /\ x = bridge.addr => ~AnsweredGone(d)
Evicted ==
  bridge.state = "DONE" /\ bridge.type \in Evicts =>
    \A d \in Devices, x \in Addrs : Holds(d, x) => ~(d = bridge.src /\ x = bridge.addr)

Round == AllGone /\ NoneOwns /\ GoneMeansGone /\ Evicted

SnoopInv == (\A d \in Devices : Pipe(d)) /\ Account /\ Included /\ Alone /\ Round
Inv == TypeOK /\ RequestsPaired /\ SnoopInv

----------------------------------------------------------------------------
(* What the queues keep.                                                   *)

LEMMA OfDeviceAppend ==
  ASSUME NEW S, NEW q \in Seq(S), NEW p \in S, NEW d
  PROVE /\ OfDevice(Append(q, p), d) = IF p.dev = d THEN OfDevice(q, d) \cup {p} ELSE OfDevice(q, d)
        /\ OnceOfDevice(q, d) /\ (p.dev = d => OfDevice(q, d) = {}) => OnceOfDevice(Append(q, p), d)
<1>1. /\ DOMAIN Append(q, p) = DOMAIN q \cup {Len(q) + 1} /\ Len(q) + 1 \notin DOMAIN q
      /\ \A i \in DOMAIN q : Append(q, p)[i] = q[i]
      /\ Append(q, p)[Len(q) + 1] = p
  OBVIOUS
<1> DEFINE r == Append(q, p)
<1> HIDE DEF r
<1>2. OfDevice(r, d) = IF p.dev = d THEN OfDevice(q, d) \cup {p} ELSE OfDevice(q, d)
  BY <1>1 DEF OfDevice, r
<1>3. ASSUME OnceOfDevice(q, d), p.dev = d => OfDevice(q, d) = {}
      PROVE OnceOfDevice(r, d)
  <2>1. \A i \in DOMAIN q : p.dev = d => q[i].dev # d
    BY <1>3 DEF OfDevice
  <2> QED
    BY <1>1, <1>3, <2>1 DEF OnceOfDevice, r
<1> QED
  BY <1>2, <1>3 DEF r

LEMMA OfDeviceTail ==
  ASSUME NEW S, NEW q \in Seq(S), q # <<>>, NEW d
  PROVE /\ OfDevice(q, d) = IF Head(q).dev = d THEN OfDevice(Tail(q), d) \cup {Head(q)}
                                               ELSE OfDevice(Tail(q), d)
        /\ OnceOfDevice(q, d) => OnceOfDevice(Tail(q), d)
        /\ OnceOfDevice(q, d) /\ Head(q).dev = d => OfDevice(Tail(q), d) = {}
<1> DEFINE t == Tail(q)
<1>1. /\ DOMAIN q = 1 .. Len(q) /\ Len(q) \in Nat /\ Len(q) >= 1 /\ DOMAIN t = 1 .. Len(q) - 1
      /\ \A i \in DOMAIN t : t[i] = q[i + 1] /\ i + 1 \in DOMAIN q
      /\ Head(q) = q[1] /\ 1 \in DOMAIN q
      /\ \A i \in DOMAIN q : i # 1 => i - 1 \in DOMAIN t /\ t[i - 1] = q[i]
  OBVIOUS
<1> HIDE DEF t
<1>2. OfDevice(q, d) = IF Head(q).dev = d THEN OfDevice(t, d) \cup {Head(q)} ELSE OfDevice(t, d)
  <2>1. \A e \in OfDevice(t, d) : e \in OfDevice(q, d)
    BY <1>1 DEF OfDevice
  <2>2. \A e \in OfDevice(q, d) : (e = Head(q) /\ Head(q).dev = d) \/ e \in OfDevice(t, d)
    BY <1>1 DEF OfDevice
  <2>3. Head(q).dev = d => Head(q) \in OfDevice(q, d)
    BY <1>1 DEF OfDevice
  <2> QED
    BY <2>1, <2>2, <2>3
<1>3. ASSUME OnceOfDevice(q, d) PROVE OnceOfDevice(t, d)
  <2> SUFFICES ASSUME NEW i \in DOMAIN t, NEW j \in DOMAIN t, t[i].dev = d, t[j].dev = d
               PROVE i = j
    BY DEF OnceOfDevice
  <2>1. i + 1 = j + 1
    BY <1>1, <1>3 DEF OnceOfDevice
  <2> QED
    BY <1>1, <2>1
<1>4. ASSUME OnceOfDevice(q, d), Head(q).dev = d PROVE OfDevice(t, d) = {}
  <2> SUFFICES ASSUME NEW i \in DOMAIN t, t[i].dev = d PROVE FALSE
    BY DEF OfDevice
  <2>1. i + 1 = 1
    BY <1>1, <1>4 DEF OnceOfDevice
  <2> QED
    BY <1>1, <2>1
<1> QED
  BY <1>2, <1>3, <1>4 DEF t

LEMMA NoLength == ASSUME NEW S, NEW q \in Seq(S), Len(q) = 0 PROVE q = <<>>
OBVIOUS

LEMMA DownTyped ==
  ASSUME TypeOK, NEW d \in Devices
  PROVE /\ down[d] \in Seq(H2DReq \cup H2DRsp)
        /\ \A p \in H2DReq \cup H2DRsp : p.ch \in {"req", "rsp"}
        /\ down[d] # <<>> => Len(down[d]) >= 1
BY DEF TypeOK, H2DReq, H2DRsp

\* An answer is sent to a device that has nothing on its way.
LEMMA PutGo ==
  ASSUME TypeOK, NEW d \in Devices, down[d] = <<>>, NEW p \in H2DReq \cup H2DRsp, p.ch = "rsp",
         down'[d] = Append(down[d], p)
  PROVE DownShape(d)' /\ Go(d)' /\ ~Snooped(d)' /\ down'[d][1] = p
<1>1. down'[d] = <<p>>
  OBVIOUS
<1> QED
  BY <1>1 DEF DownShape, Go, Snooped, LastOf

LEMMA PutSnoop ==
  ASSUME TypeOK, NEW d \in Devices, DownShape(d), ~Snooped(d), NEW p \in H2DReq \cup H2DRsp,
         p.ch = "req",
         down'[d] = Append(down[d], p)
  PROVE /\ DownShape(d)' /\ Snooped(d)' /\ LastOf(down[d])' = p
        /\ Go(d)' <=> Go(d)
        /\ Go(d) => down'[d][1] = down[d][1]
<1> DEFINE q == down[d]
<1>1. q \in Seq(H2DReq \cup H2DRsp)
  BY DownTyped
<1>2. CASE q = <<>>
  <2>1. down'[d] = <<p>>
    BY <1>2
  <2> QED
    BY <1>2, <2>1 DEF DownShape, Go, Snooped, LastOf
<1>3. CASE q # <<>>
  <2>1. Len(q) \in Nat /\ Len(q) >= 1
    BY <1>1, <1>3
  <2>2. q[Len(q)] \in H2DReq \cup H2DRsp
    BY <1>1, <2>1
  <2>3. q[Len(q)].ch = "rsp"
    BY <2>2, <1>3, DownTyped DEF Snooped, LastOf
  <2>4. Len(q) = 1
    BY <1>3, <2>3 DEF DownShape
  <2>5. Len(down'[d]) = 2 /\ down'[d][1] = q[1] /\ down'[d][2] = p
    BY <1>1, <2>4, AppendProperties
  <2> QED
    BY <1>3, <2>3, <2>4, <2>5 DEF DownShape, Go, Snooped, LastOf
<1> QED
  BY <1>2, <1>3

LEMMA TakeGo ==
  ASSUME TypeOK, NEW d \in Devices, DownShape(d), NEW i \in DOMAIN down[d],
         FirstOf(down[d], i, "rsp"), down'[d] = RemoveAt(down[d], i)
  PROVE /\ i = 1 /\ Go(d) /\ ~Go(d)' /\ DownShape(d)'
        /\ Snooped(d)' <=> Snooped(d)
        /\ Snooped(d) => LastOf(down[d])' = LastOf(down[d])
<1> DEFINE q == down[d]
<1>1. q \in Seq(H2DReq \cup H2DRsp) /\ q # <<>> /\ Len(q) \in Nat /\ Len(q) >= 1 /\ q[i].ch = "rsp"
      /\ i \in 1 .. Len(q)
  BY DownTyped DEF FirstOf
<1>2. CASE Len(q) = 1
  <2>1. i = 1
    BY <1>1, <1>2
  <2>2. down'[d] = <<>>
    <3>1. SubSeq(q, 1, 0) = <<>> /\ SubSeq(q, 2, 1) = <<>>
      BY <1>1, SubSeqEmpty
    <3>2. down'[d] = <<>> \o <<>>
      BY <1>2, <2>1, <3>1 DEF RemoveAt
    <3> QED
      BY <3>2
  <2> QED
    BY <1>1, <1>2, <2>1, <2>2 DEF DownShape, Go, Snooped, LastOf
<1>3. CASE Len(q) # 1
  <2>1. Len(q) = 2 /\ q[1].ch = "rsp" /\ q[2].ch = "req"
    BY <1>1, <1>3 DEF DownShape
  <2>2. i = 1
    BY <1>1, <2>1
  <2>3. Len(down'[d]) = 1 /\ down'[d][1] = q[2]
    <3>1. SubSeq(q, 1, 0) = <<>>
      BY <1>1, SubSeqEmpty
    <3>2. /\ SubSeq(q, 2, 2) \in Seq(H2DReq \cup H2DRsp)
          /\ Len(SubSeq(q, 2, 2)) = 1 /\ SubSeq(q, 2, 2)[1] = q[2]
      BY <1>1, <2>1, SubSeqProperties
    <3>3. down'[d] = <<>> \o SubSeq(q, 2, 2)
      BY <2>1, <2>2, <3>1 DEF RemoveAt
    <3>4. down'[d] = SubSeq(q, 2, 2)
      BY <3>2, <3>3, ConcatEmptySeq
    <3> QED
      BY <3>2, <3>4
  <2> QED
    BY <1>1, <2>1, <2>2, <2>3 DEF DownShape, Go, Snooped, LastOf
<1> QED
  BY <1>2, <1>3

LEMMA TakeSnoop ==
  ASSUME TypeOK, NEW d \in Devices, DownShape(d), down[d] # <<>>, Head(down[d]).ch = "req",
         down'[d] = Tail(down[d])
  PROVE /\ Snooped(d) /\ ~Go(d) /\ LastOf(down[d]) = Head(down[d])
        /\ ~Snooped(d)' /\ ~Go(d)' /\ DownShape(d)'
<1> DEFINE q == down[d]
<1>1. q \in Seq(H2DReq \cup H2DRsp) /\ Len(q) \in Nat /\ Len(q) >= 1 /\ Head(q) = q[1]
  BY DownTyped
<1>2. Len(q) = 1
  BY <1>1 DEF DownShape
<1>3. down'[d] = <<>>
  <2>1. Len(Tail(q)) = 0 /\ Tail(q) \in Seq(H2DReq \cup H2DRsp)
    BY <1>1, <1>2, HeadTailProperties
  <2> QED
    BY <2>1, NoLength
<1> QED
  BY <1>1, <1>2, <1>3 DEF DownShape, Go, Snooped, LastOf

----------------------------------------------------------------------------
(* What the controllers' steps do to the copies.                           *)

\* Nobody gets a copy, and nobody a copy to write.
Fewer ==
  \A a \in Agents, x \in Addrs :
    (Live(a, x)' => Live(a, x)) /\ (LiveOwned(a, x)' => LiveOwned(a, x))
\* ... but a may get one of x.
FewerBut(b, y) ==
  \A a \in Agents, x \in Addrs : <<a, x>> # <<b, y>> =>
    (Live(a, x)' => Live(a, x)) /\ (LiveOwned(a, x)' => LiveOwned(a, x))

LEMMA FewerProcessor ==
  ASSUME TypeOK, NEW a \in Agents, NEW x \in Addrs, NEW v \in Values,
         Load(a, x) \/ Store(a, x, v)
  PROVE Fewer
<1>1. proc[a] = Idle
  BY DEF Load, Store
<1>2. \A y \in Addrs : ~Evicting(a, y)
  BY <1>1 DEF Evicting, Idle
<1>3. cache \in [Agents -> [Addrs -> CacheBlock]] /\ proc \in [Agents -> {Idle} \cup Busy]
  BY DEF TypeOK, ControllersTypeOK
<1>4. CASE cache' = cache /\ \E p : proc' = [proc EXCEPT ![a] = p]
  <2>1. \A b \in Agents, y \in Addrs : Valid(b, y)' = Valid(b, y)
    BY <1>4 DEF Valid
  <2>2. \A b \in Agents, y \in Addrs : b # a => Evicting(b, y)' = Evicting(b, y)
    BY <1>3, <1>4 DEF Evicting
  <2> QED
    BY <1>2, <1>4, <2>1, <2>2 DEF Fewer, Live, LiveOwned
<1>5. CASE cache[a][x].state \in {"E", "M"} /\ Commit(a, x, v) /\ proc' = proc
  <2>1. \A b \in Agents, y \in Addrs : Evicting(b, y)' = Evicting(b, y)
    BY <1>5 DEF Evicting
  <2>2. \A b \in Agents, y \in Addrs : <<b, y>> # <<a, x>> => cache'[b][y] = cache[b][y]
    BY <1>3, <1>5 DEF Commit
  <2>3. Live(a, x) /\ LiveOwned(a, x)
    BY <1>2, <1>5 DEF Live, LiveOwned, Valid
  <2> QED
    BY <2>1, <2>2, <2>3 DEF Fewer, Live, LiveOwned, Valid
<1> QED
  BY <1>4, <1>5 DEF Load, Store, Miss, Ask, Flush

LEMMA FewerSnoop ==
  ASSUME TypeOK, NEW a \in Agents, NEW type, NEW x \in Addrs, Snoop(a, type, x), proc' = proc
  PROVE /\ Fewer /\ ~LiveOwned(a, x)'
        /\ type = "SNP_INV" => ~Live(a, x)'
<1>1. cache \in [Agents -> [Addrs -> CacheBlock]]
  BY DEF TypeOK, ControllersTypeOK
<1>2. \A b \in Agents, y \in Addrs : Evicting(b, y)' = Evicting(b, y)
  BY DEF Evicting
<1>3. \A b \in Agents, y \in Addrs : <<b, y>> # <<a, x>> => cache'[b][y] = cache[b][y]
  BY <1>1 DEF Snoop
<1>4. cache'[a][x] = IF type = "SNP_INV" \/ cache[a][x].state = "I"
                       THEN Invalid ELSE [state |-> "S", data |-> cache[a][x].data]
  BY <1>1 DEF Snoop
<1>5. cache'[a][x].state = IF type = "SNP_INV" \/ cache[a][x].state = "I" THEN "I" ELSE "S"
  BY <1>4 DEF Invalid
<1> QED
  BY <1>2, <1>3, <1>5 DEF Fewer, Live, LiveOwned, Valid

LEMMA FewerRespond ==
  ASSUME TypeOK, NEW a \in Agents, NEW status, NEW data, Respond(a, status, data),
         NEW y, y = proc[a].addr
  PROVE /\ proc[a].pc = "flush" => Fewer
        /\ FewerBut(a, y)
        /\ proc[a].pc = "fill" /\ status = "RSP_S" => ~LiveOwned(a, y)'
<1>1. cache \in [Agents -> [Addrs -> CacheBlock]] /\ proc \in [Agents -> {Idle} \cup Busy]
  BY DEF TypeOK, ControllersTypeOK
<1>2. proc[a] \in Busy
  BY <1>1 DEF Respond, Idle
<1>3. /\ proc[a].addr \in Addrs /\ proc[a].victim \in Addrs
      /\ proc[a].pc \in {"flush", "fill", "own"}
  BY <1>2 DEF Busy
<1>4. CASE proc[a].pc = "flush"
  <2>1. /\ cache' = [cache EXCEPT ![a][proc[a].victim] = Invalid]
        /\ proc' = [proc EXCEPT ![a] = Asking(proc[a].op, proc[a].addr, proc[a].val)]
    BY <1>4 DEF Respond, Ask
  <2>2. /\ \A x \in Addrs : ~Evicting(a, x)'
        /\ \A b \in Agents, x \in Addrs : b # a => Evicting(b, x)' = Evicting(b, x)
        /\ \A x \in Addrs : Evicting(a, x) => x = proc[a].victim
    BY <1>1, <2>1 DEF Evicting, Asking
  <2>3. /\ \A b \in Agents, x \in Addrs : <<b, x>> # <<a, proc[a].victim>> => cache'[b][x] = cache[b][x]
        /\ cache'[a][proc[a].victim].state = "I"
    BY <1>1, <1>3, <2>1 DEF Invalid
  <2> QED
    BY <1>3, <1>4, <2>2, <2>3 DEF Fewer, FewerBut, Live, LiveOwned, Valid
<1>5. CASE proc[a].pc \in {"fill", "own"}
  <2>1. PICK block : /\ cache' = [cache EXCEPT ![a][y] = block]
                     /\ proc' = [proc EXCEPT ![a] = Idle]
                     /\ proc[a].pc = "fill" => block.state = FillState(status)
    BY <1>5 DEF Respond, Commit
  <2>2. /\ \A b \in Agents, x \in Addrs : b # a => Evicting(b, x)' = Evicting(b, x)
        /\ \A x \in Addrs : ~Evicting(a, x)
    BY <1>1, <1>5, <2>1 DEF Evicting
  <2>3. /\ \A b \in Agents, x \in Addrs : <<b, x>> # <<a, y>> => cache'[b][x] = cache[b][x]
        /\ cache'[a][y] = block
    BY <1>1, <1>3, <2>1
  <2>4. FewerBut(a, y)
    BY <2>2, <2>3 DEF FewerBut, Live, LiveOwned, Valid
  <2>5. proc[a].pc = "fill" /\ status = "RSP_S" => cache'[a][y].state = "S"
    BY <2>1, <2>3 DEF FillState
  <2> QED
    BY <1>3, <1>5, <2>4, <2>5 DEF LiveOwned
<1> QED
  BY <1>3, <1>4, <1>5

----------------------------------------------------------------------------
(* What a step keeps of the invariant when it does little to a device.     *)

LEMMA PipeFrame ==
  ASSUME NEW d \in Devices, Pipe(d),
         Reqs(d)' \subseteq Reqs(d), Once(up[d], "req")',
         Waiting(d)' \subseteq Waiting(d), OnceOfDevice(d2hReq, d)',
         DownShape(d)', Go(d)' => Go(d) /\ down'[d][1] = down[d][1],
         Working(d)' => Working(d) /\ bridge'.addr = bridge.addr /\ bridge'.type = bridge.type,
         dcoh'[d].packet = dcoh[d].packet,
         dcoh'[d].state \in {"INIT", "START"} => dcoh[d].state \in {"INIT", "START"}
  PROVE Pipe(d)'
<1>1. Places(d)'
  BY DEF Pipe, Places
<1>2. Same(d)'
  BY DEF Pipe, Same, OwnRequest
<1> QED
  BY <1>1, <1>2 DEF Pipe

LEMMA OneDebtFrame ==
  ASSUME NEW d \in Devices, OneDebt(d), bridge'.addr = bridge.addr, bridge'.type = bridge.type,
         Rsps(d)' \subseteq Rsps(d), Once(up[d], "rsp")',
         Snooped(d)' => Snooped(d) /\ LastOf(down[d])' = LastOf(down[d]),
         Failed(d)' => Failed(d)
  PROVE OneDebt(d)'
BY DEF OneDebt, RoundSnoop

LEMMA NoDebt ==
  ASSUME NEW d \in Devices, Rsps(d)' = {}, ~Snooped(d)'
  PROVE OneDebt(d)'
<1>1. Once(up[d], "rsp")'
  BY DEF Rsps, Of, Once
<1> QED
  BY <1>1 DEF OneDebt

\* The bridge does nothing, and the debts stay.
LEMMA AccountFrame ==
  ASSUME Account, \A d \in Devices : OneDebt(d)' /\ (Owes(d)' <=> Owes(d)),
         UNCHANGED <<bridge, sf, d2hRsp>>
  PROVE Account'
<1>1. Owing' = Owing
  BY DEF Owing
<1> QED
  BY <1>1 DEF Account, Quiet, Counted, Concluded, Sharers

\* No device gets anything of a line.
Less ==
  /\ \A d \in Devices, x \in Addrs : (Holds(d, x)' => Holds(d, x)) /\ (Owns(d, x)' => Owns(d, x))
  /\ \A x \in Addrs : Live(Host, x)' => Live(Host, x)

LEMMA FewerLess ==
  ASSUME Fewer, \A d \in Devices : Go(d)' => Go(d) /\ dcoh'[d].packet = dcoh[d].packet
  PROVE Less
<1>1. Devices \subseteq Agents /\ Host \in Agents
  BY ConstantTypes
<1> QED
  BY <1>1 DEF Less, Holds, Owns, Granted, Fewer

\* A device that answers a snoop does as it was asked.
Obeys(d) ==
  Snooped(d) \/ Failed(d) =>
    \/ Snooped(d)' \/ Failed(d)'
    \/ \A x \in Addrs : x = bridge.addr =>
         /\ bridge.type \in Invalidations => ~Holds(d, x)'
         /\ bridge.type \in Reads => ~Owns(d, x)'

\* Who has newly answered that it has no copy has none.
Honest(d) == AnsweredGone(d)' => AnsweredGone(d) \/ \A x \in Addrs : x = bridge.addr => ~Holds(d, x)'

\* A step of anything but the bridge
LEMMA CopiesFrame ==
  ASSUME Inv, Less, UNCHANGED <<bridge, sf>>, \A d \in Devices : Obeys(d),
         bridge.state = "WAIT" /\ bridge.type \in Reads => \A d \in bridge.list : Honest(d)
  PROVE Included' /\ Alone' /\ Round'
<1>1. Included'
  <2> SUFFICES ASSUME NEW d \in Devices, NEW x \in Addrs, Holds(d, x)', x \notin sf[d]
               PROVE bridge.state = "WAIT" /\ bridge.addr = x /\ (Snooped(d)' \/ Failed(d)')
    BY DEF Included
  <2>1. bridge.state = "WAIT" /\ bridge.addr = x /\ (Snooped(d) \/ Failed(d))
    BY DEF Less, Inv, SnoopInv, Included
  <2>2. bridge.type \in Invalidations
    <3>1. d \in Owing
      BY <2>1 DEF Owing, Owes
    <3>2. d \notin Sharers(bridge.addr, bridge.src)
      BY <2>1 DEF Sharers
    <3> QED
      BY <2>1, <3>1, <3>2 DEF Inv, SnoopInv, Account, Counted
  <2> QED
    BY <2>1, <2>2 DEF Obeys
<1>2. Alone'
  BY DEF Alone, Less, Inv, SnoopInv
<1>3. AllGone'
  BY DEF AllGone, Asked, Less, Obeys, Inv, SnoopInv, Round
<1>4. NoneOwns'
  BY DEF NoneOwns, Asked, Less, Obeys, Inv, SnoopInv, Round
<1>5. GoneMeansGone'
  <2>1. bridge.list \subseteq Devices
    BY DEF Inv, TypeOK
  <2> QED
    BY <2>1 DEF GoneMeansGone, Less, Honest, Inv, SnoopInv, Round
<1>6. Evicted'
  BY DEF Evicted, Less, Inv, SnoopInv, Round
<1> QED
  BY <1>1, <1>2, <1>3, <1>4, <1>5, <1>6 DEF Round

LEMMA SameUp ==
  ASSUME NEW d, up'[d] = up[d]
  PROVE /\ Reqs(d)' = Reqs(d) /\ Rsps(d)' = Rsps(d)
        /\ Once(up[d], "req")' <=> Once(up[d], "req")
        /\ Once(up[d], "rsp")' <=> Once(up[d], "rsp")
BY DEF Reqs, Rsps, Of, Once

LEMMA SameDown ==
  ASSUME NEW d, down'[d] = down[d]
  PROVE /\ Go(d)' <=> Go(d)
        /\ Snooped(d)' <=> Snooped(d)
        /\ LastOf(down[d])' = LastOf(down[d])
        /\ DownShape(d)' <=> DownShape(d)
BY DEF Go, Snooped, LastOf, DownShape

LEMMA SameWaiting ==
  ASSUME d2hReq' = d2hReq
  PROVE \A d : Waiting(d)' = Waiting(d) /\ (OnceOfDevice(d2hReq, d)' <=> OnceOfDevice(d2hReq, d))
BY DEF Waiting, OfDevice, OnceOfDevice

LEMMA SameWorking == ASSUME UNCHANGED bridge PROVE \A d : Working(d)' <=> Working(d)
BY DEF Working

\* What SnoopInv says of a device
LEMMA DeviceInv ==
  ASSUME Inv, NEW d \in Devices
  PROVE /\ Pipe(d) /\ Places(d) /\ DownShape(d) /\ Same(d) /\ OneDebt(d)
        /\ Once(up[d], "req") /\ Once(up[d], "rsp") /\ OnceOfDevice(d2hReq, d)
        /\ TypeOK
        /\ up[d] \in Seq(D2HReq \cup D2HRsp \cup D2HData)
        /\ dcoh[d].state # "INIT" => dcoh[d].packet \in CacheRequest
BY DEF Inv, SnoopInv, Account, Pipe, Places, OneDebt, TypeOK

\* A device of which nothing moves
LEMMA StillDevice ==
  ASSUME Inv, NEW d \in Devices, up'[d] = up[d], down'[d] = down[d], dcoh'[d] = dcoh[d],
         UNCHANGED bridge,
         Waiting(d)' = Waiting(d), OnceOfDevice(d2hReq, d)'
  PROVE /\ Pipe(d)' /\ OneDebt(d)' /\ Obeys(d)
        /\ Owes(d)' <=> Owes(d)
        /\ Go(d)' <=> Go(d)
<1>1. Failed(d)' <=> Failed(d)
  BY DEF Failed
<1>2. down'[d][1] = down[d][1]
  OBVIOUS
<1>3. Pipe(d)'
  BY <1>2, DeviceInv, SameUp, SameDown, SameWorking, PipeFrame
<1>4. OneDebt(d)'
  BY <1>1, DeviceInv, SameUp, SameDown, OneDebtFrame
<1>5. Obeys(d)
  BY <1>1, SameDown DEF Obeys
<1>6. Owes(d)' <=> Owes(d)
  BY <1>1, SameUp, SameDown DEF Owes
<1> QED
  BY <1>3, <1>4, <1>5, <1>6, SameDown

LEMMA ProcessorKeeps ==
  ASSUME Inv, NEW a \in Agents, NEW x \in Addrs, NEW v \in Values,
         Load(a, x) \/ Store(a, x, v), UNCHANGED protocol
  PROVE SnoopInv'
<1>1. UNCHANGED <<up, down, dcoh, bridge, d2hReq, d2hRsp, sf>>
  BY DEF protocol, links, channels
<1>2. \A d \in Devices : Waiting(d)' = Waiting(d) /\ OnceOfDevice(d2hReq, d)'
  BY <1>1, SameWaiting, DeviceInv
<1>3. ASSUME NEW d \in Devices
      PROVE Pipe(d)' /\ OneDebt(d)' /\ Obeys(d) /\ (Owes(d)' <=> Owes(d)) /\ (Go(d)' <=> Go(d))
  BY <1>1, <1>2, StillDevice
<1>4. Account'
  BY <1>1, <1>3, AccountFrame DEF Inv, SnoopInv
<1>5. Less
  BY <1>1, <1>3, FewerProcessor, FewerLess DEF Inv
<1>6. \A d \in Devices : Honest(d)
  BY <1>1, SameUp DEF Honest, AnsweredGone
<1>7. bridge.list \subseteq Devices
  BY DEF Inv, TypeOK
<1>8. Included' /\ Alone' /\ Round'
  BY <1>1, <1>3, <1>5, <1>6, <1>7, CopiesFrame
<1> QED
  BY <1>3, <1>4, <1>8 DEF SnoopInv

LEMMA FiniteDevices == \A D \in SUBSET Devices : IsFiniteSet(D) /\ Cardinality(D) \in Nat
<1>1. IsFiniteSet(Devices)
  <2>1. 0 \in Int /\ NumDevices - 1 \in Int
    BY CxlCacheAssumption
  <2>2. IsFiniteSet(0 .. (NumDevices - 1))
    BY <2>1, FS_Interval
  <2> QED
    BY <2>2 DEF Devices
<1> QED
  BY <1>1, FS_Subset, FS_CardinalityType

LEMMA OnlyOne ==
  ASSUME NEW D \in SUBSET Devices, Cardinality(D) = 1, NEW d \in D, NEW e \in D
  PROVE d = e
BY FiniteDevices, FS_Singleton

LEMMA ReceiveKeeps ==
  ASSUME Inv, NEW d \in Devices, BridgeReceive(d)
  PROVE SnoopInv'
<1> DEFINE p == Head(up[d])
<1>1. /\ UNCHANGED <<cache, proc, down, dcoh, bridge, sf>>
      /\ \A e \in Devices : e # d => up'[e] = up[e]
      /\ up[d] # <<>> /\ up'[d] = Tail(up[d])
      /\ d2hReq' = IF p.ch = "req" THEN Append(d2hReq, p) ELSE d2hReq
      /\ d2hRsp' = IF p.ch = "rsp" THEN Append(d2hRsp, p) ELSE d2hRsp
  BY DEF BridgeReceive, controllers, Inv, TypeOK
<1>2. p \in D2HReq \cup D2HRsp \cup D2HData
  BY <1>1, DeviceInv
<1>3. /\ p.ch = "req" => p \in D2HReq /\ p.ch # "rsp"
      /\ p.ch = "rsp" => p \in D2HRsp /\ p.ch # "req"
  BY <1>2 DEF D2HReq, D2HRsp, D2HData
<1>4. /\ Reqs(d) = IF p.ch = "req" THEN Reqs(d)' \cup {p} ELSE Reqs(d)'
      /\ p.ch = "req" => Reqs(d)' = {}
      /\ Once(up[d], "req")'
      /\ Rsps(d) = IF p.ch = "rsp" THEN Rsps(d)' \cup {p} ELSE Rsps(d)'
      /\ p.ch = "rsp" => Rsps(d)' = {}
      /\ Once(up[d], "rsp")'
  <2>1. up[d] \in Seq(D2HReq \cup D2HRsp \cup D2HData) /\ Once(up[d], "req") /\ Once(up[d], "rsp")
    BY DeviceInv
  <2>2. \A ch \in {"req", "rsp"} :
          /\ Of(up[d], ch) = IF p.ch = ch THEN Of(Tail(up[d]), ch) \cup {p} ELSE Of(Tail(up[d]), ch)
          /\ p.ch = ch => Of(Tail(up[d]), ch) = {}
          /\ Once(Tail(up[d]), ch)
    BY <1>1, <2>1, OfTail
  <2>3. \A ch \in {"req", "rsp"} : Of(up'[d], ch) = Of(Tail(up[d]), ch) /\ Once(up'[d], ch)
    BY <1>1, <2>2
  <2> HIDE DEF p
  <2>4. Reqs(d)' = Of(up'[d], "req") /\ Rsps(d)' = Of(up'[d], "rsp")
    BY DEF Reqs, Rsps
  <2>5. Once(up[d], "req")' /\ Once(up[d], "rsp")'
    BY <2>3 DEF Once
  <2> QED
    BY <2>2, <2>3, <2>4, <2>5 DEF Reqs, Rsps
<1>5. p.ch = "req" => OwnRequest(d, p) /\ p.dev = d /\ Waiting(d) = {} /\ ~Working(d) /\ ~Go(d)
        /\ dcoh[d].state \notin {"INIT", "START"}
  BY <1>4, DeviceInv DEF Same, Places, OwnRequest
<1>6. ASSUME NEW e \in Devices
      PROVE /\ Waiting(e)' = IF p.ch = "req" /\ e = d THEN {p} ELSE Waiting(e)
            /\ OnceOfDevice(d2hReq, e)'
  <2>1. d2hReq \in Seq(D2HReq) /\ OnceOfDevice(d2hReq, e)
    BY DeviceInv DEF TypeOK
  <2>2. CASE p.ch = "req"
    <3> HIDE DEF p
    <3>1. p \in D2HReq /\ d2hReq' = Append(d2hReq, p)
      BY <1>1, <1>3, <2>2
    <3>2. /\ OfDevice(d2hReq', e) = IF p.dev = e THEN OfDevice(d2hReq, e) \cup {p}
                                                 ELSE OfDevice(d2hReq, e)
          /\ OnceOfDevice(d2hReq', e)
      BY <1>5, <2>1, <2>2, <3>1, OfDeviceAppend DEF Waiting
    <3>3. Waiting(e)' = OfDevice(d2hReq', e) /\ (OnceOfDevice(d2hReq, e)' <=> OnceOfDevice(d2hReq', e))
      BY DEF Waiting, OnceOfDevice
    <3> QED
      BY <1>5, <2>2, <3>2, <3>3 DEF Waiting
  <2>3. CASE p.ch # "req"
    BY <1>1, <2>1, <2>3, SameWaiting
  <2> QED
    BY <2>2, <2>3
<1>7. \A e \in Devices : down'[e] = down[e] /\ dcoh'[e] = dcoh[e] /\ (Failed(e)' <=> Failed(e))
  BY <1>1 DEF Failed
<1>8. ASSUME NEW e \in Devices
      PROVE Pipe(e)' /\ OneDebt(e)' /\ Obeys(e) /\ (Go(e)' <=> Go(e))
  <2>1. CASE e # d
    BY <1>1, <1>6, <1>7, <2>1, StillDevice
  <2>2. CASE e = d
    <3>1. OneDebt(d)'
      BY <1>1, <1>4, <1>7, DeviceInv, SameDown, OneDebtFrame
    <3>2. Obeys(d)
      BY <1>7, SameDown DEF Obeys
    <3>3. Pipe(d)'
      <4>1. CASE p.ch = "req"
        <5>1. Places(d)'
          BY <1>1, <1>4, <1>5, <1>6, <1>7, <4>1, SameDown, SameWorking, DeviceInv DEF Places
        <5>2. Same(d)'
          BY <1>1, <1>4, <1>5, <1>6, <1>7, <4>1, SameDown, SameWorking DEF Same, OwnRequest
        <5> QED
          BY <1>7, <5>1, <5>2, SameDown, DeviceInv DEF Pipe
      <4>2. CASE p.ch # "req"
        BY <1>1, <1>4, <1>6, <1>7, <4>2, DeviceInv, SameDown, SameWorking, PipeFrame
      <4> QED
        BY <4>1, <4>2
    <3> QED
      BY <1>7, <2>2, <3>1, <3>2, <3>3, SameDown
  <2> QED
    BY <2>1, <2>2
<1>9. Less
  <2>1. Fewer
    BY <1>1 DEF Fewer, Live, LiveOwned, Valid, Evicting
  <2> QED
    BY <1>7, <1>8, <2>1, FewerLess
<1>10. CASE p.ch # "rsp"
  <2>1. d2hRsp' = d2hRsp /\ \A e \in Devices : Rsps(e)' = Rsps(e)
    BY <1>1, <1>4, <1>10, SameUp
  <2>2. \A e \in Devices : Owes(e)' <=> Owes(e)
    BY <1>7, <2>1, SameDown DEF Owes
  <2>3. Account'
    BY <1>1, <1>8, <2>1, <2>2, AccountFrame DEF Inv, SnoopInv
  <2>4. \A e \in Devices : Honest(e)
    BY <2>1 DEF Honest, AnsweredGone
  <2>5. bridge.list \subseteq Devices
    BY DEF Inv, TypeOK
  <2> QED
    BY <1>1, <1>8, <1>9, <2>3, <2>4, <2>5, CopiesFrame DEF SnoopInv
<1>11. CASE p.ch = "rsp"
  <2>1. p \in Rsps(d) /\ Rsps(d)' = {} /\ d2hRsp' = Append(d2hRsp, p) /\ p \in D2HRsp
    BY <1>1, <1>3, <1>4, <1>11
  <2>2. d \in Owing /\ bridge.state = "WAIT"
    BY <2>1 DEF Owing, Owes, Inv, SnoopInv, Account, Quiet
  <2>3. Owing' = Owing \ {d}
    <3>1. ~Owes(d)'
      BY <1>7, <2>1, DeviceInv, SameDown DEF Owes, OneDebt
    <3>2. \A e \in Devices : e # d => (Owes(e)' <=> Owes(e))
      BY <1>1, <1>7, SameUp, SameDown DEF Owes
    <3> QED
      BY <3>1, <3>2 DEF Owing
  <2>4. d2hRsp \in Seq(D2HRsp)
    BY DEF Inv, TypeOK
  <2>5. /\ Len(d2hRsp') = Len(d2hRsp) + 1
        /\ \A i \in DOMAIN d2hRsp' : d2hRsp'[i] = p \/ (i \in DOMAIN d2hRsp /\ d2hRsp'[i] = d2hRsp[i])
    <3> HIDE DEF p
    <3> QED
      BY <2>1, <2>4
  <2>6. Cardinality(Owing') = Cardinality(Owing) - 1 /\ Cardinality(Owing) \in Nat
    BY <2>2, <2>3, FiniteDevices, FS_RemoveElement, FS_CardinalityType DEF Owing
  <2>7. Counted
    BY DEF Inv, SnoopInv, Account
  <2>8. Counted'
    <3> HIDE DEF p
    <3>1. bridge.type \in Invalidations => p.opcode \in Gone
      BY <2>1, DeviceInv DEF OneDebt
    <3>2. Cardinality(Owing') + Len(d2hRsp') = Cardinality(Owing) + Len(d2hRsp)
      BY <2>4, <2>5, <2>6
    <3> QED
      BY <1>1, <2>2, <2>3, <2>5, <2>7, <3>1, <3>2 DEF Counted, Sharers
  <2>9. Account'
    BY <1>1, <1>8, <2>2, <2>8 DEF Inv, SnoopInv, Account, Quiet, Concluded
  <2>10. ASSUME bridge.type \in Reads, NEW e \in bridge.list
         PROVE Honest(e)
    <3> HIDE DEF p
    <3>1. e = d
      <4>1. bridge.list \in SUBSET Devices /\ Cardinality(bridge.list) = 1 /\ d \in bridge.list
        BY <2>2, <2>7, <2>10 DEF Counted, Inv, TypeOK
      <4> QED
        BY <2>10, <4>1, OnlyOne
    <3>2. p.opcode \in Gone => AnsweredGone(d)
      BY <2>1 DEF AnsweredGone
    <3> QED
      BY <2>1, <2>5, <3>1, <3>2 DEF Honest, AnsweredGone
  <2> QED
    BY <1>1, <1>8, <1>9, <2>9, <2>10, CopiesFrame DEF SnoopInv
<1> QED
  BY <1>10, <1>11

----------------------------------------------------------------------------
(* The steps of a DCOH.                                                    *)

\* A device's access waits for the answer to the request the DCOH has.
LEMMA Awaited ==
  ASSUME Inv, NEW d \in Devices, dcoh[d].state # "INIT"
  PROVE /\ dcoh[d].packet.type \in RequestType
        /\ dcoh[d].packet.type \in Writes =>
             proc[d].pc = "flush" /\ proc[d].victim = dcoh[d].packet.addr
        /\ dcoh[d].packet.type = "SNP_DATA" => proc[d].pc = "fill" /\ proc[d].addr = dcoh[d].packet.addr
        /\ dcoh[d].packet.type = "SNP_INV" => proc[d].pc = "own" /\ proc[d].addr = dcoh[d].packet.addr
<1>1. d \in Agents /\ d # Host
  BY CxlCacheAssumption, ConstantTypes
<1>2. Served(d) /\ Paired(d)
  BY <1>1 DEF Served, Inv, RequestsPaired
<1>3. Awaits(d, dcoh[d].packet)
  <2>1. Idle.pc = "idle"
    BY DEF Idle
  <2> QED
    BY <1>1, <1>2 DEF Paired, ServedRequest
<1>4. dcoh[d].packet.type \in RequestType
  BY DEF Inv, TypeOK, CacheRequest
<1> QED
  BY <1>3, <1>4 DEF Awaits, Writes

LEMMA PutUp ==
  ASSUME Inv, NEW d \in Devices, NEW p \in D2HReq \cup D2HRsp \cup D2HData,
         up'[d] = Append(up[d], p)
  PROVE /\ Reqs(d)' = IF p.ch = "req" THEN Reqs(d) \cup {p} ELSE Reqs(d)
        /\ Rsps(d)' = IF p.ch = "rsp" THEN Rsps(d) \cup {p} ELSE Rsps(d)
        /\ (p.ch = "req" => Reqs(d) = {}) => Once(up[d], "req")'
        /\ (p.ch = "rsp" => Rsps(d) = {}) => Once(up[d], "rsp")'
<1>1. up[d] \in Seq(D2HReq \cup D2HRsp \cup D2HData) /\ Once(up[d], "req") /\ Once(up[d], "rsp")
  BY DeviceInv
<1>2. \A ch \in {"req", "rsp"} :
        /\ Of(up'[d], ch) = IF p.ch = ch THEN Of(up[d], ch) \cup {p} ELSE Of(up[d], ch)
        /\ (p.ch = ch => Of(up[d], ch) = {}) => Once(up'[d], ch)
  <2> DEFINE q == up[d]
  <2>1. q \in Seq(D2HReq \cup D2HRsp \cup D2HData) /\ Once(q, "req") /\ Once(q, "rsp")
    BY <1>1
  <2> HIDE DEF q
  <2>2. \A ch \in {"req", "rsp"} :
          /\ Of(Append(q, p), ch) = IF p.ch = ch THEN Of(q, ch) \cup {p} ELSE Of(q, ch)
          /\ (p.ch = ch => Of(q, ch) = {}) => Once(Append(q, p), ch)
    BY <2>1, OfAppend
  <2>3. up'[d] = Append(q, p)
    BY DEF q
  <2> QED
    BY <2>2, <2>3 DEF q
<1>3. Reqs(d)' = Of(up'[d], "req") /\ Rsps(d)' = Of(up'[d], "rsp")
  BY DEF Reqs, Rsps
<1>4. (Once(up[d], "req")' <=> Once(up'[d], "req")) /\ (Once(up[d], "rsp")' <=> Once(up'[d], "rsp"))
  BY DEF Once
<1> QED
  BY <1>2, <1>3, <1>4 DEF Reqs, Rsps

\* What a step of a DCOH has to keep
LEMMA DcohFrame ==
  ASSUME Inv, NEW d \in Devices, UNCHANGED <<d2hReq, d2hRsp, bridge, sf>>,
         \A e \in Devices : e # d => up'[e] = up[e] /\ down'[e] = down[e] /\ dcoh'[e] = dcoh[e],
         Pipe(d)', OneDebt(d)', Owes(d)' <=> Owes(d), Obeys(d), Honest(d), Less
  PROVE SnoopInv'
<1>1. ASSUME NEW e \in Devices
      PROVE Pipe(e)' /\ OneDebt(e)' /\ Obeys(e) /\ (Owes(e)' <=> Owes(e))
  BY SameWaiting, DeviceInv, StillDevice
<1>2. Account'
  BY <1>1, AccountFrame DEF Inv, SnoopInv
<1>3. \A e \in Devices : Honest(e)
  BY SameUp DEF Honest, AnsweredGone
<1>4. bridge.list \subseteq Devices
  BY DEF Inv, TypeOK
<1>5. Included' /\ Alone' /\ Round'
  BY <1>1, <1>3, <1>4, CopiesFrame
<1> QED
  BY <1>1, <1>2, <1>5 DEF SnoopInv

LEMMA TakeKeeps ==
  ASSUME Inv, NEW d \in Devices, DcohTake(d)
  PROVE SnoopInv'
<1>1. /\ UNCHANGED <<d2hReq, d2hRsp, bridge, sf, up, down, cache, proc>>
      /\ \A e \in Devices : e # d => dcoh'[e] = dcoh[e]
      /\ dcoh[d].state = "INIT" /\ dcoh'[d].state = "START"
  BY DEF DcohTake, links, channels, Inv, TypeOK
<1>2. Reqs(d) = {} /\ Waiting(d) = {} /\ ~Working(d) /\ ~Go(d)
  BY <1>1, DeviceInv DEF Places
<1>3. Reqs(d)' = {} /\ Waiting(d)' = {} /\ ~Working(d)' /\ ~Go(d)' /\ Rsps(d)' = Rsps(d)
  BY <1>1, <1>2, SameUp, SameDown, SameWaiting, SameWorking
<1>4. Pipe(d)'
  BY <1>1, <1>3, DeviceInv, SameUp, SameDown, SameWaiting DEF Pipe, Places, Same
<1>5. ~Failed(d) /\ ~Failed(d)'
  BY <1>1 DEF Failed
<1>6. OneDebt(d)'
  BY <1>1, <1>3, <1>5, DeviceInv, SameUp, SameDown, OneDebtFrame
<1>7. (Owes(d)' <=> Owes(d)) /\ Obeys(d) /\ Honest(d)
  BY <1>1, <1>3, <1>5, SameDown DEF Owes, Obeys, Honest, AnsweredGone
<1>8. Less
  <2>1. Fewer
    BY <1>1 DEF Fewer, Live, LiveOwned, Valid, Evicting
  <2> QED
    BY <1>1, <1>3, <2>1, SameDown, FewerLess
<1> QED
  BY <1>1, <1>4, <1>6, <1>7, <1>8, DcohFrame

LEMMA SendKeeps ==
  ASSUME Inv, NEW d \in Devices, DcohSend(d)
  PROVE SnoopInv'
<1> DEFINE p == [ch |-> "req", dev |-> d, opcode |-> D2HOpcode[dcoh[d].packet.type],
                 addr |-> dcoh[d].packet.addr]
<1>1. /\ UNCHANGED <<d2hReq, d2hRsp, bridge, sf, down, cache, proc>>
      /\ \A e \in Devices : e # d => dcoh'[e] = dcoh[e] /\ up'[e] = up[e]
      /\ dcoh[d].state = "START" /\ dcoh'[d].state = "WAIT" /\ dcoh'[d].packet = dcoh[d].packet
      /\ up'[d] = Append(up[d], p)
  BY DEF DcohSend, controllers, channels, Inv, TypeOK
<1>2. Reqs(d) = {} /\ Waiting(d) = {} /\ ~Working(d) /\ ~Go(d)
  BY <1>1, DeviceInv DEF Places
<1>3. p \in D2HReq /\ p.ch = "req" /\ OwnRequest(d, p)
  BY <1>1, DeviceInv DEF D2HReq, D2HReqOpcode, D2HOpcode, CacheRequest, RequestType, OwnRequest
<1>4. /\ Reqs(d)' = {p} /\ Once(up[d], "req")' /\ Rsps(d)' = Rsps(d) /\ Once(up[d], "rsp")'
      /\ Waiting(d)' = {} /\ ~Working(d)' /\ ~Go(d)'
  <2> HIDE DEF p
  <2> QED
    BY <1>1, <1>2, <1>3, PutUp, SameDown, SameWaiting, SameWorking
<1>5. Pipe(d)'
  <2>1. \A r : r = p => OwnRequest(d, r)'
    BY <1>1 DEF OwnRequest
  <2> HIDE DEF p
  <2> QED
    <3>1. Places(d)'
      BY <1>1, <1>4, DeviceInv, SameWaiting DEF Places
    <3>2. Same(d)'
      BY <1>4, <2>1 DEF Same
    <3> QED
      BY <1>1, <3>1, <3>2, DeviceInv, SameDown DEF Pipe
<1>6. ~Failed(d) /\ ~Failed(d)'
  BY <1>1 DEF Failed
<1>7. OneDebt(d)'
  BY <1>1, <1>4, <1>6, DeviceInv, SameDown, OneDebtFrame
<1>8. (Owes(d)' <=> Owes(d)) /\ Obeys(d) /\ Honest(d)
  BY <1>1, <1>4, <1>6, SameDown DEF Owes, Obeys, Honest, AnsweredGone
<1>9. Less
  <2>1. Fewer
    BY <1>1 DEF Fewer, Live, LiveOwned, Valid, Evicting
  <2> QED
    BY <1>1, <1>4, <2>1, SameDown, FewerLess
<1> QED
  BY <1>1, <1>5, <1>7, <1>8, <1>9, DcohFrame

LEMMA ResponseKeeps ==
  ASSUME Inv, NEW d \in Devices, DcohResponse(d)
  PROVE SnoopInv'
<1> DEFINE t == dcoh[d].packet.type
           p == [ch |-> "data", data |-> dcoh[d].packet.data]
<1>1. PICK i \in DOMAIN down[d] :
        /\ FirstOf(down[d], i, "rsp") /\ down' = [down EXCEPT ![d] = RemoveAt(@, i)]
        /\ \/ /\ down[d][i].opcode \in {"GO_E", "GO_I"}
              /\ Respond(d, "RSP_I", InitVal) /\ up' = up
           \/ /\ down[d][i].opcode = "GO_S"
              /\ Respond(d, "RSP_S", down[d][i].data) /\ up' = up
           \/ /\ down[d][i].opcode = "GO_WRITE_PULL"
              /\ up' = [up EXCEPT ![d] = Append(@, p)]
              /\ Respond(d, "OK", InitVal)
  BY DEF DcohResponse
<1>2. /\ UNCHANGED <<d2hReq, d2hRsp, bridge, sf>>
      /\ \A e \in Devices : e # d => dcoh'[e] = dcoh[e] /\ down'[e] = down[e] /\ up'[e] = up[e]
      /\ dcoh[d].state = "WAIT" /\ dcoh'[d] = [state |-> "INIT", packet |-> None]
      /\ down'[d] = RemoveAt(down[d], i)
      /\ up'[d] \in {up[d], Append(up[d], p)}
  BY <1>1 DEF DcohResponse, FinishDcoh, channels, Inv, TypeOK
<1>3. /\ i = 1 /\ Go(d) /\ ~Go(d)' /\ DownShape(d)'
      /\ Snooped(d)' <=> Snooped(d)
      /\ Snooped(d) => LastOf(down[d])' = LastOf(down[d])
  BY <1>1, <1>2, TakeGo, DeviceInv
<1>4. Reqs(d) = {} /\ Waiting(d) = {} /\ ~Working(d) /\ down[d][i].opcode = GoOf[t]
  BY <1>3, DeviceInv DEF Places, Same
<1>5. /\ Reqs(d)' = {} /\ Once(up[d], "req")' /\ Rsps(d)' = Rsps(d) /\ Once(up[d], "rsp")'
      /\ Waiting(d)' = {} /\ OnceOfDevice(d2hReq, d)' /\ ~Working(d)'
  <2>1. p \in D2HData /\ p.ch = "data"
    BY <1>2, DeviceInv DEF D2HData, CacheRequest
  <2> HIDE DEF p
  <2> QED
    BY <1>2, <1>4, <2>1, PutUp, SameUp, SameWaiting, SameWorking, DeviceInv
<1>6. Pipe(d)'
  BY <1>2, <1>3, <1>5 DEF Pipe, Places, Same
<1>7. ~Failed(d) /\ ~Failed(d)'
  BY <1>2 DEF Failed
<1>8. OneDebt(d)'
  BY <1>2, <1>3, <1>5, <1>7, DeviceInv, OneDebtFrame
<1>9. (Owes(d)' <=> Owes(d)) /\ Obeys(d) /\ Honest(d)
  BY <1>2, <1>3, <1>5, <1>7 DEF Owes, Obeys, Honest, AnsweredGone
<1>10. PICK status, data : Respond(d, status, data) /\ (t = "SNP_DATA" => status = "RSP_S")
  BY <1>1, <1>4 DEF GoOf
<1>11. Less
  <2>1. d \in Agents /\ Devices \subseteq Agents /\ Host \in Agents /\ d # Host
    BY CxlCacheAssumption, ConstantTypes
  <2>2. \A e \in Devices : Go(e)' => Go(e) /\ dcoh'[e].packet = dcoh[e].packet
    BY <1>2, <1>3, SameDown
  <2>3. CASE t \in Writes
    <3>1. Fewer
      BY <1>2, <1>10, <2>1, <2>3, Awaited, FewerRespond DEF Inv
    <3> QED
      BY <2>2, <3>1, FewerLess
  <2>4. CASE t \notin Writes
    <3>1. t \in {"SNP_DATA", "SNP_INV"} /\ proc[d].addr = dcoh[d].packet.addr
      BY <1>2, <2>4, Awaited DEF RequestType, Writes
    <3>2. PICK y : y = proc[d].addr
      OBVIOUS
    <3>3. FewerBut(d, y) /\ (t = "SNP_DATA" => ~LiveOwned(d, y)')
      BY <1>2, <1>10, <2>1, <3>2, Awaited, FewerRespond DEF Inv
    <3>4. Holds(d, y) /\ (t = "SNP_INV" => Owns(d, y))
      BY <1>3, <3>1, <3>2 DEF Holds, Owns, Granted
    <3>5. \A e \in Devices, x \in Addrs : e # d => (Holds(e, x)' => Holds(e, x)) /\ (Owns(e, x)' => Owns(e, x))
      BY <2>1, <2>2, <3>3 DEF Holds, Owns, Granted, FewerBut
    <3>6. \A x \in Addrs : (Holds(d, x)' => Live(d, x)') /\ (Owns(d, x)' => LiveOwned(d, x)')
      BY <1>3 DEF Holds, Owns, Granted
    <3>7. \A x \in Addrs : (Holds(d, x)' => Holds(d, x)) /\ (Owns(d, x)' => Owns(d, x))
      BY <2>1, <3>1, <3>3, <3>4, <3>6 DEF Holds, Owns, FewerBut
    <3>8. \A x \in Addrs : Live(Host, x)' => Live(Host, x)
      BY <2>1, <3>3 DEF FewerBut
    <3> QED
      BY <3>5, <3>7, <3>8 DEF Less
  <2> QED
    BY <2>3, <2>4
<1> QED
  BY <1>2, <1>6, <1>8, <1>9, <1>11, DcohFrame

LEMMA ConcatOne ==
  ASSUME NEW S, NEW q \in Seq(S), NEW r \in S
  PROVE q \o (<<r>> \o <<>>) = Append(q, r)
<1>1. <<r>> \in Seq(S)
  OBVIOUS
<1>2. <<r>> \o <<>> = <<r>>
  BY <1>1, ConcatEmptySeq
<1> QED
  BY <1>1, <1>2, AppendIsConcat

LEMMA ConcatTwo ==
  ASSUME NEW S, NEW q \in Seq(S), NEW r \in S, NEW s \in S
  PROVE q \o (<<r>> \o <<s>>) = Append(Append(q, r), s)
<1>1. <<r>> \in Seq(S) /\ <<s>> \in Seq(S) /\ q \o <<r>> \in Seq(S)
  BY ConcatProperties
<1>2. q \o (<<r>> \o <<s>>) = (q \o <<r>>) \o <<s>>
  BY <1>1, ConcatAssociative
<1> QED
  BY <1>1, <1>2, AppendIsConcat

\* The answer to a snoop, with or without data
LEMMA PutReply ==
  ASSUME Inv, NEW d \in Devices, Rsps(d) = {}, NEW r \in D2HRsp, NEW s \in D2HData,
         up'[d] = Append(up[d], r) \/ up'[d] = Append(Append(up[d], r), s)
  PROVE Reqs(d)' = Reqs(d) /\ Rsps(d)' = {r} /\ Once(up[d], "req")' /\ Once(up[d], "rsp")'
<1> DEFINE q == up[d]
           u == Append(q, r)
           w == Append(u, s)
           S == D2HReq \cup D2HRsp \cup D2HData
<1>1. q \in Seq(S) /\ Once(q, "req") /\ Once(q, "rsp") /\ Of(q, "rsp") = {} /\ Of(q, "req") = Reqs(d)
  BY DeviceInv DEF Reqs, Rsps
<1>2. r \in S /\ s \in S /\ r.ch = "rsp" /\ s.ch = "data"
  BY DEF D2HRsp, D2HData
<1>3. up'[d] = u \/ up'[d] = w
  OBVIOUS
<1> HIDE DEF q, S
<1>4. u \in Seq(S)
  BY <1>1, <1>2, AppendProperties
<1>5. Of(u, "req") = Reqs(d) /\ Of(u, "rsp") = {r} /\ Once(u, "req") /\ Once(u, "rsp")
  BY <1>1, <1>2, OfAppend
<1> HIDE DEF u
<1>6. Of(w, "req") = Reqs(d) /\ Of(w, "rsp") = {r} /\ Once(w, "req") /\ Once(w, "rsp")
  BY <1>2, <1>4, <1>5, OfAppend
<1> HIDE DEF w
<1>7. Of(up'[d], "req") = Reqs(d) /\ Of(up'[d], "rsp") = {r} /\ Once(up'[d], "req") /\ Once(up'[d], "rsp")
  BY <1>3, <1>5, <1>6
<1>8. Reqs(d)' = Of(up'[d], "req") /\ Rsps(d)' = Of(up'[d], "rsp")
  BY DEF Reqs, Rsps
<1>9. (Once(up[d], "req")' <=> Once(up'[d], "req")) /\ (Once(up[d], "rsp")' <=> Once(up'[d], "rsp"))
  BY DEF Once
<1> QED
  BY <1>7, <1>8, <1>9

\* An answer without a copy is given when there is none any more, and always
\* to an invalidation.
LEMMA ReplyOpcode ==
  ASSUME Inv, NEW d \in Devices, NEW x \in Addrs, NEW opcode \in {"SNP_INV", "SNP_DATA"},
         Snoop(d, opcode, x),
         NEW reply, reply = SnoopOpcode(SnoopStatus(opcode, cache[d][x].state))
  PROVE /\ reply \in D2HRspOpcode
        /\ opcode = "SNP_INV" => reply \in Gone
        /\ reply \in Gone => ~Live(d, x)'
<1>1. d \in Agents /\ cache \in [Agents -> [Addrs -> CacheBlock]]
  BY ConstantTypes DEF Inv, TypeOK, ControllersTypeOK
<1>2. cache[d][x].state \in CacheState
  BY <1>1 DEF CacheBlock
<1>3. /\ opcode = "SNP_INV" => reply \in {"RSP_I_HIT_I", "RSP_I_HIT_SE"}
      /\ opcode = "SNP_DATA" => reply = IF cache[d][x].state = "I" THEN "RSP_I_HIT_I"
                                        ELSE IF cache[d][x].state = "M" THEN "RSP_S_FWD_M"
                                        ELSE "RSP_S_HIT_SE"
  <2>1. CASE cache[d][x].state = "I"
    BY <2>1 DEF SnoopOpcode, SnoopStatus
  <2>2. CASE cache[d][x].state # "I" /\ opcode = "SNP_INV"
    BY <2>2 DEF SnoopOpcode, SnoopStatus
  <2>3. CASE cache[d][x].state # "I" /\ opcode = "SNP_DATA"
    <3>1. SnoopStatus(opcode, cache[d][x].state) = [S |-> "RSP_S", E |-> "RSP_E", M |-> "RSP_M"][cache[d][x].state]
      BY <2>3 DEF SnoopStatus
    <3> QED
      BY <1>2, <2>3, <3>1 DEF SnoopOpcode, CacheState
  <2> QED
    BY <2>1, <2>2, <2>3
<1>4. cache'[d][x] = IF opcode = "SNP_INV" \/ cache[d][x].state = "I"
                       THEN Invalid ELSE [state |-> "S", data |-> cache[d][x].data]
  BY <1>1 DEF Snoop
<1> QED
  BY <1>3, <1>4 DEF Gone, D2HRspOpcode, Live, Valid, Invalid

LEMMA SnoopKeeps ==
  ASSUME Inv, NEW d \in Devices, DcohSnoop(d)
  PROVE SnoopInv'
<1> DEFINE p == Head(down[d])
           writing == dcoh[d].packet.type \in {"WRITE_BACK", "WRITE_BACK_CLEAN"}
<1>1. /\ UNCHANGED <<d2hReq, d2hRsp, bridge, sf, proc>>
      /\ \A e \in Devices : e # d => down'[e] = down[e]
      /\ dcoh[d].state # "FAILED"
      /\ down[d] # <<>> /\ p.ch = "req" /\ down'[d] = Tail(down[d])
  BY DEF DcohSnoop, ServesSnoops, channels, Inv, TypeOK
<1>2. /\ Snooped(d) /\ ~Go(d) /\ LastOf(down[d]) = p
      /\ ~Snooped(d)' /\ ~Go(d)' /\ DownShape(d)'
  BY <1>1, TakeSnoop, DeviceInv
<1>3. /\ bridge.addr = p.addr /\ p.opcode = RoundSnoop
      /\ Rsps(d) = {} /\ ~Failed(d)
      /\ bridge.addr \in Addrs
  <2>1. bridge.state = "WAIT"
    BY <1>2 DEF Inv, SnoopInv, Account, Quiet, Owing, Owes
  <2> QED
    BY <1>2, <2>1, DeviceInv DEF OneDebt, TypeOK
<1>4. PICK y \in Addrs : y = bridge.addr
  BY <1>3
<1> HIDE DEF p
<1>5. \A x \in Addrs : (Holds(d, x)' => Live(d, x)') /\ (Owns(d, x)' => LiveOwned(d, x)')
  BY <1>2 DEF Holds, Owns, Granted
<1>6. Owes(d)
  BY <1>2 DEF Owes
<1>7. CASE /\ SameLine(d, y) /\ ~writing
           /\ dcoh' = [dcoh EXCEPT ![d].state = "FAILED"] /\ UNCHANGED <<cache, up>>
  <2>1. /\ \A e \in Devices : e # d => dcoh'[e] = dcoh[e] /\ up'[e] = up[e]
        /\ dcoh'[d].state = "FAILED" /\ dcoh'[d].packet = dcoh[d].packet
    BY <1>7 DEF Inv, TypeOK
  <2>2. Pipe(d)'
    BY <1>1, <1>2, <1>7, <2>1, DeviceInv, SameUp, SameWaiting, SameWorking, PipeFrame
  <2>3. OneDebt(d)'
    BY <1>2, <1>3, <1>7, SameUp, NoDebt
  <2>4. Failed(d)'
    BY <2>1 DEF Failed
  <2>5. (Owes(d)' <=> Owes(d)) /\ Obeys(d) /\ Honest(d)
    BY <1>1, <1>6, <1>7, <2>4, SameUp DEF Owes, Obeys, Honest, AnsweredGone
  <2>6. Less
    <3>1. Fewer
      BY <1>1, <1>7 DEF Fewer, Live, LiveOwned, Valid, Evicting
    <3>2. \A e \in Devices : Go(e)' => Go(e) /\ dcoh'[e].packet = dcoh[e].packet
      BY <1>1, <1>2, <2>1, SameDown
    <3> QED
      BY <3>1, <3>2, FewerLess
  <2> QED
    BY <1>1, <2>1, <2>2, <2>3, <2>5, <2>6, DcohFrame
<1>8. ASSUME NEW r \in D2HRsp, NEW s \in D2HData, dcoh' = dcoh,
             up'[d] = Append(up[d], r) \/ up'[d] = Append(Append(up[d], r), s),
             \A e \in Devices : e # d => up'[e] = up[e],
             Fewer, ~LiveOwned(d, y)', p.opcode = "SNP_INV" => ~Live(d, y)' /\ r.opcode \in Gone,
             r.opcode \in Gone => ~Live(d, y)'
      PROVE SnoopInv'
  <2>1. Reqs(d)' = Reqs(d) /\ Rsps(d)' = {r} /\ Once(up[d], "req")' /\ Once(up[d], "rsp")'
    BY <1>3, <1>8, PutReply
  <2>2. ~Failed(d)'
    BY <1>3, <1>8 DEF Failed
  <2>3. Pipe(d)'
    BY <1>1, <1>2, <1>8, <2>1, DeviceInv, SameWaiting, SameWorking, PipeFrame
  <2>4. OneDebt(d)'
    BY <1>1, <1>2, <1>3, <1>8, <2>1, <2>2 DEF OneDebt, RoundSnoop
  <2>5. Owes(d)' <=> Owes(d)
    BY <1>6, <2>1 DEF Owes
  <2>6. Obeys(d)
    BY <1>3, <1>4, <1>5, <1>8 DEF Obeys, RoundSnoop, Invalidations, Reads
  <2>7. Honest(d)
    BY <1>1, <1>4, <1>5, <1>8, <2>1 DEF Honest, AnsweredGone
  <2>8. Less
    <3>1. \A e \in Devices : Go(e)' => Go(e) /\ dcoh'[e].packet = dcoh[e].packet
      BY <1>1, <1>2, <1>8, SameDown
    <3> QED
      BY <1>8, <3>1, FewerLess
  <2> QED
    BY <1>1, <1>8, <2>3, <2>4, <2>5, <2>6, <2>7, <2>8, DcohFrame
<1>9. PICK s : s \in D2HData
  <2>1. [ch |-> "data", data |-> InitVal] \in D2HData
    BY CxlCacheAssumption DEF D2HData
  <2> QED
    BY <2>1
<1>10. CASE /\ SameLine(d, y) /\ writing
            /\ up' = [up EXCEPT ![d] = Append(@, [ch |-> "rsp", opcode |-> "RSP_I_HIT_I"])]
            /\ UNCHANGED <<cache, dcoh>>
  <2>1. PICK r : r = [ch |-> "rsp", opcode |-> "RSP_I_HIT_I"]
    OBVIOUS
  <2>2. r \in D2HRsp /\ r.opcode \in Gone
    BY <2>1 DEF D2HRsp, D2HRspOpcode, Gone
  <2>3. up'[d] = Append(up[d], r) /\ \A e \in Devices : e # d => up'[e] = up[e]
    BY <1>10, <2>1 DEF Inv, TypeOK
  <2>4. ~Live(d, y)'
    <3>1. Evicting(d, y)
      BY <1>10, Awaited DEF SameLine, Evicting, Writes
    <3> QED
      BY <1>1, <3>1 DEF Live, Evicting
  <2>5. Fewer
    BY <1>1, <1>10 DEF Fewer, Live, LiveOwned, Valid, Evicting
  <2>6. ~LiveOwned(d, y)'
    BY <2>4 DEF LiveOwned
  <2> QED
    BY <1>8, <1>9, <1>10, <2>2, <2>3, <2>4, <2>5, <2>6
<1>11. CASE AnswerSnoop(d, p.opcode, y) /\ UNCHANGED dcoh
  <2>1. d \in Agents /\ p.opcode \in {"SNP_INV", "SNP_DATA"}
    BY <1>3, ConstantTypes DEF RoundSnoop
  <2>2. PICK reply : reply = SnoopOpcode(SnoopStatus(p.opcode, cache[d][y].state))
    OBVIOUS
  <2>3. PICK data : data = cache[d][y].data
    OBVIOUS
  <2>4. Snoop(d, p.opcode, y) /\ up' = [up EXCEPT ![d] = @ \o SnoopReply(reply, data)]
    BY <1>11, <2>2, <2>3 DEF AnswerSnoop
  <2>5. /\ reply \in D2HRspOpcode
        /\ p.opcode = "SNP_INV" => reply \in Gone
        /\ reply \in Gone => ~Live(d, y)'
    BY <2>1, <2>2, <2>4, ReplyOpcode
  <2>6. Fewer /\ ~LiveOwned(d, y)' /\ (p.opcode = "SNP_INV" => ~Live(d, y)')
    BY <1>1, <2>1, <2>4, FewerSnoop DEF Inv
  <2>7. PICK r, z : r = [ch |-> "rsp", opcode |-> reply] /\ z = [ch |-> "data", data |-> data]
    OBVIOUS
  <2>8. r \in D2HRsp /\ z \in D2HData /\ r.opcode = reply
    BY <2>1, <2>3, <2>5, <2>7 DEF D2HRsp, D2HData, Inv, TypeOK, ControllersTypeOK, CacheBlock
  <2>9. up'[d] = Append(up[d], r) \/ up'[d] = Append(Append(up[d], r), z)
    <3>1. up[d] \in Seq(D2HReq \cup D2HRsp \cup D2HData)
      BY DeviceInv
    <3>2. up'[d] = up[d] \o (<<r>> \o <<>>) \/ up'[d] = up[d] \o (<<r>> \o <<z>>)
      BY <2>4, <2>7 DEF SnoopReply, Inv, TypeOK
    <3> DEFINE q == up[d]
               S == D2HReq \cup D2HRsp \cup D2HData
    <3>3. q \in Seq(S) /\ r \in S /\ z \in S
      BY <2>8, <3>1
    <3>4. up'[d] = q \o (<<r>> \o <<>>) \/ up'[d] = q \o (<<r>> \o <<z>>)
      BY <3>2
    <3> HIDE DEF q, S
    <3>5. q \o (<<r>> \o <<>>) = Append(q, r) /\ q \o (<<r>> \o <<z>>) = Append(Append(q, r), z)
      BY <3>3, ConcatOne, ConcatTwo
    <3>6. up'[d] = Append(q, r) \/ up'[d] = Append(Append(q, r), z)
      BY <3>4, <3>5
    <3> QED
      BY <3>6 DEF q
  <2>10. \A e \in Devices : e # d => up'[e] = up[e]
    BY <2>4 DEF Inv, TypeOK
  <2> QED
    BY <1>8, <1>11, <2>5, <2>6, <2>8, <2>9, <2>10
<1> QED
  BY <1>3, <1>4, <1>7, <1>10, <1>11 DEF DcohSnoop, p

----------------------------------------------------------------------------
(* The steps of the bridge: taking and answering requests.                 *)

\* While the bridge does not wait, nobody owes it anything.
LEMMA NobodyOwes ==
  ASSUME Inv, bridge.state # "WAIT"
  PROVE /\ \A d \in Devices : ~Snooped(d) /\ Rsps(d) = {} /\ ~Failed(d)
        /\ Owing = {} /\ d2hRsp = <<>>
        /\ \A d \in Devices, x \in Addrs : Holds(d, x) => x \in sf[d]
BY DEF Inv, SnoopInv, Account, Quiet, Owing, Owes, Included

\* A step from one of the bridge's states of rest to another
LEMMA RestFrame ==
  ASSUME Inv, bridge.state # "WAIT", bridge'.state \in {"INIT", "START"},
         UNCHANGED <<up, dcoh, d2hRsp>>,
         \A d \in Devices : ~Snooped(d)' /\ Pipe(d)',
         \A d \in Devices, x \in Addrs : Holds(d, x)' => x \in sf'[d],
         Alone'
  PROVE SnoopInv'
<1>1. \A d \in Devices : Rsps(d)' = {} /\ ~Snooped(d)' /\ ~Failed(d)'
  BY NobodyOwes, SameUp DEF Failed
<1>2. Owing' = {} /\ d2hRsp' = <<>>
  BY <1>1, NobodyOwes DEF Owing, Owes
<1>3. Account'
  BY <1>1, <1>2, NoDebt DEF Account, Quiet, Counted, Concluded
<1>4. Included'
  BY DEF Included
<1>5. Round'
  BY DEF Round, AllGone, NoneOwns, GoneMeansGone, Evicted, Asked
<1> QED
  BY <1>3, <1>4, <1>5 DEF SnoopInv

LEMMA AloneLess ==
  ASSUME Inv, Less, UNCHANGED sf
  PROVE Alone'
BY DEF Alone, Less, Inv, SnoopInv

LEMMA TakeHostKeeps ==
  ASSUME Inv, BridgeTakeHost
  PROVE SnoopInv'
<1>1. /\ UNCHANGED <<up, down, dcoh, d2hReq, d2hRsp, sf, cache, proc>>
      /\ bridge.state = "INIT" /\ bridge'.state = "START" /\ bridge'.src = Host
  BY DEF BridgeTakeHost, links, channels, Inv, TypeOK
<1>2. \A d \in Devices : ~Working(d)'
  BY <1>1, CxlCacheAssumption DEF Working
<1>3. ASSUME NEW d \in Devices
      PROVE ~Snooped(d)' /\ Pipe(d)' /\ (Go(d)' <=> Go(d))
  BY <1>1, <1>2, NobodyOwes, DeviceInv, SameUp, SameDown, SameWaiting, PipeFrame
<1>4. Less
  <2>1. Fewer
    BY <1>1 DEF Fewer, Live, LiveOwned, Valid, Evicting
  <2> QED
    BY <1>1, <1>3, <2>1, FewerLess
<1>5. \A d \in Devices, x \in Addrs : Holds(d, x)' => x \in sf'[d]
  BY <1>1, <1>4, NobodyOwes DEF Less
<1> QED
  BY <1>1, <1>3, <1>4, <1>5, AloneLess, RestFrame

LEMMA TakeDeviceKeeps ==
  ASSUME Inv, BridgeTakeDevice
  PROVE SnoopInv'
<1> DEFINE r == Head(d2hReq)
<1>1. /\ UNCHANGED <<up, down, dcoh, d2hRsp, sf, cache, proc>>
      /\ bridge.state = "INIT" /\ bridge'.state = "START" /\ bridge'.src = r.dev
      /\ bridge'.type = r.opcode /\ bridge'.addr = r.addr
      /\ d2hReq # <<>> /\ d2hReq' = Tail(d2hReq)
  BY DEF BridgeTakeDevice, links, controllers, Inv, TypeOK
<1>2. d2hReq \in Seq(D2HReq) /\ r \in D2HReq /\ r.dev \in Devices
  <2>1. d2hReq \in Seq(D2HReq)
    BY DEF Inv, TypeOK
  <2>2. \A q \in Seq(D2HReq) : q # <<>> => Head(q) \in D2HReq
    BY HeadTailProperties
  <2>3. r \in D2HReq
    BY <1>1, <2>1, <2>2
  <2> HIDE DEF r
  <2>4. r.dev \in Devices
    BY <2>3 DEF D2HReq
  <2> QED
    BY <2>1, <2>3, <2>4
<1>3. PICK d \in Devices : d = r.dev
  BY <1>2
<1>4. ASSUME NEW e \in Devices
      PROVE /\ Waiting(e) = IF r.dev = e THEN Waiting(e)' \cup {r} ELSE Waiting(e)'
            /\ OnceOfDevice(d2hReq, e)'
            /\ r.dev = e => Waiting(e)' = {}
  <2>1. OnceOfDevice(d2hReq, e)
    BY DeviceInv
  <2>2. /\ OfDevice(d2hReq, e) = IF r.dev = e THEN OfDevice(Tail(d2hReq), e) \cup {r}
                                              ELSE OfDevice(Tail(d2hReq), e)
        /\ OnceOfDevice(Tail(d2hReq), e)
        /\ r.dev = e => OfDevice(Tail(d2hReq), e) = {}
    BY <1>1, <1>2, <2>1, OfDeviceTail
  <2>3. Waiting(e)' = OfDevice(d2hReq', e) /\ (OnceOfDevice(d2hReq, e)' <=> OnceOfDevice(d2hReq', e))
    BY DEF Waiting, OnceOfDevice
  <2> HIDE DEF r
  <2>4. OfDevice(d2hReq', e) = OfDevice(Tail(d2hReq), e) /\ OnceOfDevice(d2hReq', e)
    BY <1>1, <2>2
  <2> QED
    BY <2>2, <2>3, <2>4 DEF Waiting
<1> HIDE DEF r
<1>5. /\ OwnRequest(d, r) /\ Reqs(d) = {} /\ ~Go(d) /\ Waiting(d)' = {}
      /\ dcoh[d].state \notin {"INIT", "START"}
  BY <1>3, <1>4, DeviceInv DEF Same, Places
<1>6. ASSUME NEW e \in Devices
      PROVE ~Snooped(e)' /\ Pipe(e)' /\ (Go(e)' <=> Go(e))
  <2>1. ~Snooped(e)' /\ (Go(e)' <=> Go(e))
    BY <1>1, NobodyOwes, SameDown
  <2>2. CASE e # d
    <3>1. ~Working(e)'
      BY <1>1, <1>3, <2>2 DEF Working
    <3> QED
      BY <1>1, <1>3, <1>4, <2>1, <2>2, <3>1, DeviceInv, SameUp, SameDown, PipeFrame
  <2>3. CASE e = d
    <3>1. Places(d)'
      BY <1>1, <1>4, <1>5, <2>1, <2>3, DeviceInv, SameUp DEF Places
    <3>2. Same(d)'
      BY <1>1, <1>5, <2>1, <2>3, SameUp DEF Same, OwnRequest
    <3>3. DownShape(d)'
      BY <1>1, DeviceInv, SameDown
    <3>4. Pipe(d)'
      BY <3>1, <3>2, <3>3 DEF Pipe
    <3> QED
      BY <2>1, <2>3, <3>4
  <2> QED
    BY <2>1, <2>2, <2>3
<1>7. Less
  <2>1. Fewer
    BY <1>1 DEF Fewer, Live, LiveOwned, Valid, Evicting
  <2> QED
    BY <1>1, <1>6, <2>1, FewerLess
<1>8. \A e \in Devices, x \in Addrs : Holds(e, x)' => x \in sf'[e]
  BY <1>1, <1>7, NobodyOwes DEF Less
<1> QED
  BY <1>1, <1>6, <1>7, <1>8, AloneLess, RestFrame

\* The line of the bridge's request is held or owned by nobody else, ...
LEMMA NoHolder ==
  ASSUME Inv, bridge.state # "WAIT", NEW y \in Addrs, y = bridge.addr,
         \/ Sharers(y, bridge.src) = {}
         \/ bridge.state = "DONE" /\ bridge.type \in Invalidations
  PROVE \A d \in Devices \ {bridge.src} : ~Holds(d, y) /\ y \notin sf[d]
<1>1. Sharers(y, bridge.src) = {}
  BY DEF Inv, SnoopInv, Account, Concluded
<1> QED
  BY <1>1, NobodyOwes DEF Sharers

LEMMA OwnsHolds == \A d, x : Owns(d, x) => Holds(d, x)
BY DEF Owns, Holds, LiveOwned, Granted

LEMMA NoOwner ==
  ASSUME Inv, bridge.state # "WAIT", NEW y \in Addrs, y = bridge.addr,
         \/ Cardinality(Sharers(y, bridge.src)) # 1
         \/ bridge.state = "DONE" /\ bridge.type \in Reads
  PROVE \A d \in Devices \ {bridge.src} : ~Owns(d, y)
<1> SUFFICES ASSUME NEW d \in Devices \ {bridge.src}, Owns(d, y) PROVE FALSE
  OBVIOUS
<1>1. CASE bridge.state = "DONE" /\ bridge.type \in Reads
  BY <1>1, NobodyOwes DEF Inv, SnoopInv, Round, NoneOwns, Asked
<1>2. CASE Cardinality(Sharers(y, bridge.src)) # 1
  <2>1. d \in Sharers(y, bridge.src)
    BY NobodyOwes, OwnsHolds DEF Sharers
  <2>2. \A e \in Sharers(y, bridge.src) : e = d
    BY DEF Sharers, Inv, SnoopInv, Alone
  <2>3. Sharers(y, bridge.src) = {d}
    BY <2>1, <2>2
  <2> QED
    BY <1>2, <2>3, FS_Singleton
<1> QED
  BY <1>1, <1>2

LEMMA AwaitedHost ==
  ASSUME Inv, bridge.state # "INIT", bridge.src = Host
  PROVE /\ bridge.type \in RequestType
        /\ bridge.type \in Writes => proc[Host].pc = "flush"
        /\ bridge.type \notin Writes => proc[Host].addr = bridge.addr
<1>1. Host \in Agents /\ Host \notin Devices
  BY CxlCacheAssumption, ConstantTypes
<1>2. Served(Host) /\ Paired(Host)
  BY <1>1 DEF Served, Inv, RequestsPaired
<1>3. Idle.pc = "idle"
  BY DEF Idle
<1>4. Awaits(Host, bridge)
  BY <1>2, <1>3 DEF Paired, ServedRequest
<1>5. bridge.type \in RequestType
  BY <1>1 DEF Inv, TypeOK
<1> QED
  BY <1>4, <1>5 DEF Awaits, Writes

\* The host gets its answer: it has a copy then, but no device owns the line.
LEMMA HostAnswerKeeps ==
  ASSUME Inv, bridge.state \in {"START", "DONE"}, bridge.src = Host, NEW s, NEW data,
         Respond(Host, s, data), FinishBridge, UNCHANGED <<dcoh, up, down, d2hReq, d2hRsp, sf>>,
         bridge.type \in Writes \/ \A d \in Devices, x \in Addrs : x = bridge.addr => ~Owns(d, x)
  PROVE SnoopInv'
<1>1. bridge'.state = "INIT" /\ \A d \in Devices : ~Working(d)'
  BY DEF FinishBridge, BridgeIdle, Working
<1>2. ASSUME NEW d \in Devices
      PROVE ~Snooped(d)' /\ Pipe(d)' /\ (Go(d)' <=> Go(d))
  BY <1>1, NobodyOwes, DeviceInv, SameUp, SameDown, SameWaiting, PipeFrame
<1>3. Host \in Agents /\ Host \notin Devices /\ Devices \subseteq Agents
  BY CxlCacheAssumption, ConstantTypes
<1>4. PICK y : y = proc[Host].addr
  OBVIOUS
<1>5. FewerBut(Host, y) /\ (proc[Host].pc = "flush" => Fewer)
  BY <1>3, <1>4, FewerRespond DEF Inv
<1>6. \A d \in Devices, x \in Addrs : (Holds(d, x)' => Holds(d, x)) /\ (Owns(d, x)' => Owns(d, x))
  BY <1>2, <1>3, <1>5 DEF Holds, Owns, Granted, FewerBut
<1>7. \A d \in Devices, x \in Addrs : Holds(d, x)' => x \in sf'[d]
  BY <1>6, NobodyOwes
<1>8. Alone'
  <2>1. CASE bridge.type \in Writes
    <3>1. Fewer
      BY <1>5, <2>1, AwaitedHost
    <3>2. Less
      BY <1>3, <1>6, <3>1 DEF Less, Fewer
    <3> QED
      BY <3>2, AloneLess
  <2>2. CASE bridge.type \notin Writes
    <3>1. y = bridge.addr
      BY <1>4, <2>2, AwaitedHost
    <3>2. \A d \in Devices, x \in Addrs : Owns(d, x) => x # y
      BY <2>2, <3>1
    <3>3. \A x \in Addrs : x # y => (Live(Host, x)' => Live(Host, x))
      BY <1>3, <1>5 DEF FewerBut
    <3> QED
      BY <1>6, <3>2, <3>3 DEF Alone, Inv, SnoopInv
  <2> QED
    BY <2>1, <2>2
<1> QED
  BY <1>1, <1>2, <1>7, <1>8, RestFrame

LEMMA HostStepKeeps ==
  ASSUME Inv, HostWriteBack \/ HostFromMemory \/ HostDone
  PROVE SnoopInv'
<1>1. CASE HostWriteBack
  <2>1. bridge.src = Host
    BY <1>1 DEF HostWriteBack, Inv, TypeOK, D2HReqOpcode
  <2> QED
    BY <1>1, <2>1, HostAnswerKeeps DEF HostWriteBack, links, channels, Writes
<1>2. CASE HostFromMemory
  <2>1. bridge.src = Host /\ bridge.addr \in Addrs
    BY <1>2 DEF HostFromMemory, Inv, TypeOK, D2HReqOpcode
  <2>2. Cardinality(Sharers(bridge.addr, Host)) # 1
    BY <1>2, FS_EmptySet DEF HostFromMemory
  <2>3. \A d \in Devices, x \in Addrs : x = bridge.addr => ~Owns(d, x)
    BY <1>2, <2>1, <2>2, NoOwner, CxlCacheAssumption DEF HostFromMemory
  <2> QED
    BY <1>2, <2>1, <2>3, HostAnswerKeeps DEF HostFromMemory, links, channels
<1>3. CASE HostDone
  <2>1. bridge.src = Host /\ bridge.addr \in Addrs /\ bridge.state = "DONE"
    BY <1>3 DEF HostDone, Inv, TypeOK
  <2>2. bridge.type \in Invalidations \cup Reads
    BY <2>1 DEF Inv, SnoopInv, Account, Concluded
  <2>3. \A d \in Devices, x \in Addrs : x = bridge.addr => ~Owns(d, x)
    BY <2>1, <2>2, NoOwner, NoHolder, OwnsHolds, CxlCacheAssumption
  <2>4. PICK s, data : Respond(Host, s, data)
    BY <1>3 DEF HostDone
  <2> QED
    BY <1>3, <2>1, <2>3, <2>4, HostAnswerKeeps DEF HostDone, links
<1> QED
  BY <1>1, <1>2, <1>3

----------------------------------------------------------------------------
(* The steps of the bridge: answering a device.                            *)

LEMMA Bare ==
  ASSUME Inv, NEW d \in Devices, ~Go(d), ~Snooped(d)
  PROVE down[d] = <<>>
<1> SUFFICES ASSUME down[d] # <<>> PROVE FALSE
  OBVIOUS
<1>1. Len(down[d]) \in Nat /\ Len(down[d]) >= 1 /\ down[d] \in Seq(H2DReq \cup H2DRsp)
  BY DownTyped, DeviceInv
<1>2. down[d][1] \in H2DReq \cup H2DRsp
  BY <1>1
<1>3. down[d][1].ch = "req"
  BY <1>2, DownTyped, DeviceInv DEF Go
<1>4. Len(down[d]) = 1
  BY <1>3, DeviceInv DEF DownShape
<1> QED
  BY <1>3, <1>4 DEF Snooped, LastOf

\* The request the bridge works on is the one its device waits for.
LEMMA ServedDevice ==
  ASSUME Inv, NEW d \in Devices, Working(d)
  PROVE /\ dcoh[d].state \notin {"INIT", "START"}
        /\ Reqs(d) = {} /\ Waiting(d) = {} /\ ~Go(d)
        /\ dcoh[d].packet.type \in RequestType
        /\ bridge.addr = dcoh[d].packet.addr
        /\ bridge.type = D2HOpcode[dcoh[d].packet.type]
<1>1. dcoh[d].state \notin {"INIT", "START"}
  BY DeviceInv DEF Places
<1> QED
  BY <1>1, DeviceInv, Awaited DEF Places, Same

LEMMA FromDevice ==
  ASSUME Inv, bridge.state # "INIT", bridge.type \in D2HReqOpcode
  PROVE bridge.src \in Devices /\ bridge.addr \in Addrs
BY DEF Inv, TypeOK, RequestType, D2HReqOpcode

LEMMA PutGoPipe ==
  ASSUME Inv, bridge.state # "WAIT", NEW d \in Devices, Working(d), NEW p \in H2DRsp,
         p.opcode = GoOf[dcoh[d].packet.type], down' = [down EXCEPT ![d] = Append(@, p)],
         UNCHANGED <<dcoh, up, d2hReq>>, \A e \in Devices : ~Working(e)'
  PROVE /\ \A e \in Devices : ~Snooped(e)' /\ Pipe(e)'
        /\ \A e \in Devices : e # d => (Go(e)' <=> Go(e))
<1>1. down'[d] = Append(down[d], p) /\ \A e \in Devices : e # d => down'[e] = down[e]
  BY DEF Inv, TypeOK
<1>2. p.ch = "rsp" /\ p \in H2DReq \cup H2DRsp
  BY DEF H2DRsp
<1>3. down[d] = <<>>
  BY NobodyOwes, ServedDevice, Bare
<1>4. DownShape(d)' /\ Go(d)' /\ ~Snooped(d)' /\ down'[d][1] = p
  BY <1>1, <1>2, <1>3, PutGo, DeviceInv
<1>5. Pipe(d)'
  <2>1. Places(d)'
    BY ServedDevice, DeviceInv, SameUp, SameWaiting DEF Places
  <2>2. Same(d)'
    BY <1>4, ServedDevice, SameUp, SameWaiting DEF Same
  <2> QED
    BY <1>4, <2>1, <2>2 DEF Pipe
<1>6. ASSUME NEW e \in Devices, e # d
      PROVE ~Snooped(e)' /\ Pipe(e)' /\ (Go(e)' <=> Go(e))
  BY <1>1, <1>6, NobodyOwes, DeviceInv, SameUp, SameDown, SameWaiting, PipeFrame
<1> QED
  BY <1>4, <1>5, <1>6

\* A device is granted a line that no other device owns, and one to write
\* when nobody else has it.
LEMMA GrantKeeps ==
  ASSUME Inv, bridge.state \in {"START", "DONE"}, NEW d \in Devices, d = bridge.src,
         bridge.type \in {"RD_OWN_NO_DATA", "RD_SHARED"}, NEW p \in H2DRsp,
         p.opcode = IF bridge.type = "RD_OWN_NO_DATA" THEN "GO_E" ELSE "GO_S",
         down' = [down EXCEPT ![d] = Append(@, p)], Enter(d), FinishBridge, Fewer,
         UNCHANGED <<dcoh, up, d2hReq, d2hRsp>>,
         NEW y \in Addrs, y = bridge.addr,
         \A e \in Devices \ {d} : ~Owns(e, y),
         bridge.type = "RD_OWN_NO_DATA" =>
           ~Live(Host, y)' /\ \A e \in Devices \ {d} : ~Holds(e, y) /\ y \notin sf[e]
  PROVE SnoopInv'
<1>1. Working(d) /\ bridge'.state = "INIT" /\ \A e \in Devices : ~Working(e)'
  BY DEF Working, FinishBridge, BridgeIdle, Evicts
<1>2. /\ dcoh[d].packet.addr = y
      /\ dcoh[d].packet.type \in {"SNP_DATA", "SNP_INV"}
      /\ dcoh[d].packet.type = "SNP_INV" <=> bridge.type = "RD_OWN_NO_DATA"
      /\ p.opcode = GoOf[dcoh[d].packet.type]
  BY <1>1, ServedDevice DEF D2HOpcode, RequestType, GoOf
<1>3. /\ \A e \in Devices : ~Snooped(e)' /\ Pipe(e)'
      /\ \A e \in Devices : e # d => (Go(e)' <=> Go(e))
  BY <1>1, <1>2, PutGoPipe
<1>4. Host \in Agents /\ Devices \subseteq Agents
  BY ConstantTypes
<1>5. ASSUME NEW e \in Devices, NEW x \in Addrs
      PROVE /\ Holds(e, x)' => Holds(e, x) \/ (e = d /\ x = y)
            /\ Owns(e, x)' => Owns(e, x) \/ (e = d /\ x = y /\ bridge.type = "RD_OWN_NO_DATA")
  BY <1>2, <1>3, <1>4 DEF Holds, Owns, Granted, Fewer
<1>6. \A e \in Devices, x \in Addrs : x \in sf'[e] <=> x \in sf[e] \/ (e = d /\ x = y)
  BY DEF Enter, Inv, TypeOK
<1>7. \A e \in Devices, x \in Addrs : Holds(e, x)' => x \in sf'[e]
  BY <1>5, <1>6, NobodyOwes
<1>8. Alone'
  <2> SUFFICES ASSUME NEW e \in Devices, NEW x \in Addrs, Owns(e, x)'
               PROVE ~Live(Host, x)' /\ \A f \in Devices \ {e} : ~Holds(f, x)' /\ x \notin sf'[f]
    BY DEF Alone
  <2>1. CASE e = d /\ x = y /\ bridge.type = "RD_OWN_NO_DATA"
    BY <1>5, <1>6, <2>1
  <2>2. CASE Owns(e, x)
    <3>1. ~Live(Host, x) /\ \A f \in Devices \ {e} : ~Holds(f, x) /\ x \notin sf[f]
      BY <2>2 DEF Inv, SnoopInv, Alone
    <3>2. e = d \/ x # y
      BY <2>2
    <3> QED
      BY <1>4, <1>5, <1>6, <3>1, <3>2 DEF Fewer
  <2> QED
    BY <1>5, <2>1, <2>2
<1> QED
  BY <1>1, <1>3, <1>7, <1>8, RestFrame

LEMMA GrantOwnKeeps ==
  ASSUME Inv, bridge.state \in {"START", "DONE"}, bridge.type = "RD_OWN_NO_DATA",
         bridge.state = "START" => Sharers(bridge.addr, bridge.src) = {},
         GrantOwn(bridge.src)
  PROVE SnoopInv'
<1>1. bridge.src \in Devices /\ bridge.addr \in Addrs
  BY FromDevice DEF D2HReqOpcode
<1>2. PICK d \in Devices, y \in Addrs : d = bridge.src /\ y = bridge.addr
  BY <1>1
<1>3. PICK p : p = [ch |-> "rsp", opcode |-> "GO_E", data |-> InitVal]
  OBVIOUS
<1>4. p \in H2DRsp /\ p.opcode = "GO_E"
  BY <1>3, CxlCacheAssumption DEF H2DRsp
<1>5. /\ Snoop(Host, "SNP_INV", y) /\ down' = [down EXCEPT ![d] = Append(@, p)]
      /\ Enter(d) /\ FinishBridge /\ UNCHANGED <<proc, dcoh, up, d2hReq, d2hRsp>>
  BY <1>2, <1>3 DEF GrantOwn, InvalidateHost, channels
<1>6. Fewer /\ ~Live(Host, y)'
  BY <1>5, FewerSnoop, ConstantTypes DEF Inv
<1>7. \A e \in Devices \ {d} : ~Holds(e, y) /\ y \notin sf[e]
  BY <1>2, NoHolder DEF Invalidations
<1>8. \A e \in Devices \ {d} : ~Owns(e, y)
  BY <1>7, OwnsHolds
<1> QED
  BY <1>2, <1>4, <1>5, <1>6, <1>7, <1>8, GrantKeeps

LEMMA GrantSharedKeeps ==
  ASSUME Inv, bridge.state \in {"START", "DONE"}, bridge.type = "RD_SHARED",
         bridge.state = "START" => Cardinality(Sharers(bridge.addr, bridge.src)) # 1,
         NEW data \in Values, GrantShared(bridge.src, data),
         UNCHANGED cache \/ Snoop(Host, "SNP_DATA", bridge.addr)
  PROVE SnoopInv'
<1>1. bridge.src \in Devices /\ bridge.addr \in Addrs
  BY FromDevice DEF D2HReqOpcode
<1>2. PICK d \in Devices, y \in Addrs : d = bridge.src /\ y = bridge.addr
  BY <1>1
<1>3. PICK p : p = [ch |-> "rsp", opcode |-> "GO_S", data |-> data]
  OBVIOUS
<1>4. p \in H2DRsp /\ p.opcode = "GO_S"
  BY <1>3 DEF H2DRsp
<1>5. /\ down' = [down EXCEPT ![d] = Append(@, p)]
      /\ Enter(d) /\ FinishBridge /\ UNCHANGED <<proc, dcoh, up, d2hReq, d2hRsp>>
  BY <1>2, <1>3 DEF GrantShared
<1>6. Fewer
  <2>1. CASE UNCHANGED cache
    BY <1>5, <2>1 DEF Fewer, Live, LiveOwned, Valid, Evicting
  <2>2. CASE Snoop(Host, "SNP_DATA", y)
    BY <1>5, <2>2, FewerSnoop, ConstantTypes DEF Inv
  <2> QED
    BY <1>2, <2>1, <2>2
<1>7. \A e \in Devices \ {d} : ~Owns(e, y)
  BY <1>2, NoOwner DEF Reads
<1> QED
  BY <1>2, <1>4, <1>5, <1>6, <1>7, GrantKeeps

LEMMA EvictKeeps ==
  ASSUME Inv, DeviceEvict
  PROVE SnoopInv'
<1>1. bridge.type \in Evicts /\ bridge.state \in {"START", "DONE"}
  BY DEF DeviceEvict, Evicts
<1>2. PICK d \in Devices, y \in Addrs : d = bridge.src /\ y = bridge.addr
  BY <1>1, FromDevice DEF Evicts, D2HReqOpcode
<1>3. UNCHANGED <<cache, proc, dcoh, up, d2hReq, d2hRsp>>
  BY DEF DeviceEvict, controllers
<1>4. Fewer
  BY <1>3 DEF Fewer, Live, LiveOwned, Valid, Evicting
<1>5. d # Host
  BY CxlCacheAssumption
<1>6. CASE bridge.state = "START"
  <2>1. PICK p : p = [ch |-> "rsp", data |-> InitVal, opcode |->
                      IF bridge.type = "DIRTY_EVICT" THEN "GO_WRITE_PULL" ELSE "GO_I"]
    OBVIOUS
  <2>2. /\ down' = [down EXCEPT ![d] = Append(@, p)] /\ UNCHANGED sf
        /\ bridge'.state = "DONE" /\ bridge'.src = d /\ bridge'.addr = y
        /\ bridge'.type = bridge.type
    BY <1>2, <1>6, <2>1 DEF DeviceEvict, Inv, TypeOK
  <2>3. p \in H2DRsp
    BY <2>1, CxlCacheAssumption DEF H2DRsp
  <2>4. Working(d) /\ \A e \in Devices : ~Working(e)'
    BY <1>1, <1>2, <1>6, <2>2 DEF Working
  <2>5. dcoh[d].state # "INIT" /\ dcoh[d].packet.addr = y /\ dcoh[d].packet.type \in Writes
    BY <1>1, <1>2, <2>4, ServedDevice DEF D2HOpcode, RequestType, Writes, Evicts
  <2>6. p.opcode = GoOf[dcoh[d].packet.type]
    BY <1>1, <2>1, <2>4, <2>5, ServedDevice DEF D2HOpcode, GoOf, Writes, Evicts
  <2>7. /\ \A e \in Devices : ~Snooped(e)' /\ Pipe(e)'
        /\ \A e \in Devices : e # d => (Go(e)' <=> Go(e))
    BY <1>3, <1>6, <2>2, <2>3, <2>4, <2>6, PutGoPipe
  <2>8. Less
    <3>1. Devices \subseteq Agents /\ Host \in Agents
      BY ConstantTypes
    <3>2. ASSUME NEW e \in Devices, NEW x \in Addrs
          PROVE (Holds(e, x)' => Holds(e, x)) /\ (Owns(e, x)' => Owns(e, x))
      BY <1>3, <1>4, <2>5, <2>7, <3>1 DEF Holds, Owns, Granted, Fewer, Writes
    <3> QED
      BY <1>4, <3>1, <3>2 DEF Less, Fewer
  <2>9. \A e \in Devices : Rsps(e)' = {} /\ ~Failed(e)'
    BY <1>3, <1>6, NobodyOwes, SameUp DEF Failed
  <2>10. Account'
    <3>1. Owing' = {} /\ d2hRsp' = <<>>
      BY <1>3, <1>6, <2>7, <2>9, NobodyOwes DEF Owing, Owes
    <3>2. \A e \in Devices : OneDebt(e)'
      BY <2>7, <2>9, NoDebt
    <3>3. Quiet' /\ Counted' /\ Concluded'
      BY <1>1, <1>5, <2>2, <3>1 DEF Quiet, Counted, Concluded, Evicts, Invalidations
    <3> QED
      BY <3>2, <3>3 DEF Account
  <2>11. Included'
    BY <1>6, <2>2, <2>8, NobodyOwes DEF Included, Less
  <2>12. Alone'
    BY <2>2, <2>8, AloneLess
  <2>13. ~Holds(d, y)'
    <3>1. Evicting(d, y)
      BY <2>5, Awaited DEF Evicting
    <3>2. ~Live(d, y)'
      BY <1>3, <3>1 DEF Live, Evicting
    <3> QED
      BY <1>3, <2>5, <3>2 DEF Holds, Granted, Writes
  <2>14. Round'
    <3>1. Evicted'
      BY <2>2, <2>13 DEF Evicted
    <3>2. AllGone' /\ NoneOwns' /\ GoneMeansGone'
      BY <1>1, <2>2 DEF AllGone, NoneOwns, GoneMeansGone, Evicts, Invalidations, Reads
    <3> QED
      BY <3>1, <3>2 DEF Round
  <2> QED
    BY <2>7, <2>10, <2>11, <2>12, <2>14 DEF SnoopInv
<1>7. CASE bridge.state = "DONE"
  <2>1. /\ UNCHANGED down /\ sf' = [sf EXCEPT ![d] = @ \ {y}]
        /\ bridge'.state = "INIT"
    BY <1>2, <1>7 DEF DeviceEvict, FinishBridge, BridgeIdle
  <2>2. \A e \in Devices : ~Working(e)'
    BY <2>1 DEF Working
  <2>3. ASSUME NEW e \in Devices
        PROVE ~Snooped(e)' /\ Pipe(e)' /\ (Go(e)' <=> Go(e))
    BY <1>3, <1>7, <2>1, <2>2, NobodyOwes, DeviceInv, SameUp, SameDown, SameWaiting, PipeFrame
  <2>4. Less
    BY <1>3, <1>4, <2>3, FewerLess
  <2>5. \A e \in Devices, x \in Addrs : x \in sf'[e] <=> x \in sf[e] /\ ~(e = d /\ x = y)
    BY <2>1 DEF Inv, TypeOK
  <2>6. ~Holds(d, y)
    BY <1>1, <1>2, <1>7 DEF Inv, SnoopInv, Round, Evicted
  <2>7. \A e \in Devices, x \in Addrs : Holds(e, x)' => x \in sf'[e]
    BY <1>7, <2>4, <2>5, <2>6, NobodyOwes DEF Less
  <2>8. Alone'
    BY <2>4, <2>5 DEF Alone, Less, Inv, SnoopInv
  <2> QED
    BY <1>3, <1>7, <2>1, <2>3, <2>7, <2>8, RestFrame
<1> QED
  BY <1>1, <1>6, <1>7

----------------------------------------------------------------------------
(* The steps of the bridge: asking devices and taking their answers.       *)

LEMMA AskKeeps ==
  ASSUME Inv, bridge.state = "START", NEW y \in Addrs, y = bridge.addr,
         bridge.type \in Invalidations \cup Reads,
         NEW list \in SUBSET Devices, list = Sharers(y, bridge.src),
         bridge.type \in Reads => Cardinality(list) = 1,
         NEW rsp, BridgeSnoop(RoundSnoop, list, rsp),
         UNCHANGED <<cache, proc, dcoh, up, d2hReq, d2hRsp, sf>>
  PROVE SnoopInv'
<1>1. PICK p : p = [ch |-> "req", opcode |-> RoundSnoop, addr |-> y]
  OBVIOUS
<1>2. p \in H2DReq \cup H2DRsp /\ p.ch = "req" /\ p.opcode = RoundSnoop /\ p.addr = y
  BY <1>1 DEF H2DReq, RoundSnoop
<1>3. /\ \A d \in list : down'[d] = Append(down[d], p)
      /\ \A d \in Devices \ list : down'[d] = down[d]
  BY <1>1 DEF BridgeSnoop
<1>4. /\ bridge'.state = "WAIT" /\ bridge'.list = list
      /\ bridge'.addr = y /\ bridge'.type = bridge.type /\ bridge'.src = bridge.src
  BY DEF BridgeSnoop, Inv, TypeOK
<1>5. \A d : Working(d)' <=> Working(d)
  BY <1>4 DEF Working
<1>6. ASSUME NEW d \in Devices
      PROVE /\ DownShape(d)' /\ (Go(d)' <=> Go(d))
            /\ Go(d) => down'[d][1] = down[d][1]
            /\ Snooped(d)' <=> d \in list
            /\ d \in list => LastOf(down[d])' = p
  <2>1. CASE d \in list
    BY <1>2, <1>3, <2>1, NobodyOwes, DeviceInv, PutSnoop
  <2>2. CASE d \notin list
    BY <1>3, <2>2, NobodyOwes, DeviceInv, SameDown
  <2> QED
    BY <2>1, <2>2
<1>7. ASSUME NEW d \in Devices
      PROVE /\ Pipe(d)' /\ OneDebt(d)' /\ ~Failed(d)' /\ Rsps(d)' = {}
            /\ Owes(d)' <=> d \in list
  <2>1. Pipe(d)'
    BY <1>4, <1>5, <1>6, DeviceInv, SameUp, SameWaiting, PipeFrame
  <2>2. ~Failed(d)' /\ Rsps(d)' = {} /\ Once(up[d], "rsp")'
    BY NobodyOwes, SameUp, DeviceInv DEF Failed
  <2>3. OneDebt(d)'
    BY <1>2, <1>4, <1>6, <2>2 DEF OneDebt, RoundSnoop
  <2> QED
    BY <1>6, <2>1, <2>2, <2>3 DEF Owes
<1>8. Account'
  <2>1. Owing' = list /\ d2hRsp' = <<>>
    BY <1>7, NobodyOwes DEF Owing
  <2>2. Cardinality(list) \in Nat
    BY FiniteDevices
  <2>3. Counted'
    BY <1>4, <2>1, <2>2 DEF Counted, Sharers
  <2> QED
    BY <1>4, <1>7, <2>3 DEF Account, Quiet, Concluded
<1>9. Less
  <2>1. Fewer
    BY DEF Fewer, Live, LiveOwned, Valid, Evicting
  <2> QED
    BY <1>6, <2>1, FewerLess
<1>10. \A d \in Devices, x \in Addrs : Holds(d, x)' => x \in sf[d]
  BY <1>9, NobodyOwes DEF Less
<1>11. Included' /\ Alone'
  BY <1>9, <1>10, AloneLess DEF Included
<1>12. \A d \in Devices \ {bridge.src}, x \in Addrs : Holds(d, x)' /\ x = y => Snooped(d)'
  BY <1>6, <1>10 DEF Sharers
<1>13. \A d \in Devices, x \in Addrs : Owns(d, x)' => Holds(d, x)'
  BY DEF Owns, Holds, LiveOwned, Granted
<1>14. AllGone' /\ NoneOwns'
  BY <1>4, <1>12, <1>13 DEF AllGone, NoneOwns
<1>15. GoneMeansGone'
  <2>1. DOMAIN d2hRsp' = {}
    BY NobodyOwes
  <2> QED
    BY <1>4, <1>7, <2>1 DEF GoneMeansGone, AnsweredGone
<1> QED
  BY <1>4, <1>7, <1>8, <1>11, <1>14, <1>15 DEF SnoopInv, Round, Evicted

LEMMA HostSnoopKeeps ==
  ASSUME Inv, HostSnoopDevices
  PROVE SnoopInv'
<1>1. bridge.state = "START" /\ bridge.type \in {"SNP_DATA", "SNP_INV"} /\ bridge.src = Host
  BY DEF HostSnoopDevices, Inv, TypeOK, D2HReqOpcode
<1>2. PICK y \in Addrs : y = bridge.addr
  BY <1>1 DEF Inv, TypeOK
<1>3. PICK list \in SUBSET Devices : list = Sharers(y, Host)
  BY DEF Sharers
<1>4. PICK rsp : rsp = IF bridge.type = "SNP_DATA" THEN "OK" ELSE bridge.rsp
  OBVIOUS
<1>5. /\ bridge.type = "SNP_DATA" => Cardinality(list) = 1
      /\ BridgeSnoop(bridge.type, list, rsp)
      /\ UNCHANGED <<cache, proc, dcoh, up, d2hReq, d2hRsp, sf>>
  BY <1>2, <1>3, <1>4 DEF HostSnoopDevices, controllers, channels
<1>6. bridge.type = RoundSnoop /\ bridge.type \in Invalidations \cup Reads
  BY <1>1 DEF RoundSnoop, Invalidations, Reads
<1> QED
  BY <1>1, <1>2, <1>3, <1>5, <1>6, AskKeeps DEF Reads

LEMMA DeviceOwnKeeps ==
  ASSUME Inv, DeviceOwn
  PROVE SnoopInv'
<1>1. bridge.type = "RD_OWN_NO_DATA" /\ bridge.state \in {"START", "DONE"}
  BY DEF DeviceOwn
<1>2. CASE bridge.state = "START" /\ Sharers(bridge.addr, bridge.src) # {}
  <2>1. PICK y \in Addrs : y = bridge.addr
    BY <1>1, FromDevice DEF D2HReqOpcode
  <2>2. PICK list \in SUBSET Devices : list = Sharers(y, bridge.src)
    BY DEF Sharers
  <2>3. PICK rsp : rsp = bridge.rsp
    OBVIOUS
  <2>4. /\ BridgeSnoop("SNP_INV", list, rsp)
        /\ UNCHANGED <<cache, proc, dcoh, up, d2hReq, d2hRsp, sf>>
    BY <1>2, <2>1, <2>2, <2>3 DEF DeviceOwn, controllers, channels
  <2>5. RoundSnoop = "SNP_INV" /\ bridge.type \in Invalidations \cup Reads /\ bridge.type \notin Reads
    BY <1>1 DEF RoundSnoop, Invalidations, Reads
  <2> QED
    BY <1>2, <2>1, <2>2, <2>4, <2>5, AskKeeps
<1>3. CASE ~(bridge.state = "START" /\ Sharers(bridge.addr, bridge.src) # {})
  <2>1. GrantOwn(bridge.src)
    BY <1>3 DEF DeviceOwn
  <2> QED
    BY <1>1, <1>3, <2>1, GrantOwnKeeps
<1> QED
  BY <1>2, <1>3

LEMMA DeviceReadKeeps ==
  ASSUME Inv, DeviceRead
  PROVE SnoopInv'
<1>1. bridge.type = "RD_SHARED" /\ bridge.state \in {"START", "DONE"}
  BY DEF DeviceRead
<1>2. PICK y \in Addrs : y = bridge.addr
  BY <1>1, FromDevice DEF D2HReqOpcode
<1>3. CASE bridge.state = "START" /\ Cardinality(Sharers(y, bridge.src)) = 1
  <2>1. PICK list \in SUBSET Devices : list = Sharers(y, bridge.src)
    BY DEF Sharers
  <2>2. /\ BridgeSnoop("SNP_DATA", list, "OK")
        /\ UNCHANGED <<cache, proc, dcoh, up, d2hReq, d2hRsp, sf>>
    BY <1>2, <1>3, <2>1 DEF DeviceRead, controllers, channels
  <2>3. RoundSnoop = "SNP_DATA" /\ bridge.type \in Invalidations \cup Reads
    BY <1>1 DEF RoundSnoop, Invalidations, Reads
  <2> QED
    BY <1>2, <1>3, <2>1, <2>2, <2>3, AskKeeps
<1>4. CASE ~(bridge.state = "START" /\ Cardinality(Sharers(y, bridge.src)) = 1)
  <2>1. PICK data \in Values :
          /\ GrantShared(bridge.src, data)
          /\ UNCHANGED cache \/ Snoop(Host, "SNP_DATA", bridge.addr)
    <3>1. HostData(y) \in Values
      BY ConstantTypes DEF HostData, Inv, TypeOK, ControllersTypeOK, CacheBlock
    <3>2. d2hData # <<>> => Head(d2hData).data \in Values
      <4>1. d2hData \in Seq(D2HData)
        BY DEF Inv, TypeOK
      <4>2. \A q \in Seq(D2HData) : q # <<>> => Head(q) \in D2HData
        BY HeadTailProperties
      <4>3. \A e \in D2HData : e.data \in Values
        BY DEF D2HData
      <4> QED
        BY <4>1, <4>2, <4>3
    <3> QED
      BY <1>2, <1>4, <3>1, <3>2 DEF DeviceRead, GrantFromHost
  <2> QED
    BY <1>1, <1>2, <1>4, <2>1, GrantSharedKeeps
<1> QED
  BY <1>3, <1>4

LEMMA BridgeResponseKeeps ==
  ASSUME Inv, BridgeResponse
  PROVE SnoopInv'
<1>1. bridge.state = "WAIT" /\ d2hRsp # <<>> /\ d2hRsp' = Tail(d2hRsp)
      /\ UNCHANGED <<cache, proc, dcoh, up, down, d2hReq>>
  BY DEF BridgeResponse, controllers, links
<1>2. PICK y, src : y = bridge.addr /\ src = bridge.src
  OBVIOUS
<1>3. PICK opcode : opcode = Head(d2hRsp).opcode
  OBVIOUS
<1>4. PICK last \in bridge.list :
        /\ bridge' = [bridge EXCEPT
                        !.list = bridge.list \ {last},
                        !.rsp = AnswerAfter(opcode, @),
                        !.state = IF bridge.list \ {last} = {} \/ opcode = "RSP_S_FWD_M"
                                    THEN "DONE" ELSE "WAIT"]
        /\ sf' = IF opcode \in Gone THEN [sf EXCEPT ![last] = @ \ {y}] ELSE sf
  BY <1>2, <1>3 DEF BridgeResponse, Gone
<1>5. PICK left : left = bridge.list \ {last}
  OBVIOUS
<1>6. /\ bridge'.list = left /\ bridge'.addr = y /\ bridge'.src = src /\ bridge'.type = bridge.type
      /\ bridge'.rsp = AnswerAfter(opcode, bridge.rsp)
      /\ bridge'.state = IF left = {} \/ opcode = "RSP_S_FWD_M" THEN "DONE" ELSE "WAIT"
  BY <1>2, <1>4, <1>5 DEF Inv, TypeOK
<1>7. /\ bridge.list \in SUBSET Devices /\ last \in Devices
      /\ d2hRsp \in Seq(D2HRsp) /\ sf \in [Devices -> SUBSET Addrs]
  BY <1>4 DEF Inv, TypeOK
<1>8. \A e \in Devices, x \in Addrs :
        x \in sf'[e] <=> x \in sf[e] /\ ~(opcode \in Gone /\ e = last /\ x = y)
  BY <1>4, <1>7
<1>9. /\ bridge.type \in Invalidations \cup Reads
      /\ Cardinality(Owing) + Len(d2hRsp) = Cardinality(bridge.list)
      /\ bridge.list = Sharers(y, src)
      /\ bridge.type \in Reads => Cardinality(bridge.list) = 1
      /\ bridge.type \in Invalidations => \A i \in DOMAIN d2hRsp : d2hRsp[i].opcode \in Gone
  BY <1>1, <1>2 DEF Inv, SnoopInv, Account, Counted
<1>10. /\ 1 \in DOMAIN d2hRsp /\ d2hRsp[1].opcode = opcode /\ opcode \in D2HRspOpcode
       /\ Len(d2hRsp) \in Nat /\ Len(d2hRsp) >= 1 /\ Len(d2hRsp') = Len(d2hRsp) - 1
       /\ \A i \in DOMAIN d2hRsp' : i + 1 \in DOMAIN d2hRsp /\ d2hRsp'[i] = d2hRsp[i + 1]
       /\ Len(d2hRsp') = 0 => d2hRsp' = <<>>
  <2>1. d2hRsp[1] \in D2HRsp /\ Head(d2hRsp) = d2hRsp[1] /\ 1 \in DOMAIN d2hRsp
    BY <1>1, <1>7
  <2>2. opcode \in D2HRspOpcode
    BY <1>3, <2>1 DEF D2HRsp
  <2>3. /\ Len(d2hRsp) \in Nat /\ Len(d2hRsp) >= 1 /\ Len(d2hRsp') = Len(d2hRsp) - 1
        /\ \A i \in DOMAIN d2hRsp' : i + 1 \in DOMAIN d2hRsp /\ d2hRsp'[i] = d2hRsp[i + 1]
        /\ d2hRsp' \in Seq(D2HRsp)
    BY <1>1, <1>7
  <2>4. Len(d2hRsp') = 0 => d2hRsp' = <<>>
    BY <2>3, NoLength
  <2> QED
    BY <1>3, <2>1, <2>2, <2>3, <2>4
<1>11. /\ bridge.type \in Invalidations => opcode \in Gone
       /\ bridge.type \in Reads => left = {}
       /\ "RSP_S_FWD_M" \notin Gone
  <2>1. bridge.type \in Reads => left = {}
    BY <1>5, <1>7, <1>9, OnlyOne
  <2> QED
    BY <1>9, <1>10, <2>1 DEF Gone
<1>12. bridge'.state = IF left = {} THEN "DONE" ELSE "WAIT"
  BY <1>6, <1>9, <1>11
<1>13. Cardinality(left) = Cardinality(bridge.list) - 1 /\ Cardinality(bridge.list) \in Nat
  BY <1>4, <1>5, <1>7, FiniteDevices, FS_RemoveElement
<1>14. bridge.type \in Invalidations => Sharers(y, src)' = left
  BY <1>5, <1>7, <1>8, <1>9, <1>11 DEF Sharers, Inv, TypeOK
<1>15. \A d : Working(d)' => Working(d)
  BY <1>1, <1>2, <1>6 DEF Working
<1>16. ASSUME NEW d \in Devices
       PROVE /\ Pipe(d)' /\ OneDebt(d)' /\ (Owes(d)' <=> Owes(d)) /\ (Go(d)' <=> Go(d))
             /\ Snooped(d)' <=> Snooped(d)
             /\ Failed(d)' <=> Failed(d)
  <2>1. Failed(d)' <=> Failed(d)
    BY <1>1 DEF Failed
  <2>2. Pipe(d)'
    BY <1>1, <1>2, <1>6, <1>15, DeviceInv, SameUp, SameDown, SameWaiting, PipeFrame
  <2>3. OneDebt(d)'
    BY <1>1, <1>2, <1>6, <2>1, DeviceInv, SameUp, SameDown, OneDebtFrame
  <2> QED
    BY <1>1, <2>1, <2>2, <2>3, SameUp, SameDown DEF Owes
<1>17. Owing' = Owing
  BY <1>16 DEF Owing
<1>18. left = {} => Owing = {} /\ d2hRsp' = <<>>
  <2> SUFFICES ASSUME left = {} PROVE Owing = {} /\ d2hRsp' = <<>>
    OBVIOUS
  <2>1. Cardinality(left) = 0
    BY FS_EmptySet
  <2>2. Cardinality(Owing) \in Nat /\ IsFiniteSet(Owing)
    BY FiniteDevices DEF Owing
  <2>3. Cardinality(Owing) = 0 /\ Len(d2hRsp') = 0
    <3>1. Cardinality(Owing) + Len(d2hRsp) = 1
      BY <1>9, <1>13, <2>1
    <3> QED
      BY <1>10, <2>2, <3>1
  <2> QED
    BY <1>10, <2>2, <2>3, FS_EmptySet
<1>19. Account'
  <2>1. Quiet'
    BY <1>12, <1>17, <1>18 DEF Quiet
  <2>2. Counted'
    <3> SUFFICES ASSUME left # {} PROVE Counted'
      BY <1>12 DEF Counted
    <3>1. bridge.type \in Invalidations /\ bridge.type \notin Reads
      BY <1>9, <1>11
    <3>2. Cardinality(Owing)' + Len(d2hRsp') = Cardinality(left)
      <4>1. Cardinality(Owing) \in Nat
        BY FiniteDevices DEF Owing
      <4> QED
        BY <1>9, <1>10, <1>13, <1>17, <4>1
    <3>3. \A i \in DOMAIN d2hRsp' : d2hRsp'[i].opcode \in Gone
      BY <1>9, <1>10, <3>1
    <3>4. Sharers(bridge.addr, bridge.src)' = left
      BY <1>2, <1>6, <1>14, <3>1 DEF Sharers
    <3> QED
      BY <1>6, <3>1, <3>2, <3>3, <3>4 DEF Counted
  <2>3. Concluded'
    <3> SUFFICES ASSUME left = {} PROVE Concluded'
      BY <1>12 DEF Concluded
    <3>1. bridge.type \in Invalidations => bridge'.rsp = "RSP_I"
      BY <1>6, <1>11 DEF AnswerAfter, Gone
    <3>2. bridge'.rsp \in {"RSP_I", "RSP_S", "RSP_M"}
      BY <1>6, <1>10 DEF AnswerAfter, D2HRspOpcode
    <3> QED
      BY <1>6, <1>9, <1>14, <3>1, <3>2 DEF Concluded, Sharers
  <2> QED
    BY <1>16, <2>1, <2>2, <2>3 DEF Account
<1>20. Less
  <2>1. Fewer
    BY <1>1 DEF Fewer, Live, LiveOwned, Valid, Evicting
  <2> QED
    BY <1>1, <1>16, <2>1, FewerLess
<1>21. Included'
  <2> SUFFICES ASSUME NEW d \in Devices, NEW x \in Addrs, Holds(d, x)', x \notin sf'[d]
               PROVE bridge'.state = "WAIT" /\ y = x /\ (Snooped(d)' \/ Failed(d)')
    BY <1>6 DEF Included
  <2>1. Holds(d, x)
    BY <1>20 DEF Less
  <2>2. CASE x \notin sf[d]
    <3>1. y = x /\ (Snooped(d) \/ Failed(d))
      BY <1>2, <2>1, <2>2 DEF Inv, SnoopInv, Included
    <3>2. Owing # {}
      BY <3>1 DEF Owing, Owes
    <3> QED
      BY <1>12, <1>16, <1>18, <3>1, <3>2
  <2>3. CASE opcode \in Gone /\ d = last /\ x = y
    <3>1. d # src /\ d \in bridge.list
      BY <1>4, <1>9, <2>3 DEF Sharers
    <3>2. CASE bridge.type \in Invalidations
      <4>1. Snooped(d) \/ Failed(d)
        BY <1>1, <1>2, <2>1, <2>3, <3>1, <3>2 DEF Inv, SnoopInv, Round, AllGone, Asked
      <4>2. Owing # {}
        BY <4>1 DEF Owing, Owes
      <4> QED
        BY <1>12, <1>16, <1>18, <2>3, <4>1, <4>2
    <3>3. CASE bridge.type \in Reads
      <4>1. AnsweredGone(d)
        BY <1>10, <2>3 DEF AnsweredGone
      <4> QED
        BY <1>1, <1>2, <2>1, <2>3, <3>1, <3>3, <4>1 DEF Inv, SnoopInv, Round, GoneMeansGone
    <3> QED
      BY <1>9, <3>2, <3>3
  <2> QED
    BY <1>8, <2>2, <2>3
<1>22. Alone'
  BY <1>8, <1>20 DEF Alone, Less, Inv, SnoopInv
<1>23. Round'
  <2>1. AllGone'
    BY <1>1, <1>2, <1>6, <1>16, <1>20 DEF AllGone, Asked, Less, Inv, SnoopInv, Round
  <2>2. NoneOwns'
    BY <1>1, <1>2, <1>6, <1>16, <1>20 DEF NoneOwns, Asked, Less, Inv, SnoopInv, Round
  <2>3. GoneMeansGone'
    BY <1>6, <1>11, <1>12 DEF GoneMeansGone
  <2>4. Evicted'
    BY <1>6, <1>9 DEF Evicted, Evicts, Invalidations, Reads
  <2> QED
    BY <2>1, <2>2, <2>3, <2>4 DEF Round
<1> QED
  BY <1>16, <1>19, <1>21, <1>22, <1>23 DEF SnoopInv

----------------------------------------------------------------------------
(* The invariant and what follows from it.                                 *)

LEMMA SnoopInit == Init => SnoopInv
<1> SUFFICES ASSUME Init PROVE SnoopInv
  OBVIOUS
<1>1. /\ \A a \in Agents : proc[a] = Idle
      /\ \A a \in Agents, x \in Addrs : cache[a][x].state = "I"
  BY DEF Init, ControllersInit, Invalid
<1>2. /\ \A d \in Devices : up[d] = <<>> /\ down[d] = <<>> /\ dcoh[d].state = "INIT" /\ sf[d] = {}
      /\ d2hReq = <<>> /\ d2hRsp = <<>> /\ bridge.state = "INIT"
  BY DEF Init, BridgeIdle
<1>3. ASSUME NEW d \in Devices
      PROVE /\ Reqs(d) = {} /\ Rsps(d) = {} /\ Waiting(d) = {}
            /\ Once(up[d], "req") /\ Once(up[d], "rsp") /\ OnceOfDevice(d2hReq, d)
            /\ ~Go(d) /\ ~Snooped(d) /\ ~Failed(d) /\ ~Working(d) /\ DownShape(d)
  <2>1. up[d] = <<>> /\ DOMAIN d2hReq = {}
    BY <1>2
  <2>2. Reqs(d) = {} /\ Rsps(d) = {} /\ Once(up[d], "req") /\ Once(up[d], "rsp")
    BY <2>1, OfEmpty DEF Reqs, Rsps
  <2>3. Waiting(d) = {} /\ OnceOfDevice(d2hReq, d)
    BY <2>1 DEF Waiting, OfDevice, OnceOfDevice
  <2> QED
    BY <1>2, <2>2, <2>3 DEF Go, Snooped, Failed, Working, DownShape
<1>4. \A d \in Devices : Pipe(d) /\ OneDebt(d)
  BY <1>3 DEF Pipe, Places, Same, OneDebt
<1>5. Owing = {}
  BY <1>3 DEF Owing, Owes
<1>6. Account
  BY <1>2, <1>4, <1>5 DEF Account, Quiet, Counted, Concluded
<1>7. \A d \in Devices, x \in Addrs : ~Holds(d, x) /\ ~Owns(d, x)
  BY <1>1, <1>3, ConstantTypes DEF Holds, Owns, LiveOwned, Live, Valid, Granted
<1>8. Included /\ Alone /\ Round
  BY <1>2, <1>7 DEF Included, Alone, Round, AllGone, NoneOwns, GoneMeansGone, Evicted, Asked
<1> QED
  BY <1>4, <1>6, <1>8 DEF SnoopInv

LEMMA StillKeeps ==
  ASSUME Inv, UNCHANGED vars
  PROVE SnoopInv'
<1>1. UNCHANGED <<up, down, dcoh, bridge, d2hReq, d2hRsp, sf, cache, proc>>
  BY DEF vars, controllers, protocol, links, channels
<1>2. ASSUME NEW d \in Devices
      PROVE Pipe(d)' /\ OneDebt(d)' /\ Obeys(d) /\ (Owes(d)' <=> Owes(d)) /\ (Go(d)' <=> Go(d))
  BY <1>1, SameWaiting, DeviceInv, StillDevice
<1>3. Account'
  BY <1>1, <1>2, AccountFrame DEF Inv, SnoopInv
<1>4. Less
  <2>1. Fewer
    BY <1>1 DEF Fewer, Live, LiveOwned, Valid, Evicting
  <2> QED
    BY <1>1, <1>2, <2>1, FewerLess
<1>5. \A d \in Devices : Honest(d)
  BY <1>1, SameUp DEF Honest, AnsweredGone
<1>6. bridge.list \subseteq Devices
  BY DEF Inv, TypeOK
<1>7. Included' /\ Alone' /\ Round'
  BY <1>1, <1>2, <1>4, <1>5, <1>6, CopiesFrame
<1> QED
  BY <1>2, <1>3, <1>7 DEF SnoopInv

LEMMA SnoopStep == Inv /\ [Next]_vars => SnoopInv'
<1> SUFFICES ASSUME Inv, [Next]_vars PROVE SnoopInv'
  OBVIOUS
<1>1. ASSUME NEW a \in Agents, NEW x \in Addrs, Load(a, x), UNCHANGED protocol
      PROVE  SnoopInv'
  <2>1. InitVal \in Values
    BY CxlCacheAssumption
  <2> QED
    BY <1>1, <2>1, ProcessorKeeps
<1>2. ASSUME NEW a \in Agents, NEW x \in Addrs, NEW v \in Values,
             Store(a, x, v), UNCHANGED protocol
      PROVE  SnoopInv'
  BY <1>2, ProcessorKeeps
<1>3. ASSUME NEW d \in Devices, BridgeReceive(d)
      PROVE  SnoopInv'
  BY <1>3, ReceiveKeeps
<1>4. CASE BridgeStep
  BY <1>4, TakeHostKeeps, TakeDeviceKeeps, BridgeResponseKeeps, HostStepKeeps, HostSnoopKeeps,
     DeviceOwnKeeps, DeviceReadKeeps, EvictKeeps DEF BridgeStep
<1>5. ASSUME NEW d \in Devices, DcohStep(d)
      PROVE  SnoopInv'
  BY <1>5, TakeKeeps, SendKeeps, ResponseKeeps, SnoopKeeps DEF DcohStep
<1>6. CASE UNCHANGED vars
  BY <1>6, StillKeeps
<1> QED
  BY <1>1, <1>2, <1>3, <1>4, <1>5, <1>6 DEF Next

LEMMA Inductive == Spec => []Inv
<1>1. Init => Inv
  BY TypeInit, PairedInit, SnoopInit DEF Inv
<1>2. Inv /\ [Next]_vars => Inv'
  BY TypeStep, PairedStep, SnoopStep DEF Inv
<1> QED
  BY <1>1, <1>2, PTL DEF Spec

(* Whatever the devices do and in whichever order their answers come in, a *)
(* line that a device may use is in the device's snoop filter, unless the  *)
(* bridge is half-way through a request for that line: the host never      *)
(* misses a device when it looks for the holders of a line                 *)
(* (CacheCoherencyBridge._snoop_filter_find_cache_list).                   *)
THEOREM FilterInclusive == Spec => []SnoopFilterInclusive
<1>1. Inv => SnoopFilterInclusive
  BY DEF Inv, SnoopInv, Included, Holds, SnoopFilterInclusive
<1> QED
  BY <1>1, Inductive, PTL

(* A device that holds a modified line is the only agent that may use it:  *)
(* no read of the host, or of another device, is answered from its cache   *)
(* with an older value while the device can write.                         *)
THEOREM DevicesOwnAlone == Spec => []DeviceOwnsAlone
<1>1. Inv => DeviceOwnsAlone
  <2> SUFFICES ASSUME Inv, NEW d \in Devices, NEW x \in Addrs, Live(d, x), cache[d][x].state = "M",
                      NEW a \in Agents \ {d}
               PROVE ~Live(a, x)
    BY DEF DeviceOwnsAlone
  <2>1. Owns(d, x)
    BY DEF Owns, LiveOwned
  <2>2. ~Live(Host, x) /\ \A e \in Devices \ {d} : ~Holds(e, x)
    BY <2>1 DEF Inv, SnoopInv, Alone
  <2> QED
    BY <2>2 DEF Agents, Holds
<1> QED
  BY <1>1, Inductive, PTL

(* When the bridge has all answers to a request of the host, the answer it *)
(* gives is one it supports, and to an invalidation that no copy is left:  *)
(* neither its "Unsupported for now" assert nor the assert of the store    *)
(* that waits for RSP_I can fail.                                          *)
THEOREM AnswersAlwaysSupported == Spec => []AnswersSupported
<1>1. Inv => AnswersSupported
  BY DEF Inv, SnoopInv, Account, Concluded, AnswersSupported, Invalidations
<1> QED
  BY <1>1, Inductive, PTL

----------------------------------------------------------------------------
(* Data: with one device, one writer per line, and a cache of the host     *)
(* that has room for all lines, the caches and the memory are one coherent *)
(* memory.                                                                 *)

OneDevice == NumDevices = 1
OneWriter == \A a, b \in Agents : a # b => Stores[a] \cap Stores[b] = {}
HostHolds == IsFiniteSet(Addrs) /\ Cardinality(Addrs) <= Ways[Host]
Setting   == OneDevice /\ OneWriter /\ HostHolds

\* The suspended load or store p is one that a's program can make.
Right(a, p) ==
  /\ p.pc = "fill" => p.op = "load"
  /\ p.pc = "own" => p.op = "store"
  /\ p.pc \in {"flush", "fill"} => ~Valid(a, p.addr)
  /\ p.pc # "idle" /\ p.op = "store" => p.addr \in Stores[a]

\* The host replaces nothing.
Program == proc[Host].pc # "flush" /\ \A a \in Agents : Right(a, proc[a])

\* What a cache may use is what was stored last.
Fresh == \A a \in Agents, x \in Addrs : Live(a, x) => cache[a][x].data = latest[x]

\* So is what a device has modified, even while it is being written back.
Dirty(d, x) == cache[d][x].state = "M"
DirtyFresh(d) == \A x \in Addrs :
  /\ cache[d][x].state # "E"
  /\ Dirty(d, x) => x \in Stores[d] /\ cache[d][x].data = latest[x] /\ x \in sf[d]

\* So is what a grant brings, and what a write-back takes along.
GoFresh(d) == \A x \in Addrs :
  Granted(d, x, {"SNP_DATA"}) => down[d][1].data = latest[x]
Pending(d, r) ==
  \/ \E i \in DOMAIN request[d] : request[d][i] = r
  \/ dcoh[d].state # "INIT" /\ dcoh[d].packet = r
Flushing(d) == \A r \in CacheRequest : Pending(d, r) =>
  /\ r.type = "WRITE_BACK" => r.data = latest[r.addr] /\ r.addr \in Stores[d]
  /\ r.type = "WRITE_BACK_CLEAN" => ~Dirty(d, r.addr)

\* When the host may write a line without asking, the device has no copy,
\* or the line is the device's to write.
HostAlone(d) == \A x \in Addrs :
  cache[Host][x].state \in {"E", "M"} /\ x \notin Stores[d] => ~Holds(d, x)

\* The device sends data when the bridge pulls them, or in answer to a snoop.
Data(d)    == Of(up[d], "data")
NoData(d)  == Data(d) = {} /\ d2hData = <<>>
OneData(d) == Once(up[d], "data") /\ Len(d2hData) <= 1 /\ (Data(d) = {} \/ d2hData = <<>>)
Pulling(d) == bridge.state = "DONE" /\ bridge.src = d /\ bridge.type = "DIRTY_EVICT"
Forwarded(d) ==
  /\ bridge.src = Host /\ bridge.type = "SNP_DATA"
  /\ \/ /\ bridge.state = "WAIT"
        /\ \/ \E r \in Rsps(d) : r.opcode = "RSP_S_FWD_M"
           \/ \E i \in DOMAIN d2hRsp : d2hRsp[i].opcode = "RSP_S_FWD_M"
     \/ bridge.state = "DONE" /\ bridge.rsp = "RSP_M"

\* There is one packet of data at most, for the bridge's request, and none
\* yet while the pull is on its way to the device.
Carried(d) ==
  /\ \A p \in Data(d) : p.data = latest[bridge.addr]
  /\ \A i \in DOMAIN d2hData : d2hData[i].data = latest[bridge.addr]
Moving(d) ==
  /\ OneData(d) /\ Carried(d)
  /\ ~NoData(d) => bridge.addr \in Stores[d] /\ (Pulling(d) \/ Forwarded(d))
  /\ \A x \in Addrs : Granted(d, x, {"WRITE_BACK"}) =>
       Pulling(d) /\ bridge.addr = x /\ NoData(d)

\* A device that has been answered an evict has no modified block of the line
\* any more, or is about to write it back.
Ended(d) == \A x \in Addrs :
  bridge.state = "DONE" /\ bridge.src = d /\ bridge.type \in Evicts /\ bridge.addr = x /\ Dirty(d, x)
    => Granted(d, x, {"WRITE_BACK"})

\* A device that has answered the host's read has no modified block of the
\* line any more, and no copy at all if it said so.
Found(d) == \A x \in Addrs :
  bridge.src = Host /\ bridge.type = "SNP_DATA" /\ bridge.addr = x =>
    /\ Asked /\ Dirty(d, x) => Snooped(d) \/ Failed(d)
    /\ bridge.state = "DONE" /\ bridge.rsp = "RSP_I" => ~Holds(d, x)

\* What was stored last is in the host's cache, in memory, with the device or
\* on its way from it, or is about to be replaced by what the device stores.
KeptBy(d, x) ==
  \/ Dirty(d, x) \/ Granted(d, x, {"SNP_INV"})
  \/ bridge.addr = x /\ ~NoData(d)
Stored == \A x \in Addrs :
  Valid(Host, x) \/ mem[x] = latest[x] \/ \E d \in Devices : KeptBy(d, x)

OfDev(d) == /\ DirtyFresh(d) /\ GoFresh(d) /\ Flushing(d) /\ HostAlone(d)
            /\ Moving(d) /\ Ended(d) /\ Found(d)
Kept  == Program /\ Fresh /\ (\A d \in Devices : OfDev(d)) /\ Stored
Facts == Inv /\ Kept

----------------------------------------------------------------------------
(* The copies the abstract memory sees, and its steps.                     *)

CopyOf(a, x) == IF Live(a, x) THEN cache[a][x].data ELSE None
Copies       == [a \in Agents |-> [x \in Addrs |-> CopyOf(a, x)]]
Refines      == Abstract!Next \/ UNCHANGED <<latest, Copies>>

\* Only the copy of x that a has changes: to v.
Recopies(a, x, v) ==
  \A b \in Agents, y \in Addrs : CopyOf(b, y)' = IF b = a /\ y = x THEN v ELSE CopyOf(b, y)

LEMMA RecopiesCopies ==
  ASSUME NEW a \in Agents, NEW x \in Addrs, NEW v, Recopies(a, x, v)
  PROVE  Copies' = [Copies EXCEPT ![a][x] = v]
BY DEF Copies, Recopies

LEMMA RefinesForget ==
  ASSUME NEW a \in Agents, NEW x \in Addrs, Recopies(a, x, None), latest' = latest
  PROVE  Refines
<1>1. Copies' = [Copies EXCEPT ![a][x] = None]
  BY RecopiesCopies
<1>2. Abstract!Forget(a, x)
  BY <1>1 DEF Abstract!Forget, Copies, CopyOf
<1> QED
  BY <1>2 DEF Refines, Abstract!Next

LEMMA RefinesObtain ==
  ASSUME NEW a \in Agents, NEW x \in Addrs, Recopies(a, x, latest[x]), latest' = latest
  PROVE  Refines
<1>1. Copies' = [Copies EXCEPT ![a][x] = latest[x]]
  BY RecopiesCopies
<1>2. Abstract!Obtain(a, x)
  BY <1>1 DEF Abstract!Obtain, Copies, CopyOf
<1> QED
  BY <1>2 DEF Refines, Abstract!Next

LEMMA RefinesWrite ==
  ASSUME NEW a \in Agents, NEW x \in Addrs, NEW v \in Values, Recopies(a, x, v),
         \A b \in Agents : b # a => ~Live(b, x), latest' = [latest EXCEPT ![x] = v]
  PROVE  Refines
<1>1. Copies' = [Copies EXCEPT ![a][x] = v]
  BY RecopiesCopies
<1>2. \A b \in Agents \ {a} : Copies[b][x] = None
  BY DEF Copies, CopyOf
<1>3. Abstract!Write(a, x, v)
  BY <1>1, <1>2 DEF Abstract!Write, Copies, CopyOf
<1> QED
  BY <1>3 DEF Refines, Abstract!Next

LEMMA RefinesStill ==
  ASSUME \A b \in Agents, y \in Addrs : CopyOf(b, y)' = CopyOf(b, y), latest' = latest
  PROVE  Refines
BY DEF Refines, Copies

----------------------------------------------------------------------------
(* What the operations of a controller do to its blocks and copies.        *)

\* The block of x in the cache of a is now b, no other has changed.
Recaches(a, x, b) ==
  \A c \in Agents, y \in Addrs : cache'[c][y] = IF c = a /\ y = x THEN b ELSE cache[c][y]

\* The processor of a gets the line x, with v as its value, and goes on.
Takes(a, x, s, v) ==
  /\ Recaches(a, x, [state |-> s, data |-> v]) /\ s # "I"
  /\ latest' = [latest EXCEPT ![x] = v]
  /\ proc' = [proc EXCEPT ![a] = Idle] /\ proc[a].pc # "flush"

\* The processor of a has given up the line x, and goes on to ask for its own.
GivesUp(a, x) ==
  /\ Recaches(a, x, Invalid) /\ latest' = latest /\ Evicting(a, x)
  /\ proc' = [proc EXCEPT ![a] = Asking(proc[a].op, proc[a].addr, proc[a].val)]

\* The processor of a starts to ask for a line, and has its copies still.
Asks(a, p) ==
  /\ UNCHANGED <<cache, latest>> /\ proc[a] = Idle
  /\ proc' = [proc EXCEPT ![a] = p] /\ Right(a, p)

LEMMA DataTypes ==
  ASSUME Facts
  PROVE  /\ Inv /\ TypeOK /\ ControllersTypeOK
         /\ cache \in [Agents -> [Addrs -> CacheBlock]] /\ proc \in [Agents -> {Idle} \cup Busy]
         /\ latest \in [Addrs -> Values] /\ mem \in [Addrs -> Values]
         /\ request \in [Agents -> Seq(CacheRequest)] /\ sf \in [Devices -> SUBSET Addrs]
         /\ d2hData \in Seq(D2HData)
BY DEF Facts, Inv, TypeOK, ControllersTypeOK

LEMMA AgentTypes ==
  /\ Host \in Agents /\ Host \notin Devices /\ Devices \subseteq Agents
  /\ \A a \in Agents : a = Host \/ a \in Devices
BY CxlCacheAssumption DEF Agents

LEMMA KeptParts ==
  ASSUME Facts
  PROVE  /\ Inv /\ Program /\ Fresh /\ Stored
         /\ \A d \in Devices : /\ DirtyFresh(d) /\ GoFresh(d) /\ Flushing(d) /\ HostAlone(d)
                               /\ Moving(d) /\ Ended(d) /\ Found(d)
         /\ \A a \in Agents : Right(a, proc[a])
         /\ proc[Host].pc # "flush"
BY DEF Facts, Kept, OfDev, Program

\* While the controllers do nothing, their copies are what they were.
LEMMA StillCopies ==
  ASSUME Facts, UNCHANGED <<cache, proc, latest>>
  PROVE  Program' /\ Fresh' /\ Refines
<1>1. Program /\ Fresh
  BY KeptParts
<1>2. \A a, x : Valid(a, x)' = Valid(a, x) /\ Live(a, x)' = Live(a, x) /\ CopyOf(a, x)' = CopyOf(a, x)
  BY DEF Valid, CopyOf, Live, Evicting
<1>3. Program'
  BY <1>1, <1>2 DEF Program, Right
<1>4. Fresh'
  BY <1>1, <1>2 DEF Fresh
<1> QED
  BY <1>2, <1>3, <1>4, RefinesStill

LEMMA TakesCopies ==
  ASSUME Facts, NEW a \in Agents, NEW x \in Addrs, NEW s, NEW v \in Values, Takes(a, x, s, v),
         v = latest[x] \/ (\A b \in Agents : b # a => ~Live(b, x))
  PROVE  Program' /\ Fresh' /\ Refines
<1>1. Program /\ Fresh /\ proc \in [Agents -> {Idle} \cup Busy] /\ latest \in [Addrs -> Values]
  BY KeptParts, DataTypes
<1>2. /\ \A c \in Agents : c # a => proc'[c] = proc[c]
      /\ proc'[a] = Idle /\ Idle.pc = "idle"
      /\ \A y \in Addrs : latest'[y] = IF y = x THEN v ELSE latest[y]
  BY <1>1 DEF Takes, Idle
<1>3. \A c \in Agents, y \in Addrs :
        cache'[c][y] = IF c = a /\ y = x THEN [state |-> s, data |-> v] ELSE cache[c][y]
  BY DEF Takes, Recaches
<1>4. \A c \in Agents, y \in Addrs : Evicting(c, y)' = Evicting(c, y)
  BY <1>2 DEF Takes, Evicting
<1>5. \A y \in Addrs : ~Evicting(a, y)
  BY DEF Takes, Evicting
<1>6. \A c \in Agents, y \in Addrs : Valid(c, y)' <=> (c = a /\ y = x) \/ Valid(c, y)
  BY <1>3 DEF Takes, Valid
<1>7. \A c \in Agents, y \in Addrs : Live(c, y)' <=> (c = a /\ y = x) \/ Live(c, y)
  BY <1>4, <1>5, <1>6 DEF Live
<1>8. Program'
  <2>1. ASSUME NEW c \in Agents PROVE Right(c, proc[c])'
    <3>1. CASE c = a
      BY <1>2, <3>1 DEF Right
    <3>2. CASE c # a
      <4>1. Right(c, proc[c]) /\ proc'[c] = proc[c]
        BY <1>1, <1>2, <3>2 DEF Program
      <4>2. proc[c].pc # "idle" => proc[c].addr \in Addrs
        BY <1>1 DEF Idle, Busy
      <4>3. proc[c].pc # "idle" => (Valid(c, proc[c].addr)' <=> Valid(c, proc[c].addr))
        BY <1>2, <1>6, <3>2, <4>1, <4>2
      <4> QED
        BY <4>1, <4>3 DEF Right
    <3> QED
      BY <3>1, <3>2
  <2>2. proc'[Host].pc # "flush"
    BY <1>1, <1>2, AgentTypes DEF Program
  <2> QED
    BY <2>1, <2>2 DEF Program
<1>9. Fresh'
  <2> SUFFICES ASSUME NEW c \in Agents, NEW y \in Addrs, Live(c, y)'
               PROVE  cache'[c][y].data = latest'[y]
    BY DEF Fresh
  <2>1. CASE c = a /\ y = x
    BY <1>2, <1>3, <2>1
  <2>2. CASE ~(c = a /\ y = x)
    BY <1>1, <1>2, <1>3, <1>7, <2>2 DEF Fresh
  <2> QED
    BY <2>1, <2>2
<1>10. Recopies(a, x, v)
  BY <1>3, <1>7 DEF Recopies, CopyOf
<1>11. CASE v = latest[x]
  <2>1. latest' = latest
    BY <1>1, <1>11 DEF Takes
  <2> QED
    BY <1>8, <1>9, <1>10, <1>11, <2>1, RefinesObtain
<1>12. CASE \A b \in Agents : b # a => ~Live(b, x)
  BY <1>8, <1>9, <1>10, <1>12, RefinesWrite DEF Takes
<1> QED
  BY <1>11, <1>12

LEMMA GivesUpCopies ==
  ASSUME Facts, NEW a \in Agents, NEW x \in Addrs, GivesUp(a, x)
  PROVE  /\ Program' /\ Fresh' /\ Refines
         /\ \A c \in Agents, y \in Addrs : Live(c, y)' <=> Live(c, y)
<1>1. Program /\ Fresh /\ proc \in [Agents -> {Idle} \cup Busy]
  BY KeptParts, DataTypes
<1>2. proc[a].pc = "flush" /\ proc[a].victim = x
  BY DEF GivesUp, Evicting
<1>3. proc[a] \in Busy /\ a # Host
  BY <1>1, <1>2, AgentTypes DEF Idle, Program
<1>4. PICK p : p = Asking(proc[a].op, proc[a].addr, proc[a].val)
  OBVIOUS
<1>5. /\ p.pc \in {"fill", "own"} /\ p.addr = proc[a].addr /\ p.op = proc[a].op
      /\ (p.pc = "fill" <=> p.op = "load") /\ (p.pc = "own" => p.op # "load")
  BY <1>4 DEF Asking
<1>6. /\ \A c \in Agents : c # a => proc'[c] = proc[c]
      /\ proc'[a] = p
  BY <1>1, <1>4 DEF GivesUp
<1>7. \A c \in Agents, y \in Addrs : cache'[c][y] = IF c = a /\ y = x THEN Invalid ELSE cache[c][y]
  BY DEF GivesUp, Recaches
<1>8. \A c \in Agents, y \in Addrs : Valid(c, y)' <=> ~(c = a /\ y = x) /\ Valid(c, y)
  BY <1>7 DEF Valid, Invalid
<1>9. \A c \in Agents, y \in Addrs : Evicting(c, y)' <=> c # a /\ Evicting(c, y)
  BY <1>5, <1>6 DEF Evicting
<1>10. \A y \in Addrs : Evicting(a, y) => y = x
  BY <1>2 DEF Evicting
<1>11. \A c \in Agents, y \in Addrs : Live(c, y)' <=> Live(c, y)
  BY <1>2, <1>8, <1>9, <1>10 DEF Live, Evicting
<1>12. Program'
  <2>1. ASSUME NEW c \in Agents PROVE Right(c, proc[c])'
    <3>1. Right(c, proc[c])
      BY <1>1 DEF Program
    <3>2. proc[c].pc # "idle" => proc[c].addr \in Addrs
      BY <1>1 DEF Idle, Busy
    <3>3. proc[c].pc # "idle" => (Valid(c, proc[c].addr)' => Valid(c, proc[c].addr) \/ c = a)
      <4>1. CASE c = a
        BY <4>1
      <4>2. CASE c # a
        BY <1>6, <1>8, <3>2, <4>2
      <4> QED
        BY <4>1, <4>2
    <3>4. CASE c # a
      BY <1>6, <3>1, <3>3, <3>4 DEF Right
    <3>5. CASE c = a
      <4>1. ~Valid(a, p.addr) /\ p.addr \in Addrs
        BY <1>2, <1>5, <3>1, <3>2, <3>5 DEF Right
      <4>2. ~Valid(a, p.addr)'
        BY <1>4, <1>5, <1>8, <4>1
      <4>3. p.op \in {"load", "store"}
        BY <1>3, <1>5 DEF Busy
      <4>4. p.op = "store" => p.addr \in Stores[a]
        BY <1>2, <1>5, <3>1, <3>5 DEF Right
      <4>5. Right(a, p)'
        BY <1>5, <4>2, <4>3, <4>4 DEF Right
      <4> QED
        BY <1>6, <3>5, <4>5 DEF Right
    <3> QED
      BY <3>4, <3>5
  <2>2. proc'[Host].pc # "flush"
    BY <1>1, <1>3, <1>6, AgentTypes DEF Program
  <2> QED
    BY <2>1, <2>2 DEF Program
<1>13. Fresh'
  BY <1>1, <1>7, <1>8, <1>11 DEF Fresh, Live, GivesUp
<1>14. \A c \in Agents, y \in Addrs : CopyOf(c, y)' = CopyOf(c, y)
  BY <1>7, <1>8, <1>11 DEF CopyOf, Live
<1> QED
  BY <1>11, <1>12, <1>13, <1>14, RefinesStill DEF GivesUp

LEMMA SnoopRecaches ==
  ASSUME TypeOK, NEW a \in Agents, NEW type, NEW x \in Addrs, Snoop(a, type, x)
  PROVE  Recaches(a, x, IF type = "SNP_INV" \/ cache[a][x].state = "I" THEN Invalid
                        ELSE [state |-> "S", data |-> cache[a][x].data])
<1>1. cache \in [Agents -> [Addrs -> CacheBlock]]
  BY DEF TypeOK, ControllersTypeOK
<1> QED
  BY <1>1 DEF Snoop, Recaches

LEMMA SnoopCopies ==
  ASSUME Facts, NEW a \in Agents, NEW type, NEW x \in Addrs, Snoop(a, type, x),
         UNCHANGED <<proc, latest>>
  PROVE  Program' /\ Fresh' /\ Refines
<1>1. Program /\ Fresh /\ proc \in [Agents -> {Idle} \cup Busy]
  BY KeptParts, DataTypes
<1>2. \A c \in Agents, y \in Addrs : Evicting(c, y)' = Evicting(c, y)
  BY DEF Evicting
<1>3. PICK b : b = IF type = "SNP_INV" \/ cache[a][x].state = "I" THEN Invalid
                   ELSE [state |-> "S", data |-> cache[a][x].data]
  OBVIOUS
<1>4. \A c \in Agents, y \in Addrs : cache'[c][y] = IF c = a /\ y = x THEN b ELSE cache[c][y]
  BY <1>3, SnoopRecaches, DataTypes DEF Recaches
<1>5. /\ b.state # "I" <=> ~(type = "SNP_INV" \/ cache[a][x].state = "I")
      /\ b.state # "I" => b.data = cache[a][x].data
  BY <1>3 DEF Invalid
<1>6. \A c \in Agents, y \in Addrs : Valid(c, y)' => Valid(c, y) /\ cache'[c][y].data = cache[c][y].data
  BY <1>4, <1>5 DEF Valid
<1>7. Program'
  <2>1. ASSUME NEW c \in Agents PROVE Right(c, proc[c])'
    <3>1. Right(c, proc[c])
      BY <1>1 DEF Program
    <3>2. proc[c].pc # "idle" => proc[c].addr \in Addrs
      BY <1>1 DEF Idle, Busy
    <3>3. proc[c].pc # "idle" => (Valid(c, proc[c].addr)' => Valid(c, proc[c].addr))
      BY <1>6, <3>2
    <3> QED
      BY <3>1, <3>3 DEF Right
  <2> QED
    BY <1>1, <2>1 DEF Program
<1>8. Fresh'
  BY <1>1, <1>2, <1>6 DEF Fresh, Live
<1>9. CASE type = "SNP_INV" \/ cache[a][x].state = "I"
  <2>1. Recopies(a, x, None)
    BY <1>2, <1>4, <1>5, <1>9 DEF Recopies, CopyOf, Live, Valid
  <2> QED
    BY <1>7, <1>8, <2>1, RefinesForget
<1>10. CASE ~(type = "SNP_INV" \/ cache[a][x].state = "I")
  <2>1. \A c \in Agents, y \in Addrs : CopyOf(c, y)' = CopyOf(c, y)
    BY <1>2, <1>4, <1>5, <1>10 DEF CopyOf, Live, Valid
  <2> QED
    BY <1>7, <1>8, <2>1, RefinesStill
<1> QED
  BY <1>9, <1>10

\* The processor waits from now on; if it flushes a victim, it cannot use that
\* one any more.
LEMMA AsksCopies ==
  ASSUME Facts, NEW a \in Agents, NEW p \in Busy, Asks(a, p),
         p.pc = "flush" => a # Host
  PROVE  Program' /\ Fresh' /\ Refines
<1>1. Program /\ Fresh /\ proc \in [Agents -> {Idle} \cup Busy]
  BY KeptParts, DataTypes
<1>2. /\ \A c \in Agents : c # a => proc'[c] = proc[c]
      /\ proc'[a] = p /\ proc[a].pc = "idle" /\ UNCHANGED <<cache, latest>>
  BY <1>1 DEF Asks, Idle
<1>3. \A c \in Agents, y \in Addrs : Evicting(c, y)' <=> IF c = a THEN p.pc = "flush" /\ y = p.victim
                                                         ELSE Evicting(c, y)
  BY <1>2 DEF Evicting
<1>4. \A y \in Addrs : ~Evicting(a, y)
  BY <1>2 DEF Evicting
<1>5. \A c, y : Valid(c, y)' <=> Valid(c, y)
  BY <1>2 DEF Valid
<1>6. \A c \in Agents, y \in Addrs : Live(c, y)' <=> Live(c, y) /\ ~(c = a /\ p.pc = "flush" /\ y = p.victim)
  BY <1>3, <1>4, <1>5 DEF Live
<1>7. Program'
  <2>1. \A c \in Agents : Right(c, proc[c])'
    BY <1>1, <1>2, <1>5 DEF Program, Right, Asks
  <2>2. proc'[Host].pc # "flush"
    BY <1>1, <1>2, AgentTypes DEF Program
  <2> QED
    BY <2>1, <2>2 DEF Program
<1>8. Fresh'
  BY <1>1, <1>2, <1>6 DEF Fresh
<1>9. CASE p.pc = "flush"
  <2>1. p.victim \in Addrs
    BY DEF Busy
  <2>2. Recopies(a, p.victim, None)
    BY <1>2, <1>6, <1>9 DEF Recopies, CopyOf
  <2> QED
    BY <1>2, <1>7, <1>8, <2>1, <2>2, RefinesForget
<1>10. CASE p.pc # "flush"
  <2>1. \A c \in Agents, y \in Addrs : CopyOf(c, y)' = CopyOf(c, y)
    BY <1>2, <1>6, <1>10 DEF CopyOf
  <2> QED
    BY <1>2, <1>7, <1>8, <2>1, RefinesStill
<1> QED
  BY <1>9, <1>10

----------------------------------------------------------------------------
(* What the setting and the invariants give.                               *)

LEMMA Single ==
  ASSUME OneDevice, NEW d \in Devices
  PROVE  /\ \A e \in Devices : e = d
         /\ Devices = {d}
         /\ \A x : Sharers(x, d) = {}
         /\ \A x \in Addrs : Sharers(x, Host) = IF x \in sf[d] THEN {d} ELSE {}
<1>1. \A e \in Devices : e = 0
  BY CxlCacheAssumption DEF OneDevice, Devices
<1>2. \A e \in Devices : e = d
  BY <1>1
<1> QED
  BY <1>2, AgentTypes DEF Sharers

\* What a device has is in its snoop filter.
LEMMA InFilter ==
  ASSUME OneDevice, Facts, NEW d \in Devices, NEW x \in Addrs, Holds(d, x)
  PROVE  x \in sf[d]
<1> SUFFICES ASSUME x \notin sf[d] PROVE FALSE
  OBVIOUS
<1>1. bridge.state = "WAIT" /\ bridge.addr = x /\ (Snooped(d) \/ Failed(d))
  BY DataTypes DEF Inv, SnoopInv, Included
<1>2. d \in Owing
  BY <1>1 DEF Owing, Owes
<1>3. Cardinality(Owing) + Len(d2hRsp) = Cardinality(bridge.list) /\ bridge.list = Sharers(x, bridge.src)
  BY <1>1, DataTypes DEF Inv, SnoopInv, Account, Counted
<1>4. bridge.src \in Agents
  BY <1>1, DataTypes, AgentTypes DEF TypeOK
<1>5. bridge.list = {}
  BY <1>3, <1>4, Single, AgentTypes
<1>6. Owing = {d}
  BY <1>2, Single DEF Owing
<1>7. Cardinality(bridge.list) = 0 /\ Cardinality(Owing) = 1
  BY <1>5, <1>6, FS_EmptySet, FS_Singleton
<1>8. Len(d2hRsp) \in Nat
  BY DataTypes DEF TypeOK
<1> QED
  BY <1>3, <1>7, <1>8

\* While the bridge waits for an answer, it is the host's device snoop that is
\* answered, and there is one answer.
LEMMA OneAnswer ==
  ASSUME OneDevice, Facts, NEW d \in Devices, d2hRsp # <<>> \/ Owes(d)
  PROVE  /\ bridge.state = "WAIT" /\ bridge.src = Host /\ bridge.list = {d}
         /\ bridge.addr \in Addrs /\ bridge.addr \in sf[d]
         /\ d2hRsp # <<>> => Len(d2hRsp) = 1 /\ ~Owes(d)
<1>1. /\ d2hRsp \in Seq(D2HRsp) /\ Len(d2hRsp) \in Nat /\ (d2hRsp # <<>> => Len(d2hRsp) >= 1)
      /\ Inv
  <2>1. d2hRsp \in Seq(D2HRsp) /\ Inv
    BY DataTypes DEF TypeOK
  <2> QED
    BY <2>1
<1>2. bridge.state = "WAIT"
  BY <1>1 DEF Inv, SnoopInv, Account, Quiet, Owing
<1>3. bridge.addr \in Addrs /\ bridge.src \in Agents
  BY <1>2, DataTypes, AgentTypes DEF TypeOK
<1>4. /\ Cardinality(Owing) + Len(d2hRsp) = Cardinality(bridge.list)
      /\ bridge.list = Sharers(bridge.addr, bridge.src)
  BY <1>1, <1>2 DEF Inv, SnoopInv, Account, Counted
<1>5. Owing = IF Owes(d) THEN {d} ELSE {}
  BY Single DEF Owing
<1>6. Cardinality(Owing) = IF Owes(d) THEN 1 ELSE 0
  BY <1>5, FS_EmptySet, FS_Singleton
<1>7. bridge.list = {} \/ (bridge.src = Host /\ bridge.list = {d} /\ bridge.addr \in sf[d])
  BY <1>3, <1>4, Single, AgentTypes
<1>8. CASE bridge.list = {}
  <2>1. Cardinality(bridge.list) = 0
    BY <1>8, FS_EmptySet
  <2> QED
    BY <1>1, <1>4, <1>6, <2>1
<1>9. CASE bridge.src = Host /\ bridge.list = {d} /\ bridge.addr \in sf[d]
  <2>1. Cardinality(bridge.list) = 1
    BY <1>9, FS_Singleton
  <2>2. (IF Owes(d) THEN 1 ELSE 0) + Len(d2hRsp) = 1
    BY <1>4, <1>6, <2>1
  <2>3. d2hRsp # <<>> => Len(d2hRsp) = 1 /\ ~Owes(d)
    BY <1>1, <2>2
  <2> QED
    BY <1>2, <1>3, <1>9, <2>3
<1> QED
  BY <1>7, <1>8, <1>9

\* What the host asks for, it asks for its suspended load or store.
LEMMA HostAsks ==
  ASSUME Facts, bridge.state # "INIT", bridge.src = Host
  PROVE  /\ bridge.type \in {"SNP_DATA", "SNP_INV"} /\ bridge.addr \in Addrs
         /\ proc[Host].addr = bridge.addr
         /\ bridge.type = "SNP_DATA" => proc[Host].pc = "fill" /\ ~Valid(Host, bridge.addr)
         /\ bridge.type = "SNP_INV" => proc[Host].pc = "own" /\ bridge.addr \in Stores[Host]
<1>1. Paired(Host) /\ Served(Host) /\ Idle.pc = "idle"
  BY DataTypes, AgentTypes DEF Inv, RequestsPaired, Served, Idle
<1>2. Awaits(Host, bridge)
  BY <1>1 DEF Paired, ServedRequest
<1>3. bridge.addr \in Addrs
  BY DataTypes DEF TypeOK
<1>4. Right(Host, proc[Host]) /\ proc[Host].pc # "flush"
  BY KeptParts, AgentTypes
<1> QED
  BY <1>2, <1>3, <1>4 DEF Awaits, Right

\* So does the device.
LEMMA DeviceAsks ==
  ASSUME Facts, NEW d \in Devices, dcoh[d].state # "INIT"
  PROVE  /\ dcoh[d].packet \in CacheRequest /\ dcoh[d].packet.addr \in Addrs
         /\ dcoh[d].packet.type = "SNP_DATA" => ~Valid(d, dcoh[d].packet.addr)
         /\ dcoh[d].packet.type = "SNP_INV" => dcoh[d].packet.addr \in Stores[d]
         /\ request[d] = <<>> /\ proc[d].pc # "idle"
<1>1. d \in Agents /\ d # Host
  BY AgentTypes
<1>2. Paired(d) /\ Served(d) /\ Idle.pc = "idle"
  BY <1>1, DataTypes DEF Inv, RequestsPaired, Served, Idle
<1>3. request[d] = <<>> /\ Awaits(d, dcoh[d].packet)
  BY <1>1, <1>2 DEF Paired, ServedRequest
<1>4. dcoh[d].packet \in CacheRequest
  BY DataTypes DEF TypeOK
<1>5. Right(d, proc[d])
  BY <1>1, KeptParts
<1> QED
  BY <1>3, <1>4, <1>5 DEF Awaits, Right, CacheRequest

\* A device whose processor is idle has nothing under way.
LEMMA DeviceIdle ==
  ASSUME Facts, NEW d \in Devices, proc[d] = Idle
  PROVE  /\ request[d] = <<>> /\ dcoh[d].state = "INIT" /\ ~Go(d)
         /\ \A r : ~Pending(d, r)
<1>1. d \in Agents /\ d # Host /\ Idle.pc = "idle"
  BY AgentTypes DEF Idle
<1>2. Paired(d)
  BY <1>1, DataTypes DEF Inv, RequestsPaired
<1>3. request[d] = <<>> /\ ~Served(d)
  BY <1>1, <1>2 DEF Paired, Awaits
<1>4. dcoh[d].state = "INIT"
  BY <1>1, <1>3 DEF Served
<1>5. ~Go(d)
  BY <1>4, DataTypes, DeviceInv DEF Places
<1> QED
  BY <1>3, <1>4, <1>5 DEF Pending

\* The host's valid blocks are in use.
LEMMA HostLive ==
  ASSUME Facts
  PROVE  \A x \in Addrs : Live(Host, x) <=> Valid(Host, x)
BY KeptParts DEF Live, Evicting

\* Of the line whose data move, the device has nothing it may write.
LEMMA Moved ==
  ASSUME OneDevice, Facts, NEW d \in Devices, ~NoData(d)
  PROVE  /\ bridge.addr \in Addrs /\ Asked
         /\ ~Dirty(d, bridge.addr) /\ ~Owns(d, bridge.addr)
<1>1. Moving(d) /\ Ended(d) /\ Found(d)
  BY KeptParts
<1>2. (Pulling(d) \/ Forwarded(d)) /\ Asked
  BY <1>1 DEF Moving, Pulling, Forwarded, Asked
<1>3. PICK y \in Addrs : y = bridge.addr
  BY <1>2, DataTypes DEF Pulling, Forwarded, TypeOK
<1>4. CASE Pulling(d)
  <2>1. ~Holds(d, y)
    BY <1>3, <1>4, DataTypes DEF Inv, SnoopInv, Round, Evicted, Pulling, Evicts
  <2>2. ~Granted(d, y, {"WRITE_BACK"})
    BY <1>1 DEF Moving
  <2> QED
    BY <1>1, <1>2, <1>3, <1>4, <2>1, <2>2, OwnsHolds DEF Ended, Pulling, Evicts
<1>5. CASE Forwarded(d)
  <2>1. ~Snooped(d) /\ ~Failed(d)
    <3>1. CASE bridge.state = "DONE"
      BY <3>1, NobodyOwes, DataTypes
    <3>2. CASE \E r \in Rsps(d) : r.opcode = "RSP_S_FWD_M"
      BY <3>2, DataTypes, DeviceInv DEF OneDebt
    <3>3. CASE \E i \in DOMAIN d2hRsp : d2hRsp[i].opcode = "RSP_S_FWD_M"
      <4>1. d2hRsp # <<>>
        BY <3>3
      <4> QED
        BY <4>1, OneAnswer DEF Owes
    <3> QED
      BY <1>5, <3>1, <3>2, <3>3 DEF Forwarded
  <2>2. ~Dirty(d, y)
    BY <1>1, <1>2, <1>3, <1>5, <2>1 DEF Found, Forwarded
  <2>3. ~Owns(d, y)
    BY <1>2, <1>3, <1>5, <2>1, DataTypes, AgentTypes
       DEF Inv, SnoopInv, Round, NoneOwns, Forwarded, Reads
  <2> QED
    BY <1>2, <1>3, <2>2, <2>3
<1> QED
  BY <1>2, <1>4, <1>5

\* No data move for any other request.
LEMMA Unmoved ==
  ASSUME Facts, NEW d \in Devices,
         \/ bridge.state \in {"INIT", "START"}
         \/ bridge.src # Host /\ bridge.type # "DIRTY_EVICT"
  PROVE  NoData(d) /\ \A x \in Addrs : ~Granted(d, x, {"WRITE_BACK"})
<1>1. Moving(d)
  BY KeptParts
<1> QED
  BY <1>1 DEF Moving, Pulling, Forwarded

\* A line that is not in the host's cache, that the device does not hold or get
\* to write, and of which no data move, is current in memory.
LEMMA MemoryCurrent ==
  ASSUME OneDevice, Facts, NEW d \in Devices, NEW x \in Addrs, ~Valid(Host, x),
         ~Dirty(d, x), ~Granted(d, x, {"SNP_INV"}), NoData(d)
  PROVE  mem[x] = latest[x]
<1>1. \A e \in Devices : e = d
  BY Single
<1> QED
  BY <1>1, KeptParts DEF Stored, KeptBy

LEMMA HostNeverFlushes ==
  ASSUME HostHolds, NEW x \in Addrs, ~Valid(Host, x)
  PROVE  FreeBlock(Host)
<1> DEFINE S == {z \in Addrs : Valid(Host, z)}
<1>1. S \subseteq Addrs /\ S # Addrs
  OBVIOUS
<1>2. IsFiniteSet(Addrs) /\ Cardinality(Addrs) <= Ways[Host] /\ Ways[Host] \in Nat
  BY CxlCacheAssumption DEF HostHolds, Ways, Agents
<1>3. IsFiniteSet(S) /\ Cardinality(S) < Cardinality(Addrs)
  BY <1>1, <1>2, FS_Subset, FS_CardinalityType
<1>4. Cardinality(S) \in Nat /\ Cardinality(Addrs) \in Nat
  BY <1>2, <1>3, FS_CardinalityType
<1> HIDE DEF S
<1>5. Cardinality(S) < Ways[Host]
  BY <1>2, <1>3, <1>4
<1> QED
  BY <1>5 DEF FreeBlock, S

----------------------------------------------------------------------------
(* What is left of the facts when a step does little to the device's       *)
(* packets.                                                                *)

LEMMA StillData ==
  ASSUME NEW d, up'[d] = up[d], d2hData' = d2hData
  PROVE  /\ Data(d)' = Data(d) /\ (NoData(d)' <=> NoData(d)) /\ (OneData(d)' <=> OneData(d))
BY DEF Data, NoData, OneData, Of, Once

\* Nothing moves of the device, and the bridge serves nobody.
LEMMA MovingRest ==
  ASSUME Facts, NEW d \in Devices, NoData(d)', \A x \in Addrs : ~Granted(d, x, {"WRITE_BACK"})'
  PROVE  Moving(d)'
<1>1. d2hData' = <<>> /\ Data(d)' = {}
  BY DEF NoData
<1>2. Len(d2hData') <= 1
  BY <1>1
<1>3. Once(up[d], "data")'
  BY <1>1 DEF Data, Of, Once
<1>4. OneData(d)' /\ Carried(d)'
  BY <1>1, <1>2, <1>3 DEF OneData, Carried
<1> QED
  BY <1>4 DEF Moving

\* Grants and requests of the device stay, while nobody writes a line it holds.
LEMMA FlushingFrame ==
  ASSUME Facts, NEW d \in Devices,
         \A r \in CacheRequest : Pending(d, r)' => Pending(d, r),
         \A x \in Addrs : x \in Stores[d] => latest'[x] = latest[x],
         \A x \in Addrs : Dirty(d, x)' => Dirty(d, x)
  PROVE  Flushing(d)'
<1>1. Flushing(d)
  BY KeptParts
<1> QED
  BY <1>1 DEF Flushing, CacheRequest

LEMMA GoFrame ==
  ASSUME Facts, NEW d \in Devices,
         Go(d)' => Go(d) /\ down'[d][1] = down[d][1] /\ dcoh'[d].packet = dcoh[d].packet,
         \A x \in Addrs : Granted(d, x, {"SNP_DATA"}) => latest'[x] = latest[x]
  PROVE  GoFresh(d)' /\ \A x \in Addrs : \A types : Granted(d, x, types)' => Granted(d, x, types)
<1>1. GoFresh(d)
  BY KeptParts
<1>2. \A x \in Addrs : \A types : Granted(d, x, types)' => Granted(d, x, types)
  BY DEF Granted
<1> QED
  BY <1>1, <1>2 DEF GoFresh, Granted

\* What is dirty stays where the filter finds it.
LEMMA DirtyFrame ==
  ASSUME Facts, NEW d \in Devices, \A x \in Addrs : cache'[d][x] = cache[d][x],
         \A x \in Addrs : Dirty(d, x) => latest'[x] = latest[x] /\ x \in sf'[d]
  PROVE  DirtyFresh(d)'
<1>1. DirtyFresh(d)
  BY KeptParts
<1> QED
  BY <1>1 DEF DirtyFresh, Dirty

LEMMA HostAloneFrame ==
  ASSUME Facts, NEW d \in Devices, \A x \in Addrs : Holds(d, x)' => Holds(d, x),
         \A x \in Addrs : cache'[Host][x].state \in {"E", "M"} /\ x \notin Stores[d] =>
                            cache[Host][x].state \in {"E", "M"}
  PROVE  HostAlone(d)'
<1>1. HostAlone(d)
  BY KeptParts
<1> QED
  BY <1>1 DEF HostAlone

LEMMA MovingFrame ==
  ASSUME Facts, NEW d \in Devices, bridge' = bridge, up'[d] = up[d], d2hData' = d2hData,
         d2hRsp' = d2hRsp, ~NoData(d) => latest'[bridge.addr] = latest[bridge.addr],
         \A x \in Addrs : Granted(d, x, {"WRITE_BACK"})' => Granted(d, x, {"WRITE_BACK"})
  PROVE  Moving(d)'
<1>1. Moving(d)
  BY KeptParts
<1>2. Data(d)' = Data(d) /\ (NoData(d)' <=> NoData(d)) /\ (OneData(d)' <=> OneData(d))
  BY StillData
<1>3. (Pulling(d)' <=> Pulling(d)) /\ (Forwarded(d)' <=> Forwarded(d))
  BY SameUp DEF Pulling, Forwarded
<1>4. Carried(d)'
  <2>1. CASE NoData(d)
    BY <1>2, <2>1 DEF NoData, Carried
  <2>2. CASE ~NoData(d)
    BY <1>1, <1>2, <2>2 DEF Moving, Carried
  <2> QED
    BY <2>1, <2>2
<1> QED
  BY <1>1, <1>2, <1>3, <1>4 DEF Moving

LEMMA EndedFrame ==
  ASSUME Facts, NEW d \in Devices, bridge' = bridge,
         \A x \in Addrs : Dirty(d, x)' => Dirty(d, x),
         \A x \in Addrs : Granted(d, x, {"WRITE_BACK"}) => Granted(d, x, {"WRITE_BACK"})'
  PROVE  Ended(d)'
<1>1. Ended(d)
  BY KeptParts
<1> QED
  BY <1>1 DEF Ended

LEMMA FoundFrame ==
  ASSUME Facts, NEW d \in Devices, bridge' = bridge,
         \A x \in Addrs : (Dirty(d, x)' => Dirty(d, x)) /\ (Holds(d, x)' => Holds(d, x)),
         Snooped(d) \/ Failed(d) => Snooped(d)' \/ Failed(d)'
  PROVE  Found(d)'
<1>1. Found(d)
  BY KeptParts
<1> QED
  BY <1>1 DEF Found, Asked

\* A bridge that has nothing under way moves nothing.
LEMMA RestKept ==
  ASSUME Facts, NEW d \in Devices, bridge'.state \in {"INIT", "START"},
         NoData(d)', \A x \in Addrs : ~Granted(d, x, {"WRITE_BACK"})'
  PROVE  Moving(d)' /\ Ended(d)' /\ Found(d)'
BY MovingRest DEF Ended, Found, Asked

\* The device's grant, or that it has none, stays.
SameGo(d) ==
  /\ Go(d)' <=> Go(d)
  /\ Go(d) => down'[d][1] = down[d][1] /\ dcoh'[d].packet = dcoh[d].packet

LEMMA SameGranted ==
  ASSUME NEW d, SameGo(d)
  PROVE  \A x : \A types : Granted(d, x, types)' <=> Granted(d, x, types)
BY DEF SameGo, Granted

LEMMA SameGoDown ==
  ASSUME NEW d, down'[d] = down[d], dcoh'[d].packet = dcoh[d].packet
  PROVE  SameGo(d)
<1>1. Go(d)' <=> Go(d)
  BY SameDown
<1> QED
  BY <1>1 DEF SameGo

LEMMA AllKept ==
  ASSUME OneDevice, NEW d \in Devices, Program', Fresh', Stored', DirtyFresh(d)', GoFresh(d)',
         Flushing(d)', HostAlone(d)', Moving(d)', Ended(d)', Found(d)'
  PROVE  Kept'
<1>1. OfDev(d)'
  BY DEF OfDev
<1>2. \A e \in Devices : e = d
  BY Single
<1>3. \A e \in Devices : OfDev(e)'
  BY <1>1, <1>2
<1> QED
  BY <1>3 DEF Kept

\* A step that does nothing to the blocks, the memory and the grants
LEMMA PassedKept ==
  ASSUME OneDevice, Facts, NEW d \in Devices, UNCHANGED <<cache, latest, mem>>,
         Program', Fresh', Flushing(d)', \A x \in Addrs : Live(d, x)' => Live(d, x),
         \A x \in Addrs : Dirty(d, x) => x \in sf'[d], SameGo(d),
         ~NoData(d) => ~NoData(d)' /\ bridge'.addr = bridge.addr,
         Moving(d)', Ended(d)', Found(d)'
  PROVE  Kept'
<1>1. \A x : \A types : Granted(d, x, types)' <=> Granted(d, x, types)
  BY SameGranted
<1>2. DirtyFresh(d)'
  BY DirtyFrame
<1>3. GoFresh(d)'
  BY GoFrame DEF SameGo
<1>4. \A x \in Addrs : Holds(d, x)' => Holds(d, x)
  BY <1>1 DEF Holds
<1>5. HostAlone(d)'
  BY <1>4, HostAloneFrame
<1>6. Stored'
  <2> SUFFICES ASSUME NEW x \in Addrs, ~Valid(Host, x)', mem'[x] # latest'[x] PROVE KeptBy(d, x)'
    BY DEF Stored
  <2>1. ~Valid(Host, x) /\ mem[x] # latest[x]
    BY DEF Valid
  <2>2. KeptBy(d, x)
    BY <2>1, Single, KeptParts DEF Stored
  <2> QED
    BY <1>1, <2>2 DEF KeptBy, Dirty
<1> QED
  BY <1>2, <1>3, <1>5, <1>6, AllKept

\* ... nor to the processors
LEMMA StillKept ==
  ASSUME OneDevice, Facts, NEW d \in Devices, UNCHANGED <<cache, proc, latest, mem>>,
         \A x \in Addrs : Dirty(d, x) => x \in sf'[d], SameGo(d),
         \A r \in CacheRequest : Pending(d, r)' => Pending(d, r),
         ~NoData(d) => ~NoData(d)' /\ bridge'.addr = bridge.addr,
         Moving(d)', Ended(d)', Found(d)'
  PROVE  Kept' /\ Refines
<1>1. Program' /\ Fresh' /\ Refines
  BY StillCopies
<1>2. Flushing(d)'
  BY FlushingFrame DEF Dirty
<1>3. \A x \in Addrs : Live(d, x)' => Live(d, x)
  BY DEF Live, Valid, Evicting
<1> QED
  BY <1>1, <1>2, <1>3, PassedKept

----------------------------------------------------------------------------
(* Steps that only pass things on.                                         *)

LEMMA StutterKept ==
  ASSUME OneDevice, Facts, NEW d \in Devices, UNCHANGED vars
  PROVE  Kept' /\ Refines
<1>1. UNCHANGED <<up, down, dcoh, bridge, d2hData, d2hRsp, sf, cache, proc, request, latest, mem>>
  BY DEF vars, controllers, protocol, links, channels
<1>2. SameGo(d) /\ (Snooped(d)' <=> Snooped(d)) /\ (Failed(d)' <=> Failed(d))
  BY <1>1, SameGoDown, SameDown DEF Failed
<1>3. \A x \in Addrs : /\ Granted(d, x, {"WRITE_BACK"})' <=> Granted(d, x, {"WRITE_BACK"})
                       /\ Holds(d, x)' <=> Holds(d, x)
                       /\ Dirty(d, x)' <=> Dirty(d, x)
  BY <1>1, <1>2, SameGranted DEF Holds, Live, Valid, Evicting, Dirty
<1>4. Moving(d)' /\ Ended(d)' /\ Found(d)'
  BY <1>1, <1>2, <1>3, MovingFrame, EndedFrame, FoundFrame
<1>5. NoData(d)' <=> NoData(d)
  BY <1>1, StillData
<1>6. \A x \in Addrs : Dirty(d, x) => x \in sf'[d]
  BY <1>1, KeptParts DEF DirtyFresh
<1>7. \A r : Pending(d, r)' => Pending(d, r)
  BY <1>1 DEF Pending
<1> QED
  BY <1>1, <1>2, <1>4, <1>5, <1>6, <1>7, StillKept

\* The DCOH of a device fetches the request: it was in the queue.
LEMMA TakeKept ==
  ASSUME OneDevice, Facts, NEW d \in Devices, DcohTake(d)
  PROVE  Kept' /\ Refines
<1>1. /\ UNCHANGED <<up, down, bridge, d2hData, d2hRsp, sf, cache, proc, latest, mem>>
      /\ dcoh[d].state = "INIT" /\ dcoh'[d].state = "START" /\ dcoh'[d].packet = Head(request[d])
      /\ request[d] # <<>> /\ request'[d] = Tail(request[d])
  BY DataTypes, AgentTypes DEF DcohTake, links, channels, TypeOK
<1>2. ~Go(d) /\ ~Go(d)' /\ (Snooped(d)' <=> Snooped(d)) /\ ~Failed(d)
  BY <1>1, DataTypes, DeviceInv, SameDown DEF Places, Failed
<1>3. SameGo(d)
  BY <1>2 DEF SameGo
<1>4. \A x \in Addrs : /\ Granted(d, x, {"WRITE_BACK"})' <=> Granted(d, x, {"WRITE_BACK"})
                       /\ Holds(d, x)' <=> Holds(d, x)
                       /\ Dirty(d, x)' <=> Dirty(d, x)
  BY <1>1, <1>3, SameGranted DEF Holds, Live, Valid, Evicting, Dirty
<1>5. Moving(d)' /\ Ended(d)' /\ Found(d)'
  BY <1>1, <1>2, <1>4, MovingFrame, EndedFrame, FoundFrame
<1>6. NoData(d)' <=> NoData(d)
  BY <1>1, StillData
<1>7. \A x \in Addrs : Dirty(d, x) => x \in sf'[d]
  BY <1>1, KeptParts DEF DirtyFresh
<1>8. \A r : Pending(d, r)' => Pending(d, r)
  <2>1. request[d] \in Seq(CacheRequest)
    BY DataTypes, AgentTypes
  <2>2. \A i \in DOMAIN Tail(request[d]) : i + 1 \in DOMAIN request[d] /\ Tail(request[d])[i] = request[d][i + 1]
    BY <1>1, <2>1
  <2>3. 1 \in DOMAIN request[d] /\ Head(request[d]) = request[d][1]
    BY <1>1, <2>1
  <2> QED
    BY <1>1, <2>2, <2>3 DEF Pending
<1> QED
  BY <1>1, <1>3, <1>5, <1>6, <1>7, <1>8, StillKept

\* What a packet on its way up adds to the data.
LEMMA PutUpData ==
  ASSUME Facts, NEW d \in Devices, NEW p \in D2HReq \cup D2HRsp \cup D2HData,
         up'[d] = Append(up[d], p)
  PROVE  /\ Data(d)' = IF p.ch = "data" THEN Data(d) \cup {p} ELSE Data(d)
         /\ Once(up[d], "data") /\ (p.ch = "data" => Data(d) = {}) => Once(up[d], "data")'
<1> DEFINE q == up[d]
<1>1. q \in Seq(D2HReq \cup D2HRsp \cup D2HData)
  BY DataTypes, DeviceInv
<1> HIDE DEF q
<1>2. /\ Of(Append(q, p), "data") = IF p.ch = "data" THEN Of(q, "data") \cup {p} ELSE Of(q, "data")
      /\ Once(q, "data") /\ (p.ch = "data" => Of(q, "data") = {}) => Once(Append(q, p), "data")
  BY <1>1, OfAppend
<1>3. up'[d] = Append(q, p)
  BY DEF q
<1>4. Data(d)' = Of(up'[d], "data") /\ (Once(up[d], "data")' <=> Once(up'[d], "data"))
  BY DEF Data, Once
<1> QED
  BY <1>2, <1>3, <1>4 DEF q, Data

LEMMA SendKept ==
  ASSUME OneDevice, Facts, NEW d \in Devices, DcohSend(d)
  PROVE  Kept' /\ Refines
<1> DEFINE p == [ch |-> "req", dev |-> d, opcode |-> D2HOpcode[dcoh[d].packet.type],
                 addr |-> dcoh[d].packet.addr]
<1>1. /\ UNCHANGED <<d2hReq, d2hRsp, d2hData, bridge, sf, down, cache, proc, request, latest, mem>>
      /\ dcoh[d].state = "START" /\ dcoh'[d].state = "WAIT" /\ dcoh'[d].packet = dcoh[d].packet
      /\ up'[d] = Append(up[d], p)
  BY DataTypes DEF DcohSend, controllers, channels, TypeOK
<1>2. p \in D2HReq /\ p.ch = "req"
  BY <1>1, DataTypes, DeviceInv DEF D2HReq, D2HReqOpcode, D2HOpcode, CacheRequest, RequestType
<1> HIDE DEF p
<1>3. ~Failed(d) /\ (Snooped(d)' <=> Snooped(d)) /\ SameGo(d)
  BY <1>1, SameGoDown, SameDown DEF Failed
<1>4. \A x \in Addrs : /\ Granted(d, x, {"WRITE_BACK"})' <=> Granted(d, x, {"WRITE_BACK"})
                       /\ Holds(d, x)' <=> Holds(d, x)
                       /\ Dirty(d, x)' <=> Dirty(d, x)
  BY <1>1, <1>3, SameGranted DEF Holds, Live, Valid, Evicting, Dirty
<1>5. Data(d)' = Data(d) /\ (Once(up[d], "data") => Once(up[d], "data")')
  BY <1>1, <1>2, PutUpData
<1>6. Rsps(d)' = Rsps(d)
  BY <1>1, <1>2, DataTypes, PutUp
<1>7. NoData(d)' <=> NoData(d)
  BY <1>1, <1>5 DEF NoData
<1>8. Moving(d)'
  <2>1. Moving(d)
    BY KeptParts
  <2>2. (Pulling(d)' <=> Pulling(d)) /\ (Forwarded(d)' <=> Forwarded(d))
    BY <1>1, <1>6 DEF Pulling, Forwarded
  <2>3. (Carried(d)' <=> Carried(d)) /\ (OneData(d) => OneData(d)')
    BY <1>1, <1>5 DEF Carried, OneData
  <2> QED
    BY <1>1, <1>4, <1>7, <2>1, <2>2, <2>3 DEF Moving
<1>9. Ended(d)' /\ Found(d)'
  BY <1>1, <1>3, <1>4, EndedFrame, FoundFrame
<1>10. \A x \in Addrs : Dirty(d, x) => x \in sf'[d]
  BY <1>1, KeptParts DEF DirtyFresh
<1>11. \A r : Pending(d, r)' => Pending(d, r)
  BY <1>1 DEF Pending
<1> QED
  BY <1>1, <1>3, <1>7, <1>8, <1>9, <1>10, <1>11, StillKept

\* The bridge takes a request: its last one is done with.
LEMMA BridgeTakeKept ==
  ASSUME OneDevice, Facts, NEW d \in Devices, BridgeTakeHost \/ BridgeTakeDevice
  PROVE  Kept' /\ Refines
<1>1. /\ UNCHANGED <<up, down, dcoh, d2hRsp, d2hData, sf, cache, proc, latest, mem>>
      /\ bridge.state = "INIT" /\ bridge'.state = "START" /\ request'[d] = request[d]
  BY DataTypes, AgentTypes DEF BridgeTakeHost, BridgeTakeDevice, controllers, links, channels, TypeOK
<1>2. NoData(d) /\ \A x \in Addrs : ~Granted(d, x, {"WRITE_BACK"})
  BY <1>1, Unmoved
<1>3. SameGo(d) /\ NoData(d)'
  BY <1>1, <1>2, SameGoDown, StillData
<1>4. \A x \in Addrs : ~Granted(d, x, {"WRITE_BACK"})'
  BY <1>2, <1>3, SameGranted
<1>5. Moving(d)' /\ Ended(d)' /\ Found(d)'
  BY <1>1, <1>3, <1>4, RestKept
<1>6. \A x \in Addrs : Dirty(d, x) => x \in sf'[d]
  BY <1>1, KeptParts DEF DirtyFresh
<1>7. \A r : Pending(d, r)' => Pending(d, r)
  BY <1>1 DEF Pending
<1> QED
  BY <1>1, <1>2, <1>3, <1>5, <1>6, <1>7, StillKept

\* A packet goes from the link to the bridge's queue for it.
LEMMA ReceiveKept ==
  ASSUME OneDevice, Facts, NEW d \in Devices, BridgeReceive(d)
  PROVE  Kept' /\ Refines
<1> DEFINE p == Head(up[d])
<1>1. /\ UNCHANGED <<cache, proc, request, latest, down, dcoh, bridge, sf, mem>>
      /\ up[d] # <<>> /\ up'[d] = Tail(up[d])
      /\ d2hRsp' = IF p.ch = "rsp" THEN Append(d2hRsp, p) ELSE d2hRsp
      /\ d2hData' = IF p.ch = "data" THEN Append(d2hData, p) ELSE d2hData
  BY DataTypes DEF BridgeReceive, controllers, TypeOK
<1>2. Moving(d)
  BY KeptParts
<1>3. up[d] \in Seq(D2HReq \cup D2HRsp \cup D2HData) /\ Once(up[d], "rsp") /\ Once(up[d], "data")
  BY <1>2, DataTypes, DeviceInv DEF Moving, OneData
<1>4. p \in D2HReq \cup D2HRsp \cup D2HData
  BY <1>1, <1>3
<1>5. /\ Data(d) = IF p.ch = "data" THEN Data(d)' \cup {p} ELSE Data(d)'
      /\ p.ch = "data" => Data(d)' = {}
      /\ Once(up[d], "data")'
      /\ Rsps(d) = IF p.ch = "rsp" THEN Rsps(d)' \cup {p} ELSE Rsps(d)'
  <2>1. \A ch \in {"rsp", "data"} :
          /\ Of(up[d], ch) = IF p.ch = ch THEN Of(Tail(up[d]), ch) \cup {p} ELSE Of(Tail(up[d]), ch)
          /\ p.ch = ch => Of(Tail(up[d]), ch) = {}
          /\ Once(Tail(up[d]), ch)
    BY <1>1, <1>3, OfTail
  <2> HIDE DEF p
  <2>2. \A ch \in {"rsp", "data"} : Of(up'[d], ch) = Of(Tail(up[d]), ch) /\ Once(up'[d], ch)
    BY <1>1, <2>1
  <2>3. Data(d)' = Of(up'[d], "data") /\ Rsps(d)' = Of(up'[d], "rsp")
    BY DEF Data, Rsps
  <2>4. Once(up[d], "data")' <=> Once(up'[d], "data")
    BY DEF Once
  <2> QED
    BY <2>1, <2>2, <2>3, <2>4 DEF Data, Rsps
<1> HIDE DEF p
<1>6. p.ch = "data" => d2hData = <<>> /\ d2hData' = <<p>> /\ p \in Data(d)
  <2> SUFFICES ASSUME p.ch = "data" PROVE d2hData = <<>> /\ d2hData' = <<p>> /\ p \in Data(d)
    OBVIOUS
  <2>1. p \in Data(d) /\ d2hData' = Append(d2hData, p)
    BY <1>1, <1>5
  <2>2. d2hData = <<>>
    BY <1>2, <2>1 DEF Moving, OneData
  <2>3. Append(<<>>, p) = <<p>>
    OBVIOUS
  <2> QED
    BY <2>1, <2>2, <2>3
<1>7. /\ NoData(d)' <=> NoData(d)
      /\ OneData(d)' /\ Carried(d)'
  <2>1. CASE p.ch = "data"
    <3>1. Data(d)' = {} /\ d2hData' = <<p>>
      BY <1>5, <1>6, <2>1
    <3>2. Len(d2hData') <= 1 /\ d2hData' # <<>> /\ \A i \in DOMAIN d2hData' : d2hData'[i] = p
      BY <3>1
    <3>3. p.data = latest[bridge.addr]
      BY <1>2, <1>6, <2>1 DEF Moving, Carried
    <3>4. ~NoData(d) /\ ~NoData(d)'
      BY <1>6, <2>1, <3>2 DEF NoData
    <3>5. OneData(d)' /\ Carried(d)'
      BY <1>1, <1>5, <3>1, <3>2, <3>3 DEF OneData, Carried
    <3> QED
      BY <3>4, <3>5
  <2>2. CASE p.ch # "data"
    BY <1>1, <1>2, <1>5, <2>2 DEF Moving, NoData, OneData, Carried
  <2> QED
    BY <2>1, <2>2
<1>8. Forwarded(d) => Forwarded(d)'
  <2>1. d2hRsp \in Seq(D2HRsp)
    BY DataTypes DEF TypeOK
  <2>2. CASE p.ch = "rsp"
    <3>1. p \in D2HRsp
      BY <1>4, <2>2 DEF D2HReq, D2HRsp, D2HData
    <3>2. /\ \A i \in DOMAIN d2hRsp : i \in DOMAIN d2hRsp' /\ d2hRsp'[i] = d2hRsp[i]
          /\ \E i \in DOMAIN d2hRsp' : d2hRsp'[i] = p
      <4>1. d2hRsp' = Append(d2hRsp, p)
        BY <1>1, <2>2
      <4>2. Len(d2hRsp) + 1 \in DOMAIN d2hRsp' /\ d2hRsp'[Len(d2hRsp) + 1] = p
        BY <2>1, <3>1, <4>1
      <4> QED
        BY <2>1, <3>1, <4>1, <4>2
    <3>3. \A r \in Rsps(d) : r = p \/ r \in Rsps(d)'
      BY <1>5, <2>2
    <3> QED
      BY <1>1, <3>2, <3>3 DEF Forwarded
  <2>3. CASE p.ch # "rsp"
    BY <1>1, <1>5, <2>3 DEF Forwarded
  <2> QED
    BY <2>2, <2>3
<1>9. SameGo(d) /\ (Snooped(d)' <=> Snooped(d)) /\ (Failed(d)' <=> Failed(d))
  BY <1>1, SameGoDown, SameDown DEF Failed
<1>10. \A x \in Addrs : /\ Granted(d, x, {"WRITE_BACK"})' <=> Granted(d, x, {"WRITE_BACK"})
                        /\ Holds(d, x)' <=> Holds(d, x)
                        /\ Dirty(d, x)' <=> Dirty(d, x)
  BY <1>1, <1>9, SameGranted DEF Holds, Live, Valid, Evicting, Dirty
<1>11. Moving(d)'
  BY <1>1, <1>2, <1>7, <1>8, <1>10 DEF Moving, Pulling
<1>12. Ended(d)' /\ Found(d)'
  BY <1>1, <1>9, <1>10, EndedFrame, FoundFrame
<1>13. \A x \in Addrs : Dirty(d, x) => x \in sf'[d]
  BY <1>1, KeptParts DEF DirtyFresh
<1>14. \A r : Pending(d, r)' => Pending(d, r)
  BY <1>1 DEF Pending
<1> QED
  BY <1>1, <1>7, <1>9, <1>11, <1>12, <1>13, <1>14, StillKept

\* The bridge snoops the device for the host: if it has modified the line, it
\* is in the filter.
LEMMA HostSnoopKept ==
  ASSUME OneDevice, Facts, NEW d \in Devices, HostSnoopDevices
  PROVE  Kept' /\ Refines
<1>1. bridge.state = "START" /\ bridge.type \in {"SNP_DATA", "SNP_INV"} /\ bridge.src = Host
  BY DataTypes DEF HostSnoopDevices, TypeOK, D2HReqOpcode
<1>2. PICK y \in Addrs : y = bridge.addr
  BY <1>1, DataTypes DEF TypeOK
<1>3. /\ UNCHANGED <<cache, proc, request, latest, dcoh, up, d2hData, d2hRsp, sf, mem>>
      /\ bridge'.state = "WAIT" /\ bridge'.addr = y /\ bridge'.src = Host
      /\ bridge'.type = bridge.type
      /\ down'[d] = IF d \in Sharers(y, Host)
                      THEN Append(down[d], [ch |-> "req", opcode |-> bridge.type, addr |-> y])
                      ELSE down[d]
  BY <1>1, <1>2, DataTypes DEF HostSnoopDevices, BridgeSnoop, controllers, channels, TypeOK
<1>4. PICK p : p = [ch |-> "req", opcode |-> bridge.type, addr |-> y]
  OBVIOUS
<1>5. p \in H2DReq \cup H2DRsp /\ p.ch = "req"
  BY <1>1, <1>4 DEF H2DReq
<1>6. SameGo(d) /\ (d \in Sharers(y, Host) => Snooped(d)')
  <2>1. CASE d \in Sharers(y, Host)
    <3>1. down'[d] = Append(down[d], p)
      BY <1>3, <1>4, <2>1
    <3>2. /\ Snooped(d)' /\ (Go(d)' <=> Go(d)) /\ (Go(d) => down'[d][1] = down[d][1])
      BY <1>1, <1>5, <3>1, NobodyOwes, DataTypes, DeviceInv, PutSnoop
    <3> QED
      BY <1>3, <3>2 DEF SameGo
  <2>2. CASE d \notin Sharers(y, Host)
    BY <1>3, <2>2, SameGoDown
  <2> QED
    BY <2>1, <2>2
<1>7. NoData(d) /\ \A x \in Addrs : ~Granted(d, x, {"WRITE_BACK"})
  BY <1>1, Unmoved
<1>8. NoData(d)' /\ \A x \in Addrs : ~Granted(d, x, {"WRITE_BACK"})'
  BY <1>3, <1>6, <1>7, StillData, SameGranted
<1>9. Moving(d)'
  BY <1>8, MovingRest
<1>10. \A x \in Addrs : Dirty(d, x) => x \in sf[d]
  BY KeptParts DEF DirtyFresh
<1>11. Ended(d)' /\ Found(d)'
  <2>1. Dirty(d, y)' => Snooped(d)'
    BY <1>2, <1>3, <1>6, <1>10, AgentTypes DEF Dirty, Sharers
  <2> QED
    BY <1>3, <2>1 DEF Ended, Found, Dirty
<1>12. \A r : Pending(d, r)' => Pending(d, r)
  BY <1>3 DEF Pending
<1> QED
  BY <1>3, <1>6, <1>7, <1>9, <1>10, <1>11, <1>12, StillKept

\* The device's answer: it has nothing modified any more, and if it has had,
\* its data are on their way.
LEMMA ResponseTakenKept ==
  ASSUME OneWriter, OneDevice, Facts, NEW d \in Devices, BridgeResponse
  PROVE  Kept' /\ Refines
<1>1. d2hRsp # <<>>
  BY DEF BridgeResponse
<1>2. /\ bridge.state = "WAIT" /\ bridge.src = Host /\ bridge.list = {d}
      /\ bridge.addr \in Addrs /\ Len(d2hRsp) = 1 /\ ~Owes(d)
  BY <1>1, OneAnswer
<1>3. PICK opcode : opcode = Head(d2hRsp).opcode
  OBVIOUS
<1>4. PICK y \in Addrs : y = bridge.addr
  BY <1>2
<1>5. /\ UNCHANGED <<cache, proc, request, latest, dcoh, up, down, d2hData, mem>>
      /\ bridge'.state = "DONE" /\ bridge'.addr = y /\ bridge'.src = Host
      /\ bridge'.type = bridge.type
      /\ bridge'.rsp = AnswerAfter(opcode, bridge.rsp)
      /\ sf' = IF opcode \in Gone THEN [sf EXCEPT ![d] = @ \ {y}] ELSE sf
  <2>1. PICK last \in bridge.list :
        /\ bridge' = [bridge EXCEPT
                        !.list = bridge.list \ {last},
                        !.rsp = AnswerAfter(opcode, @),
                        !.state = IF bridge.list \ {last} = {} \/ opcode = "RSP_S_FWD_M"
                                    THEN "DONE" ELSE "WAIT"]
        /\ sf' = IF opcode \in Gone THEN [sf EXCEPT ![last] = @ \ {y}] ELSE sf
    BY <1>3, <1>4 DEF BridgeResponse, Gone
  <2>2. last = d /\ bridge.list \ {last} = {}
    BY <1>2
  <2>3. UNCHANGED <<cache, proc, request, latest, dcoh, up, down, d2hData, mem>>
    BY DEF BridgeResponse, controllers, links
  <2> QED
    BY <1>2, <1>4, <2>1, <2>2, <2>3, DataTypes DEF TypeOK
<1>6. d2hRsp[1].opcode = opcode /\ opcode \in D2HRspOpcode /\ 1 \in DOMAIN d2hRsp
      /\ \A i \in DOMAIN d2hRsp : i = 1
  <2>1. d2hRsp \in Seq(D2HRsp)
    BY DataTypes DEF TypeOK
  <2>2. DOMAIN d2hRsp = {1}
    BY <1>2, <2>1
  <2>3. d2hRsp[1] = Head(d2hRsp) /\ d2hRsp[1] \in D2HRsp
    BY <1>1, <2>1, <2>2
  <2> QED
    BY <1>3, <2>2, <2>3 DEF D2HRsp
<1>7. ~Snooped(d) /\ ~Failed(d) /\ Rsps(d) = {}
  BY <1>2 DEF Owes
<1>8. bridge.type \in {"SNP_DATA", "SNP_INV"} /\ (bridge.type = "SNP_INV" => y \in Stores[Host])
  BY <1>2, <1>4, HostAsks
<1>9. ~Dirty(d, y)
  <2>1. CASE bridge.type = "SNP_DATA"
    <3>1. Found(d)
      BY KeptParts
    <3> QED
      BY <1>2, <1>4, <1>7, <2>1, <3>1 DEF Found, Asked
  <2>2. CASE bridge.type = "SNP_INV"
    <3>1. DirtyFresh(d)
      BY KeptParts
    <3> QED
      BY <1>8, <2>2, <3>1, AgentTypes DEF DirtyFresh, OneWriter
  <2> QED
    BY <1>8, <2>1, <2>2
<1>10. SameGo(d)
  BY <1>5, SameGoDown
<1>11. \A x \in Addrs : Dirty(d, x) => x \in sf'[d]
  <2>1. DirtyFresh(d) /\ sf \in [Devices -> SUBSET Addrs]
    BY KeptParts, DataTypes
  <2>2. \A x \in Addrs : x # y /\ x \in sf[d] => x \in sf'[d]
    BY <1>5, <2>1
  <2> QED
    BY <1>9, <2>1, <2>2 DEF DirtyFresh
<1>12. \A r : Pending(d, r)' => Pending(d, r)
  BY <1>5 DEF Pending
<1>13. Moving(d) /\ ~Pulling(d)
  BY <1>2, KeptParts DEF Pulling
<1>14. \A x \in Addrs : ~Granted(d, x, {"WRITE_BACK"}) /\ ~Granted(d, x, {"WRITE_BACK"})'
  BY <1>10, <1>13, SameGranted DEF Moving
<1>15. Data(d)' = Data(d) /\ (NoData(d)' <=> NoData(d)) /\ (OneData(d)' <=> OneData(d))
  BY <1>5, StillData
<1>16. Forwarded(d) => Forwarded(d)'
  <2> SUFFICES ASSUME Forwarded(d) PROVE Forwarded(d)'
    OBVIOUS
  <2>1. opcode = "RSP_S_FWD_M" /\ bridge.type = "SNP_DATA"
    BY <1>2, <1>6, <1>7 DEF Forwarded
  <2>2. AnswerAfter(opcode, bridge.rsp) = "RSP_M"
    BY <2>1 DEF AnswerAfter
  <2> QED
    BY <1>5, <2>1, <2>2 DEF Forwarded
<1>17. Moving(d)'
  <2>1. Carried(d)'
    BY <1>4, <1>5, <1>13, <1>15 DEF Moving, Carried
  <2> QED
    BY <1>4, <1>5, <1>13, <1>14, <1>15, <1>16, <2>1 DEF Moving
<1>18. Ended(d)'
  BY <1>5, AgentTypes DEF Ended
<1>19. Found(d)'
  <2>1. bridge'.rsp = "RSP_I" => opcode \in Gone
    BY <1>5, <1>6 DEF AnswerAfter, D2HRspOpcode, Gone
  <2>2. bridge.type = "SNP_DATA" /\ opcode \in Gone => ~Holds(d, y)
    <3>1. opcode \in Gone => AnsweredGone(d)
      BY <1>6 DEF AnsweredGone
    <3> QED
      BY <1>2, <1>4, <3>1, DataTypes DEF Inv, SnoopInv, Round, GoneMeansGone, Reads
  <2>3. Holds(d, y)' => Holds(d, y)
    BY <1>5, <1>10, SameGranted DEF Holds, Live, Valid, Evicting
  <2>4. ~Dirty(d, y)'
    BY <1>5, <1>9 DEF Dirty
  <2> QED
    BY <1>5, <2>1, <2>2, <2>3, <2>4 DEF Found
<1> QED
  BY <1>4, <1>5, <1>10, <1>11, <1>12, <1>15, <1>17, <1>18, <1>19, StillKept

LEMMA OneLong ==
  ASSUME NEW S, NEW q \in Seq(S), q # <<>>, Len(q) <= 1
  PROVE  /\ 1 \in DOMAIN q /\ Head(q) = q[1] /\ Tail(q) = <<>>
         /\ q[1] \in S
<1>1. Len(q) \in Nat /\ Len(q) # 0
  BY NoLength
<1>2. Len(q) = 1
  BY <1>1
<1>3. Len(Tail(q)) = 0 /\ Tail(q) \in Seq(S)
  BY <1>2, HeadTailProperties
<1>4. Tail(q) = <<>>
  BY <1>3, NoLength
<1> QED
  BY <1>2, <1>4

----------------------------------------------------------------------------
(* The host's cache gets a line.                                           *)

LEMMA HostTakes ==
  ASSUME OneWriter, OneDevice, Facts, NEW d \in Devices, NEW x \in Addrs, NEW s, NEW v \in Values,
         Takes(Host, x, s, v), UNCHANGED <<dcoh, up, down, sf, mem>>, request'[d] = request[d],
         v = latest[x] \/ (~Holds(d, x) /\ x \in Stores[Host]),
         s \in {"E", "M"} /\ x \notin Stores[d] => ~Holds(d, x),
         \A y \in Addrs : y # x /\ bridge.addr = y /\ ~NoData(d) => bridge'.addr = y /\ ~NoData(d)',
         Moving(d)', Ended(d)', Found(d)'
  PROVE  Kept' /\ Refines
<1>1. Host \in Agents /\ d \in Agents /\ d # Host /\ latest \in [Addrs -> Values]
  BY AgentTypes, DataTypes
<1>2. /\ \A y \in Addrs : latest'[y] = IF y = x THEN v ELSE latest[y]
      /\ \A y \in Addrs : cache'[d][y] = cache[d][y]
      /\ \A y \in Addrs : cache'[Host][y] = IF y = x THEN [state |-> s, data |-> v] ELSE cache[Host][y]
      /\ proc'[d] = proc[d] /\ s # "I"
  BY <1>1, DataTypes DEF Takes, Recaches
<1>3. v = latest[x] \/ (~Holds(d, x) /\ x \notin Stores[d])
  BY <1>1 DEF OneWriter
<1>4. v = latest[x] \/ \A b \in Agents : b # Host => ~Live(b, x)
  BY <1>3, Single, AgentTypes DEF Holds
<1>5. Program' /\ Fresh' /\ Refines
  BY <1>1, <1>4, TakesCopies
<1>6. SameGo(d)
  BY SameGoDown
<1>7. \A y : \A types : Granted(d, y, types)' <=> Granted(d, y, types)
  BY <1>6, SameGranted
<1>8. \A y \in Addrs : (Live(d, y)' <=> Live(d, y)) /\ (Holds(d, y)' <=> Holds(d, y))
  BY <1>2, <1>7 DEF Live, Valid, Evicting, Holds
<1>9. DirtyFresh(d) /\ HostAlone(d)
  BY KeptParts
<1>10. DirtyFresh(d)'
  <2>1. \A y \in Addrs : Dirty(d, y) => latest'[y] = latest[y] /\ y \in sf'[d]
    BY <1>2, <1>3, <1>9 DEF DirtyFresh
  <2> QED
    BY <1>2, <2>1, DirtyFrame
<1>11. GoFresh(d)'
  <2>1. \A y \in Addrs : Granted(d, y, {"SNP_DATA"}) => latest'[y] = latest[y]
    BY <1>2, <1>3 DEF Holds, Granted
  <2> QED
    BY <1>6, <2>1, GoFrame DEF SameGo
<1>12. Flushing(d)'
  <2>1. \A r \in CacheRequest : Pending(d, r)' => Pending(d, r)
    BY DEF Pending
  <2>2. \A y \in Addrs : y \in Stores[d] => latest'[y] = latest[y]
    BY <1>2, <1>3
  <2> QED
    BY <1>2, <2>1, <2>2, FlushingFrame DEF Dirty
<1>13. HostAlone(d)'
  BY <1>2, <1>8, <1>9 DEF HostAlone
<1>14. Stored'
  <2> SUFFICES ASSUME NEW y \in Addrs, ~Valid(Host, y)', mem'[y] # latest'[y] PROVE KeptBy(d, y)'
    BY DEF Stored
  <2>1. y # x /\ ~Valid(Host, y) /\ mem[y] # latest[y]
    BY <1>2 DEF Valid
  <2>2. KeptBy(d, y)
    BY <2>1, Single, KeptParts DEF Stored
  <2> QED
    BY <1>2, <1>7, <2>1, <2>2 DEF KeptBy, Dirty
<1> QED
  BY <1>5, <1>10, <1>11, <1>12, <1>13, <1>14, AllKept

\* The answer to the host's miss or upgrade
LEMMA HostResponds ==
  ASSUME OneWriter, OneDevice, Facts, NEW d \in Devices, NEW y \in Addrs, y = bridge.addr,
         bridge.state \in {"START", "DONE"}, bridge.src = Host,
         NEW status, NEW data, Respond(Host, status, data), FinishBridge,
         UNCHANGED <<dcoh, up, down, sf, mem>>, NoData(d)',
         bridge.type = "SNP_INV" => ~Holds(d, y),
         bridge.type = "SNP_DATA" =>
           /\ data = latest[y]
           /\ FillState(status) \in {"E", "M"} /\ y \notin Stores[d] => ~Holds(d, y)
  PROVE  Kept' /\ Refines
<1>1. /\ bridge.type \in {"SNP_DATA", "SNP_INV"} /\ proc[Host].addr = y
      /\ bridge.type = "SNP_DATA" => proc[Host].pc = "fill"
      /\ bridge.type = "SNP_INV" => proc[Host].pc = "own" /\ y \in Stores[Host]
  BY HostAsks
<1>2. /\ Host \in Agents /\ d # Host /\ latest \in [Addrs -> Values]
      /\ cache \in [Agents -> [Addrs -> CacheBlock]] /\ proc \in [Agents -> {Idle} \cup Busy]
  BY AgentTypes, DataTypes
<1>3. proc[Host] \in Busy
  <2>1. Idle.pc = "idle"
    BY DEF Idle
  <2> QED
    BY <1>1, <1>2, <2>1
<1>4. /\ bridge'.state = "INIT"
      /\ UNCHANGED <<request>>
  BY <1>1 DEF FinishBridge, BridgeIdle, Respond
<1>5. \A x \in Addrs : ~Granted(d, x, {"WRITE_BACK"})'
  <2>1. SameGo(d)
    BY SameGoDown
  <2>2. Moving(d)
    BY KeptParts
  <2> QED
    BY <1>2, <2>1, <2>2, SameGranted DEF Moving, Pulling
<1>6. Moving(d)' /\ Ended(d)' /\ Found(d)'
  BY <1>4, <1>5, RestKept
<1>7. CASE bridge.type = "SNP_DATA"
  <2>1. PICK s : s = FillState(status) /\ s # "I"
    BY DEF FillState
  <2>2. data \in Values
    BY <1>2, <1>7
  <2>3. Takes(Host, y, s, data)
    <3>1. /\ cache' = [cache EXCEPT ![Host][y] = [state |-> s, data |-> data]]
          /\ proc' = [proc EXCEPT ![Host] = Idle] /\ latest' = latest
      BY <1>1, <1>7, <2>1 DEF Respond
    <3>2. latest' = [latest EXCEPT ![y] = data]
      BY <1>2, <1>7, <3>1
    <3> QED
      BY <1>1, <1>2, <1>7, <2>1, <3>1, <3>2 DEF Takes, Recaches
  <2> QED
    BY <1>4, <1>6, <1>7, <2>1, <2>2, <2>3, HostTakes
<1>8. CASE bridge.type = "SNP_INV"
  <2>1. PICK v \in Values : v = proc[Host].val
    BY <1>3 DEF Busy
  <2>2. Takes(Host, y, "M", v)
    <3>1. /\ cache' = [cache EXCEPT ![Host][y] = [state |-> "M", data |-> v]]
          /\ proc' = [proc EXCEPT ![Host] = Idle] /\ latest' = [latest EXCEPT ![y] = v]
      BY <1>1, <1>8, <2>1 DEF Respond, Commit
    <3> QED
      BY <1>1, <1>2, <1>8, <3>1 DEF Takes, Recaches
  <2> QED
    BY <1>1, <1>4, <1>6, <1>8, <2>1, <2>2, HostTakes
<1> QED
  BY <1>1, <1>7, <1>8

\* The line is with no device: memory has it.
LEMMA HostMemoryKept ==
  ASSUME OneWriter, OneDevice, Facts, NEW d \in Devices, HostFromMemory
  PROVE  Kept' /\ Refines
<1>1. bridge.src = Host /\ bridge.addr \in Addrs /\ bridge.state = "START"
  BY DataTypes DEF HostFromMemory, TypeOK, D2HReqOpcode
<1>2. PICK y \in Addrs : y = bridge.addr
  BY <1>1
<1>3. y \notin sf[d]
  <2> SUFFICES ASSUME y \in sf[d] PROVE FALSE
    OBVIOUS
  <2>1. Sharers(y, Host) = {d}
    BY Single
  <2>2. Cardinality(Sharers(y, Host)) = 1
    BY <2>1, FS_Singleton
  <2> QED
    BY <1>2, <2>1, <2>2 DEF HostFromMemory
<1>4. ~Holds(d, y) /\ ~Dirty(d, y)
  BY <1>3, InFilter, KeptParts DEF DirtyFresh
<1>5. NoData(d)
  BY <1>1, Unmoved
<1>6. ~Granted(d, y, {"SNP_INV"})
  BY <1>4 DEF Holds, Granted
<1>7. bridge.type = "SNP_DATA" => mem[y] = latest[y]
  BY <1>1, <1>2, <1>4, <1>5, <1>6, HostAsks, MemoryCurrent
<1>8. PICK status, data : data = mem[y] /\ Respond(Host, status, data)
  BY <1>2 DEF HostFromMemory
<1>9. FinishBridge /\ UNCHANGED <<dcoh, up, down, sf, mem, d2hData>>
  BY DEF HostFromMemory, links, channels
<1>10. NoData(d)'
  BY <1>5, <1>9, StillData
<1> QED
  BY <1>1, <1>2, <1>4, <1>7, <1>8, <1>9, <1>10, HostResponds

\* A device had it: it has sent what it had modified, or memory has it.
LEMMA HostDoneKept ==
  ASSUME OneWriter, OneDevice, Facts, NEW d \in Devices, HostDone
  PROVE  Kept' /\ Refines
<1>1. bridge.src = Host /\ bridge.addr \in Addrs /\ bridge.state = "DONE"
  BY DataTypes DEF HostDone, TypeOK
<1>2. PICK y \in Addrs : y = bridge.addr
  BY <1>1
<1>3. ~Snooped(d) /\ ~Failed(d)
  BY <1>1, DataTypes, NobodyOwes
<1>4. Moving(d) /\ Found(d)
  BY KeptParts
<1>5. bridge.type = "SNP_DATA" =>
        ~Dirty(d, y) /\ ~Granted(d, y, {"SNP_INV"}) /\ (bridge.rsp = "RSP_I" => ~Holds(d, y))
  <2> SUFFICES ASSUME bridge.type = "SNP_DATA"
               PROVE  ~Dirty(d, y) /\ ~Owns(d, y) /\ (bridge.rsp = "RSP_I" => ~Holds(d, y))
    BY DEF Owns
  <2>1. ~Owns(d, y)
    BY <1>1, <1>2, DataTypes, AgentTypes, NoOwner DEF Reads
  <2> QED
    BY <1>1, <1>2, <1>3, <1>4, <2>1 DEF Found, Asked
<1>6. bridge.type = "SNP_INV" => ~Holds(d, y)
  BY <1>1, <1>2, DataTypes, AgentTypes, NoHolder DEF Invalidations
<1>7. bridge.type = "SNP_DATA" => ~Valid(Host, y)
  BY <1>1, <1>2, HostAsks
<1>8. FinishBridge /\ UNCHANGED <<dcoh, up, down, sf, mem>>
  BY DEF HostDone, links
<1>9. CASE bridge.rsp \in {"RSP_I", "RSP_S"} /\ Respond(Host, bridge.rsp, mem[y]) /\ UNCHANGED d2hData
  <2>1. NoData(d)
    BY <1>1, <1>4, <1>9, AgentTypes DEF Moving, Pulling, Forwarded
  <2>2. NoData(d)'
    BY <1>8, <1>9, <2>1, StillData
  <2>3. bridge.type = "SNP_DATA" => mem[y] = latest[y]
    BY <1>5, <1>7, <2>1, MemoryCurrent
  <2>4. PICK status, data : status = bridge.rsp /\ data = mem[y]
    OBVIOUS
  <2>5. FillState(status) \in {"E", "M"} => bridge.rsp = "RSP_I"
    BY <1>9, <2>4 DEF FillState
  <2> QED
    BY <1>1, <1>2, <1>5, <1>6, <1>8, <1>9, <2>2, <2>3, <2>4, <2>5, HostResponds
<1>10. CASE /\ bridge.rsp = "RSP_M" /\ d2hData # <<>> /\ Respond(Host, "RSP_M", Head(d2hData).data)
            /\ d2hData' = Tail(d2hData)
  <2>1. d2hData \in Seq(D2HData) /\ Len(d2hData) <= 1 /\ Data(d) = {}
    <3>1. OneData(d)
      BY <1>4 DEF Moving
    <3>2. Len(d2hData) <= 1 /\ (Data(d) = {} \/ d2hData = <<>>)
      BY <3>1 DEF OneData
    <3>3. d2hData \in Seq(D2HData)
      BY DataTypes
    <3> QED
      BY <1>10, <3>2, <3>3
  <2>2. 1 \in DOMAIN d2hData /\ Head(d2hData) = d2hData[1] /\ Tail(d2hData) = <<>>
    BY <1>10, <2>1, OneLong
  <2>3. NoData(d)' /\ ~NoData(d)
    <3>1. Data(d)' = Data(d)
      BY <1>8 DEF Data, Of
    <3> QED
      BY <1>10, <2>1, <2>2, <3>1 DEF NoData
  <2>4. Head(d2hData).data = latest[y] /\ y \in Stores[d]
    <3>1. d2hData[1].data = latest[bridge.addr]
      BY <1>4, <2>2 DEF Moving, Carried
    <3> QED
      BY <1>2, <1>4, <2>2, <2>3, <3>1 DEF Moving
  <2>5. PICK status, data : status = "RSP_M" /\ data = Head(d2hData).data
    OBVIOUS
  <2> QED
    BY <1>1, <1>2, <1>6, <1>8, <1>10, <2>3, <2>4, <2>5, HostResponds
<1> QED
  BY <1>2, <1>9, <1>10 DEF HostDone

\* The host's caches have room: it never writes back.
LEMMA NoHostWriteBack ==
  ASSUME Facts, HostWriteBack
  PROVE  FALSE
<1>1. bridge.src = Host
  BY DataTypes DEF HostWriteBack, TypeOK, D2HReqOpcode
<1> QED
  BY <1>1, HostAsks DEF HostWriteBack

----------------------------------------------------------------------------
(* A device's cache gets a line, or gives one up.                          *)

\* The device holds the line already, or has been granted it; to write it, it
\* must be alone with it.
LEMMA DeviceTakes ==
  ASSUME OneDevice, Facts, NEW d \in Devices, NEW x \in Addrs, NEW s \in {"S", "M"},
         NEW v \in Values, Takes(d, x, s, v), UNCHANGED <<sf, mem, bridge, d2hData, d2hRsp>>,
         up'[d] = up[d], Holds(d, x), ~Go(d)', \A r : ~Pending(d, r)',
         Snooped(d) \/ Failed(d) => Snooped(d)' \/ Failed(d)',
         s = "M" => x \in Stores[d] /\ Owns(d, x),
         s = "S" => v = latest[x] /\ ~Dirty(d, x),
         \A y \in Addrs : ~Granted(d, y, {"WRITE_BACK"}),
         \A y \in Addrs : Granted(d, y, {"SNP_INV"}) => y = x /\ s = "M"
  PROVE  Kept' /\ Refines
<1>1. Host \in Agents /\ d \in Agents /\ d # Host /\ latest \in [Addrs -> Values]
  BY AgentTypes, DataTypes
<1>2. /\ \A y \in Addrs : latest'[y] = IF y = x THEN v ELSE latest[y]
      /\ \A y \in Addrs : cache'[Host][y] = cache[Host][y]
      /\ \A y \in Addrs : cache'[d][y] = IF y = x THEN [state |-> s, data |-> v] ELSE cache[d][y]
      /\ proc'[d].pc = "idle" /\ proc[d].pc # "flush"
  BY <1>1, DataTypes DEF Takes, Recaches, Idle
<1>3. s = "M" => ~Live(Host, x)
  BY DataTypes DEF Inv, SnoopInv, Alone
<1>4. v = latest[x] \/ \A b \in Agents : b # d => ~Live(b, x)
  BY <1>3, Single, AgentTypes
<1>5. Program' /\ Fresh' /\ Refines
  BY <1>1, <1>4, TakesCopies
<1>6. \A y : \A types : ~Granted(d, y, types)'
  BY DEF Granted
<1>7. \A y \in Addrs : Holds(d, y)' => Holds(d, y)
  BY <1>2, <1>6 DEF Live, Valid, Evicting, Holds
<1>8. DirtyFresh(d) /\ HostAlone(d) /\ Found(d) /\ Ended(d)
  BY KeptParts
<1>9. DirtyFresh(d)'
  <2>1. x \in sf[d]
    BY InFilter
  <2> QED
    BY <1>2, <1>8, <2>1 DEF DirtyFresh, Dirty
<1>10. GoFresh(d)' /\ Flushing(d)'
  BY <1>6 DEF GoFresh, Flushing
<1>11. HostAlone(d)'
  BY <1>2, <1>7, HostAloneFrame
<1>12. Moving(d)'
  <2>1. ~NoData(d) => latest'[bridge.addr] = latest[bridge.addr]
    BY <1>2, Moved
  <2> QED
    BY <1>6, <2>1, MovingFrame
<1>13. Ended(d)'
  <2>1. bridge.state = "DONE" /\ bridge.type \in Evicts => ~(d = bridge.src /\ x = bridge.addr)
    BY DataTypes DEF Inv, SnoopInv, Round, Evicted
  <2>2. \A y \in Addrs : y # x => (Dirty(d, y)' <=> Dirty(d, y))
    BY <1>2 DEF Dirty
  <2> QED
    BY <1>8, <2>1, <2>2 DEF Ended
<1>14. Found(d)'
  <2>1. s = "M" /\ Asked /\ bridge.src = Host /\ bridge.type = "SNP_DATA" /\ bridge.addr = x =>
          Snooped(d) \/ Failed(d)
    BY <1>1, DataTypes DEF Inv, SnoopInv, Round, NoneOwns, Reads
  <2>2. \A y \in Addrs : Dirty(d, y)' => (y # x /\ Dirty(d, y)) \/ (y = x /\ s = "M")
    BY <1>2 DEF Dirty
  <2> QED
    BY <1>7, <1>8, <2>1, <2>2 DEF Found, Asked
<1>15. Stored'
  <2> SUFFICES ASSUME NEW y \in Addrs, ~Valid(Host, y)', mem'[y] # latest'[y] PROVE KeptBy(d, y)'
    BY DEF Stored
  <2>1. CASE y = x /\ s = "M"
    BY <1>2, <2>1 DEF KeptBy, Dirty
  <2>2. CASE ~(y = x /\ s = "M")
    <3>1. latest'[y] = latest[y] /\ ~Valid(Host, y) /\ mem[y] # latest[y]
      BY <1>2, <2>2 DEF Valid
    <3>2. KeptBy(d, y)
      BY <3>1, Single, KeptParts DEF Stored
    <3>3. ~Granted(d, y, {"SNP_INV"})
      BY <2>2
    <3>4. Dirty(d, y) => Dirty(d, y)'
      BY <1>2, <2>2 DEF Dirty
    <3>5. NoData(d)' <=> NoData(d)
      BY StillData
    <3> QED
      BY <3>2, <3>3, <3>4, <3>5 DEF KeptBy
  <2> QED
    BY <2>1, <2>2
<1> QED
  BY <1>5, <1>9, <1>10, <1>11, <1>12, <1>13, <1>14, <1>15, AllKept

\* A processor asks: what it writes back is what it has.
LEMMA AskKept ==
  ASSUME OneDevice, Facts, NEW d \in Devices, NEW a \in Agents, NEW p \in Busy, Asks(a, p),
         p.pc = "flush" => a # Host, UNCHANGED protocol, Fewer,
         NEW r, request' = [request EXCEPT ![a] = Append(@, r)],
         r.type \in Writes =>
           /\ r.addr \in Addrs /\ Valid(a, r.addr) /\ r.data = cache[a][r.addr].data
           /\ r.type = WriteBackType(cache[a][r.addr].state)
  PROVE  Kept' /\ Refines
<1>1. UNCHANGED <<dcoh, up, down, d2hRsp, d2hData, bridge, sf, mem, cache, latest>>
  BY DEF protocol, links, channels, Asks
<1>2. Program' /\ Fresh' /\ Refines
  BY AsksCopies
<1>3. d \in Agents /\ request \in [Agents -> Seq(CacheRequest)]
  BY AgentTypes, DataTypes
<1>4. SameGo(d) /\ (Snooped(d)' <=> Snooped(d)) /\ (Failed(d)' <=> Failed(d))
  BY <1>1, SameGoDown, SameDown DEF Failed
<1>5. \A x \in Addrs : /\ Granted(d, x, {"WRITE_BACK"})' <=> Granted(d, x, {"WRITE_BACK"})
                       /\ Live(d, x)' => Live(d, x)
                       /\ Holds(d, x)' => Holds(d, x)
                       /\ Dirty(d, x)' <=> Dirty(d, x)
  BY <1>1, <1>3, <1>4, SameGranted DEF Fewer, Holds, Dirty
<1>6. Moving(d)' /\ Ended(d)' /\ Found(d)'
  BY <1>1, <1>4, <1>5, MovingFrame, EndedFrame, FoundFrame
<1>7. NoData(d)' <=> NoData(d)
  BY <1>1, StillData
<1>8. DirtyFresh(d)
  BY KeptParts
<1>9. Flushing(d)'
  <2>1. CASE a # d
    <3>1. request'[d] = request[d]
      BY <1>3, <2>1
    <3>2. \A q \in CacheRequest : Pending(d, q)' => Pending(d, q)
      BY <1>1, <3>1 DEF Pending
    <3> QED
      BY <1>1, <1>5, <3>2, FlushingFrame
  <2>2. CASE a = d
    <3>1. proc[d] = Idle
      BY <2>2 DEF Asks
    <3>2. request[d] = <<>> /\ dcoh[d].state = "INIT"
      BY <3>1, DeviceIdle
    <3>3. request'[d] = <<r>>
      <4>1. request'[d] = Append(<<>>, r)
        BY <1>3, <2>2, <3>2
      <4> QED
        BY <4>1
    <3>4. \A q : Pending(d, q)' => q = r
      BY <1>1, <3>2, <3>3 DEF Pending
    <3>5. r.type \in Writes => Live(d, r.addr)
      BY <2>2, <3>1 DEF Live, Evicting, Idle
    <3>6. r.type \in Writes => r.data = latest[r.addr]
      BY <1>3, <2>2, <3>5, KeptParts DEF Fresh
    <3>7. r.type = "WRITE_BACK" => Dirty(d, r.addr)
      BY <2>2 DEF WriteBackType, Dirty, Writes
    <3>8. r.type = "WRITE_BACK_CLEAN" => ~Dirty(d, r.addr)
      BY <2>2 DEF WriteBackType, Dirty, Writes
    <3> QED
      BY <1>1, <1>5, <1>8, <3>4, <3>6, <3>7, <3>8 DEF Flushing, DirtyFresh, Writes
  <2> QED
    BY <2>1, <2>2
<1>10. \A x \in Addrs : Dirty(d, x) => x \in sf'[d]
  BY <1>1, <1>8 DEF DirtyFresh
<1> QED
  BY <1>1, <1>2, <1>4, <1>5, <1>6, <1>7, <1>9, <1>10, PassedKept

\* A store into a line that is the processor's to write
LEMMA HitKept ==
  ASSUME OneWriter, OneDevice, Facts, NEW d \in Devices, NEW a \in Agents, NEW x \in Addrs,
         NEW v \in Values, proc[a] = Idle, x \in Stores[a], cache[a][x].state \in {"E", "M"},
         Commit(a, x, v), UNCHANGED <<proc, request>>, UNCHANGED protocol
  PROVE  Kept' /\ Refines
<1>1. UNCHANGED <<dcoh, up, down, d2hRsp, d2hData, bridge, sf, mem, request>>
  BY DEF protocol, links, channels
<1>2. cache \in [Agents -> [Addrs -> CacheBlock]] /\ proc \in [Agents -> {Idle} \cup Busy]
  BY DataTypes
<1>3. Takes(a, x, "M", v)
  <2>1. Idle.pc # "flush"
    BY DEF Idle
  <2> QED
    BY <1>2, <2>1 DEF Takes, Recaches, Commit
<1>4. Live(a, x)
  BY DEF Live, Valid, Evicting, Idle
<1>5. CASE a = Host
  <2>1. x \notin Stores[d]
    BY <1>5, AgentTypes DEF OneWriter
  <2>2. ~Holds(d, x)
    BY <1>5, <2>1, KeptParts DEF HostAlone
  <2>3. SameGo(d) /\ (Snooped(d)' <=> Snooped(d)) /\ (Failed(d)' <=> Failed(d))
    BY <1>1, SameGoDown, SameDown DEF Failed
  <2>4. \A y \in Addrs : Granted(d, y, {"WRITE_BACK"})' <=> Granted(d, y, {"WRITE_BACK"})
    BY <2>3, SameGranted
  <2>5. \A y \in Addrs : cache'[d][y] = cache[d][y]
    BY <1>2, <1>5, AgentTypes DEF Commit
  <2>6. \A y \in Addrs : (Holds(d, y)' <=> Holds(d, y)) /\ (Dirty(d, y)' <=> Dirty(d, y))
    BY <1>1, <2>3, <2>5, SameGranted DEF Holds, Live, Valid, Evicting, Dirty
  <2>7. Moving(d)'
    <3>1. ~NoData(d) => bridge.addr \in Stores[d] /\ bridge.addr \in Addrs
      BY Moved, KeptParts DEF Moving
    <3>2. \A y \in Addrs : y # x => latest'[y] = latest[y]
      BY DataTypes DEF Commit
    <3> QED
      BY <1>1, <2>1, <2>4, <3>1, <3>2, MovingFrame
  <2>8. Ended(d)' /\ Found(d)'
    BY <1>1, <2>3, <2>4, <2>6, EndedFrame, FoundFrame
  <2>9. NoData(d)' <=> NoData(d)
    BY <1>1, StillData
  <2> QED
    BY <1>1, <1>3, <1>5, <2>2, <2>7, <2>8, <2>9, HostTakes
<1>6. CASE a # Host
  <2>1. a \in Devices
    BY <1>6, AgentTypes
  <2>2. a = d
    BY <2>1, Single
  <2>3. Holds(d, x) /\ Owns(d, x)
    BY <1>4, <2>2 DEF Holds, Owns, LiveOwned
  <2>4. ~Go(d) /\ request[d] = <<>> /\ dcoh[d].state = "INIT"
    BY <2>2, DeviceIdle
  <2>5. ~Go(d)' /\ (Snooped(d)' <=> Snooped(d)) /\ (Failed(d)' <=> Failed(d))
    BY <1>1, <2>4, SameDown DEF Failed
  <2>6. \A r : ~Pending(d, r)'
    BY <1>1, <2>4 DEF Pending
  <2>7. \A y : \A types : ~Granted(d, y, types)
    BY <2>4 DEF Granted
  <2> QED
    BY <1>1, <1>3, <2>2, <2>3, <2>5, <2>6, <2>7, DeviceTakes
<1> QED
  BY <1>5, <1>6

LEMMA ProcessorKept ==
  ASSUME Setting, Facts, NEW d \in Devices, NEW a \in Agents, NEW x \in Addrs, NEW v \in Values,
         Load(a, x) \/ Store(a, x, v), UNCHANGED protocol
  PROVE  Kept' /\ Refines
<1>1. proc[a] = Idle /\ Fewer
  BY DataTypes, FewerProcessor DEF Load, Store
<1>2. ASSUME NEW op \in {"load", "store"}, NEW w \in Values, Ask(a, op, x, w), UNCHANGED <<cache, latest>>,
             op = "load" => ~Valid(a, x), op = "store" => x \in Stores[a]
      PROVE  Kept' /\ Refines
  <2>1. PICK p, r : p = Asking(op, x, w) /\ r = AskRequest(op, x)
    OBVIOUS
  <2>2. /\ p \in Busy /\ p.pc # "flush" /\ r.type \notin Writes
        /\ (p.pc = "fill" <=> op = "load") /\ p.op = op /\ p.addr = x /\ p.pc \in {"fill", "own"}
    BY <2>1 DEF Busy, Asking, AskRequest, Writes
  <2>3. Asks(a, p) /\ request' = [request EXCEPT ![a] = Append(@, r)]
    BY <1>1, <1>2, <2>1, <2>2 DEF Asks, Right, Ask
  <2> QED
    BY <1>1, <2>2, <2>3, AskKept DEF Setting
<1>3. ASSUME NEW op \in {"load", "store"}, NEW w \in Values, Flush(a, op, x, w),
             UNCHANGED <<cache, latest>>, ~Valid(a, x), ~FreeBlock(a), op = "store" => x \in Stores[a]
      PROVE  Kept' /\ Refines
  <2>1. PICK y \in Addrs :
          /\ Valid(a, y)
          /\ proc' = [proc EXCEPT ![a] = [pc |-> "flush", op |-> op, addr |-> x, val |-> w, victim |-> y]]
          /\ request' = [request EXCEPT ![a] =
                           Append(@, [type |-> WriteBackType(cache[a][y].state),
                                      addr |-> y, data |-> cache[a][y].data])]
    BY <1>3 DEF Flush
  <2>2. PICK p, r : /\ p = [pc |-> "flush", op |-> op, addr |-> x, val |-> w, victim |-> y]
                    /\ r = [type |-> WriteBackType(cache[a][y].state), addr |-> y,
                            data |-> cache[a][y].data]
    OBVIOUS
  <2>3. p \in Busy /\ p.pc = "flush" /\ p.op = op /\ p.addr = x
    BY <2>2 DEF Busy
  <2>4. Asks(a, p)
    BY <1>1, <1>3, <2>1, <2>2, <2>3 DEF Asks, Right
  <2>5. a # Host
    BY <1>3, HostNeverFlushes DEF Setting
  <2>6. r.addr = y /\ r.data = cache[a][r.addr].data /\ r.type = WriteBackType(cache[a][r.addr].state)
    BY <2>2
  <2>7. request' = [request EXCEPT ![a] = Append(@, r)]
    BY <2>1, <2>2
  <2> QED
    BY <1>1, <2>1, <2>3, <2>4, <2>5, <2>6, <2>7, AskKept DEF Setting
<1>4. CASE Load(a, x)
  <2>1. InitVal \in Values
    BY CxlCacheAssumption
  <2> QED
    BY <1>2, <1>3, <1>4, <2>1 DEF Load, Miss
<1>5. CASE Store(a, x, v)
  <2>1. CASE cache[a][x].state \in {"E", "M"} /\ Commit(a, x, v) /\ UNCHANGED <<proc, request>>
    BY <1>1, <1>5, <2>1, HitKept DEF Setting, Store
  <2>2. CASE Ask(a, "store", x, v) /\ UNCHANGED <<cache, latest>>
    BY <1>2, <1>5, <2>2 DEF Store
  <2>3. CASE Miss(a, "store", x, v)
    BY <1>2, <1>3, <1>5, <2>3 DEF Store, Miss
  <2> QED
    BY <1>5, <2>1, <2>2, <2>3 DEF Store
<1> QED
  BY <1>4, <1>5

\* The victim is gone from the cache; its data, if modified, are on their way.
LEMMA DeviceGivesUp ==
  ASSUME OneDevice, Facts, NEW d \in Devices, dcoh[d].state # "INIT", Go(d), NEW t \in Writes,
         t = dcoh[d].packet.type, NEW y \in Addrs, y = dcoh[d].packet.addr, GivesUp(d, y),
         NEW r, request' = [request EXCEPT ![d] = Append(@, r)], r.type \notin Writes,
         dcoh'[d].state = "INIT", ~Go(d)', UNCHANGED <<sf, mem, bridge, d2hData, d2hRsp>>,
         up'[d] = IF t = "WRITE_BACK" THEN Append(up[d], [ch |-> "data", data |-> dcoh[d].packet.data])
                                      ELSE up[d],
         Snooped(d) \/ Failed(d) => Snooped(d)' \/ Failed(d)'
  PROVE  Kept' /\ Refines
<1>1. /\ Program' /\ Fresh' /\ Refines
      /\ \A c \in Agents, z \in Addrs : Live(c, z)' <=> Live(c, z)
  BY AgentTypes, GivesUpCopies
<1>2. /\ d \in Agents /\ d # Host /\ Host \in Agents
      /\ request \in [Agents -> Seq(CacheRequest)] /\ dcoh[d].packet \in CacheRequest
      /\ request[d] = <<>>
  BY AgentTypes, DataTypes, DeviceAsks
<1>3. /\ \A z \in Addrs : cache'[d][z] = IF z = y THEN Invalid ELSE cache[d][z]
      /\ \A z \in Addrs : cache'[Host][z] = cache[Host][z]
      /\ latest' = latest
  BY <1>2 DEF GivesUp, Recaches
<1>4. \A z \in Addrs : Dirty(d, z)' <=> z # y /\ Dirty(d, z)
  BY <1>3 DEF Dirty, Invalid
<1>5. \A z : \A types : ~Granted(d, z, types)'
  BY DEF Granted
<1>6. \A z \in Addrs : Holds(d, z)' => Holds(d, z)
  BY <1>1, <1>2, <1>5 DEF Holds
<1>7. /\ DirtyFresh(d) /\ Flushing(d) /\ Moving(d) /\ Ended(d)
      /\ Pending(d, dcoh[d].packet)
  BY KeptParts DEF Pending
<1>8. DirtyFresh(d)'
  BY <1>3, <1>4, <1>7 DEF DirtyFresh, Dirty, Invalid
<1>9. GoFresh(d)'
  BY <1>5 DEF GoFresh
<1>10. Flushing(d)'
  <2>1. request'[d] = <<r>>
    <3>1. request'[d] = Append(<<>>, r)
      BY <1>2
    <3> QED
      BY <3>1
  <2>2. \A q : Pending(d, q)' => q = r
    BY <2>1 DEF Pending
  <2> QED
    BY <2>2 DEF Flushing, Writes
<1>11. HostAlone(d)'
  BY <1>3, <1>6, HostAloneFrame
<1>12. \A z : \A types : Granted(d, z, types) => z = y /\ t \in types
  BY DEF Granted
<1>13. Ended(d)'
  BY <1>4, <1>7, <1>12 DEF Ended
<1>14. Found(d)'
  BY <1>4, <1>6, FoundFrame
<1>15. /\ Moving(d)' /\ (~NoData(d) => ~NoData(d)')
       /\ t = "WRITE_BACK" => ~NoData(d)' /\ bridge.addr = y
  <2>1. CASE t = "WRITE_BACK_CLEAN"
    BY <1>3, <1>5, <2>1, StillData, MovingFrame
  <2>2. CASE t = "WRITE_BACK"
    <3>1. PICK p : p = [ch |-> "data", data |-> dcoh[d].packet.data]
      OBVIOUS
    <3>2. p \in D2HData /\ p.ch = "data" /\ p.data = latest[y] /\ y \in Stores[d]
      BY <1>2, <1>7, <2>2, <3>1 DEF D2HData, CacheRequest, Flushing
    <3>3. Granted(d, y, {"WRITE_BACK"})
      BY <2>2 DEF Granted
    <3>4. Pulling(d) /\ bridge.addr = y /\ Data(d) = {} /\ d2hData = <<>>
      BY <1>7, <3>3 DEF Moving, NoData
    <3>5. Once(up[d], "data")
      BY <1>7 DEF Moving, OneData
    <3>6. Data(d)' = {p} /\ Once(up[d], "data")'
      BY <2>2, <3>1, <3>2, <3>4, <3>5, PutUpData
    <3>7. d2hData' = <<>> /\ Len(d2hData') <= 1 /\ DOMAIN d2hData' = {}
      BY <3>4
    <3>8. ~NoData(d)' /\ OneData(d)' /\ Carried(d)'
      BY <1>3, <3>2, <3>4, <3>6, <3>7 DEF NoData, OneData, Carried
    <3>9. Pulling(d)'
      BY <3>4 DEF Pulling
    <3> QED
      BY <1>5, <3>2, <3>4, <3>8, <3>9 DEF Moving
  <2> QED
    BY <2>1, <2>2 DEF Writes
<1>16. Stored'
  <2> SUFFICES ASSUME NEW x \in Addrs, ~Valid(Host, x)', mem'[x] # latest'[x] PROVE KeptBy(d, x)'
    BY DEF Stored
  <2>1. ~Valid(Host, x) /\ mem[x] # latest[x]
    BY <1>3 DEF Valid
  <2>2. KeptBy(d, x)
    BY <2>1, Single, KeptParts DEF Stored
  <2>3. ~Granted(d, x, {"SNP_INV"})
    BY <1>12 DEF Writes
  <2>4. x = y /\ Dirty(d, x) => t = "WRITE_BACK"
    BY <1>2, <1>7 DEF Flushing, Writes
  <2> QED
    BY <1>4, <1>15, <2>2, <2>3, <2>4 DEF KeptBy
<1> QED
  BY <1>1, <1>8, <1>9, <1>10, <1>11, <1>13, <1>14, <1>15, <1>16, AllKept

\* The device gets the answer to its request.
LEMMA AnswerKept ==
  ASSUME OneDevice, Facts, NEW d \in Devices, DcohResponse(d)
  PROVE  Kept' /\ Refines
<1> DEFINE t == dcoh[d].packet.type
           p == [ch |-> "data", data |-> dcoh[d].packet.data]
<1>1. PICK i \in DOMAIN down[d] :
        /\ FirstOf(down[d], i, "rsp") /\ down' = [down EXCEPT ![d] = RemoveAt(@, i)]
        /\ \/ /\ down[d][i].opcode \in {"GO_E", "GO_I"}
              /\ Respond(d, "RSP_I", InitVal) /\ up' = up
           \/ /\ down[d][i].opcode = "GO_S"
              /\ Respond(d, "RSP_S", down[d][i].data) /\ up' = up
           \/ /\ down[d][i].opcode = "GO_WRITE_PULL"
              /\ up' = [up EXCEPT ![d] = Append(@, p)]
              /\ Respond(d, "OK", InitVal)
  BY DEF DcohResponse
<1>2. /\ UNCHANGED <<d2hData, d2hRsp, bridge, sf, mem>>
      /\ dcoh[d].state = "WAIT" /\ dcoh'[d] = [state |-> "INIT", packet |-> None]
      /\ down'[d] = RemoveAt(down[d], i)
  BY <1>1, DataTypes DEF DcohResponse, FinishDcoh, channels, TypeOK
<1>3. /\ i = 1 /\ Go(d) /\ ~Go(d)'
      /\ Snooped(d)' <=> Snooped(d)
  BY <1>1, <1>2, DataTypes, TakeGo, DeviceInv
<1>4. down[d][1].opcode = GoOf[t] /\ t \in RequestType
  BY <1>2, <1>3, DataTypes, DeviceInv, Awaited DEF Same
<1>5. Snooped(d) \/ Failed(d) => Snooped(d)' \/ Failed(d)'
  BY <1>2, <1>3 DEF Failed
<1>6. /\ dcoh[d].packet \in CacheRequest /\ request[d] = <<>> /\ proc[d].pc # "idle"
      /\ t = "SNP_DATA" => ~Valid(d, dcoh[d].packet.addr)
      /\ t = "SNP_INV" => dcoh[d].packet.addr \in Stores[d]
  BY <1>2, DeviceAsks
<1>7. /\ t \in Writes => proc[d].pc = "flush" /\ proc[d].victim = dcoh[d].packet.addr
      /\ t = "SNP_DATA" => proc[d].pc = "fill" /\ proc[d].addr = dcoh[d].packet.addr
      /\ t = "SNP_INV" => proc[d].pc = "own" /\ proc[d].addr = dcoh[d].packet.addr
  BY <1>2, DataTypes, Awaited
<1>8. PICK y \in Addrs : y = dcoh[d].packet.addr
  BY <1>6 DEF CacheRequest
<1>9. /\ d \in Agents /\ proc[d] \in Busy /\ up \in [Devices -> Seq(D2HReq \cup D2HRsp \cup D2HData)]
      /\ cache \in [Agents -> [Addrs -> CacheBlock]] /\ latest \in [Addrs -> Values]
      /\ proc \in [Agents -> {Idle} \cup Busy]
  <2>1. Idle.pc = "idle"
    BY DEF Idle
  <2> QED
    BY <1>6, <2>1, AgentTypes, DataTypes DEF TypeOK
<1>10. \A x : \A types : Granted(d, x, types) <=> x = y /\ t \in types
  BY <1>3, <1>8 DEF Granted
<1>11. CASE t \in Writes
  <2>1. PICK status, data : Respond(d, status, data)
    BY <1>1
  <2>2. PICK r : r = AskRequest(proc[d].op, proc[d].addr)
    OBVIOUS
  <2>3. /\ cache' = [cache EXCEPT ![d][y] = Invalid] /\ latest' = latest
        /\ proc' = [proc EXCEPT ![d] = Asking(proc[d].op, proc[d].addr, proc[d].val)]
        /\ request' = [request EXCEPT ![d] = Append(@, r)]
    BY <1>7, <1>8, <1>11, <2>1, <2>2 DEF Respond, Ask
  <2>4. r.type \notin Writes
    BY <2>2 DEF AskRequest, Writes
  <2>5. GivesUp(d, y)
    BY <1>7, <1>8, <1>9, <1>11, <2>3 DEF GivesUp, Recaches, Evicting
  <2>6. up'[d] = IF t = "WRITE_BACK" THEN Append(up[d], p) ELSE up[d]
    <3>1. down[d][1].opcode = IF t = "WRITE_BACK" THEN "GO_WRITE_PULL" ELSE "GO_I"
      BY <1>4, <1>11 DEF GoOf, Writes
    <3>2. IF t = "WRITE_BACK" THEN up' = [up EXCEPT ![d] = Append(@, p)] ELSE up' = up
      BY <1>1, <1>3, <3>1
    <3> QED
      BY <1>9, <3>2
  <2>7. PICK w \in Writes : w = t
    BY <1>11
  <2>8. up'[d] = IF w = "WRITE_BACK" THEN Append(up[d], [ch |-> "data", data |-> dcoh[d].packet.data])
                                    ELSE up[d]
    BY <2>6, <2>7
  <2>9. dcoh[d].state # "INIT" /\ dcoh'[d].state = "INIT"
    BY <1>2
  <2> HIDE DEF p
  <2> QED
    BY <1>2, <1>3, <1>5, <1>8, <2>3, <2>4, <2>5, <2>7, <2>8, <2>9, DeviceGivesUp
<1>12. CASE t \in {"SNP_DATA", "SNP_INV"}
  <2>1. up' = up
    BY <1>1, <1>3, <1>4, <1>12 DEF GoOf
  <2>2. \A r : ~Pending(d, r)' \/ request'[d] # <<>>
    BY <1>2 DEF Pending
  <2>3. CASE t = "SNP_DATA"
    <3>1. Granted(d, y, {"SNP_DATA"}) /\ Holds(d, y)
      BY <1>10, <2>3 DEF Holds
    <3>2. PICK v \in Values : v = down[d][1].data /\ v = latest[y]
      BY <1>9, <3>1, KeptParts DEF GoFresh
    <3>3. Respond(d, "RSP_S", v)
      BY <1>1, <1>3, <1>4, <2>3, <3>2 DEF GoOf
    <3>4. /\ cache' = [cache EXCEPT ![d][y] = [state |-> "S", data |-> v]]
          /\ proc' = [proc EXCEPT ![d] = Idle] /\ latest' = latest /\ request' = request
      BY <1>7, <1>8, <2>3, <3>3 DEF Respond, FillState
    <3>5. latest' = [latest EXCEPT ![y] = v]
      BY <1>9, <3>2, <3>4
    <3>6. Takes(d, y, "S", v)
      BY <1>7, <1>9, <2>3, <3>4, <3>5 DEF Takes, Recaches
    <3>7. ~Dirty(d, y)
      BY <1>6, <1>8, <2>3 DEF Dirty, Valid
    <3> QED
      BY <1>2, <1>3, <1>5, <1>6, <1>10, <2>1, <2>2, <2>3, <3>1, <3>2, <3>4, <3>6, <3>7, DeviceTakes
  <2>4. CASE t = "SNP_INV"
    <3>1. Holds(d, y) /\ Owns(d, y)
      BY <1>10, <2>4 DEF Holds, Owns
    <3>2. PICK v \in Values : v = proc[d].val
      BY <1>9 DEF Busy
    <3>3. PICK status, data : Respond(d, status, data)
      BY <1>1
    <3>4. /\ cache' = [cache EXCEPT ![d][y] = [state |-> "M", data |-> v]]
          /\ proc' = [proc EXCEPT ![d] = Idle] /\ latest' = [latest EXCEPT ![y] = v]
          /\ request' = request
      BY <1>7, <1>8, <2>4, <3>2, <3>3 DEF Respond, Commit
    <3>5. Takes(d, y, "M", v)
      BY <1>7, <1>9, <2>4, <3>4 DEF Takes, Recaches
    <3> QED
      BY <1>2, <1>3, <1>5, <1>6, <1>8, <1>10, <2>1, <2>2, <2>4, <3>1, <3>4, <3>5, DeviceTakes
  <2> QED
    BY <1>12, <2>3, <2>4
<1> QED
  BY <1>4, <1>11, <1>12 DEF RequestType, Writes


\* Of a snoop's answer, what it adds to the data.
LEMMA PutReplyData ==
  ASSUME Facts, NEW d \in Devices, NoData(d), d2hData' = d2hData, NEW r \in D2HRsp, NEW s \in D2HData,
         up'[d] = Append(up[d], r) \/ up'[d] = Append(Append(up[d], r), s)
  PROVE  /\ up'[d] = Append(up[d], r) => NoData(d)'
         /\ OneData(d)' /\ Data(d)' \subseteq {s} /\ d2hData' = <<>>
         /\ up'[d] = Append(Append(up[d], r), s) => Data(d)' = {s}
<1> DEFINE q == up[d]
           u == Append(q, r)
           w == Append(u, s)
           S == D2HReq \cup D2HRsp \cup D2HData
<1>1. q \in Seq(S) /\ Once(q, "data") /\ Of(q, "data") = {}
  BY DataTypes, DeviceInv, KeptParts DEF Moving, OneData, NoData, Data
<1>2. r \in S /\ s \in S /\ r.ch = "rsp" /\ s.ch = "data"
  BY DEF D2HRsp, D2HData
<1>3. up'[d] = u \/ up'[d] = w
  OBVIOUS
<1> HIDE DEF q, S
<1>4. u \in Seq(S)
  BY <1>1, <1>2, AppendProperties
<1>5. Of(u, "data") = {} /\ Once(u, "data")
  BY <1>1, <1>2, OfAppend
<1> HIDE DEF u
<1>6. Of(w, "data") = {s} /\ Once(w, "data")
  BY <1>2, <1>4, <1>5, OfAppend
<1> HIDE DEF w
<1>7. /\ Data(d)' = Of(up'[d], "data")
      /\ Once(up[d], "data")' <=> Once(up'[d], "data")
      /\ d2hData' = <<>> /\ Len(d2hData') <= 1
  <2>1. d2hData' = <<>> /\ Len(<<>>) = 0
    BY DEF NoData
  <2> QED
    BY <2>1 DEF Data, Once
<1>8. /\ Once(up[d], "data")'
      /\ up'[d] = u => Data(d)' = {}
      /\ up'[d] = w => Data(d)' = {s}
  BY <1>3, <1>5, <1>6, <1>7
<1>9. Data(d)' \subseteq {s} /\ (up'[d] = u => NoData(d)') /\ OneData(d)'
  BY <1>3, <1>7, <1>8 DEF NoData, OneData
<1> QED
  BY <1>7, <1>8, <1>9 DEF u, w, q

\* Data come along when a modified block is read, and only then.
LEMMA ForwardsDirty ==
  ASSUME Facts, NEW d \in Devices, NEW x \in Addrs, NEW opcode \in {"SNP_INV", "SNP_DATA"},
         NEW reply, reply = SnoopOpcode(SnoopStatus(opcode, cache[d][x].state))
  PROVE  reply = "RSP_S_FWD_M" <=> opcode = "SNP_DATA" /\ Dirty(d, x)
<1>1. cache[d][x].state \in CacheState
  BY DataTypes, AgentTypes DEF CacheBlock
<1>2. CASE cache[d][x].state = "I"
  BY <1>2 DEF SnoopOpcode, SnoopStatus, Dirty
<1>3. CASE cache[d][x].state # "I" /\ opcode = "SNP_INV"
  BY <1>3 DEF SnoopOpcode, SnoopStatus
<1>4. CASE cache[d][x].state # "I" /\ opcode = "SNP_DATA"
  <2>1. SnoopStatus(opcode, cache[d][x].state) = [S |-> "RSP_S", E |-> "RSP_E", M |-> "RSP_M"][cache[d][x].state]
    BY <1>4 DEF SnoopStatus
  <2> QED
    BY <1>1, <1>4, <2>1 DEF SnoopOpcode, CacheState, Dirty
<1> QED
  BY <1>2, <1>3, <1>4

\* The device looks the line up for the host: it answers with its modified
\* block, if it has one, which it keeps as a shared one.
LEMMA LookUpKept ==
  ASSUME OneDevice, OneWriter, Facts, NEW d \in Devices, NEW y \in Addrs, y = bridge.addr,
         bridge.state = "WAIT", bridge.src = Host, bridge.type \in {"SNP_DATA", "SNP_INV"}, y \in sf[d],
         ~Go(d), ~Go(d)', NoData(d), Rsps(d) = {}, AnswerSnoop(d, RoundSnoop, y),
         UNCHANGED <<proc, request, latest, dcoh, channels, bridge, sf, mem>>
  PROVE  Kept' /\ Refines
<1>1. /\ RoundSnoop = bridge.type /\ d \in Agents /\ d # Host /\ Host \in Agents
      /\ cache \in [Agents -> [Addrs -> CacheBlock]]
      /\ UNCHANGED <<d2hData, d2hRsp>>
  BY AgentTypes, DataTypes DEF RoundSnoop, Invalidations, channels
<1>2. PICK t \in {"SNP_INV", "SNP_DATA"} : t = bridge.type
  OBVIOUS
<1>3. PICK reply, data : reply = SnoopOpcode(SnoopStatus(t, cache[d][y].state)) /\ data = cache[d][y].data
  OBVIOUS
<1>4. Snoop(d, t, y) /\ up' = [up EXCEPT ![d] = @ \o SnoopReply(reply, data)]
  BY <1>1, <1>2, <1>3 DEF AnswerSnoop
<1>5. Program' /\ Fresh' /\ Refines
  BY <1>1, <1>4, SnoopCopies
<1>6. PICK b : b = IF t = "SNP_INV" \/ cache[d][y].state = "I" THEN Invalid
                   ELSE [state |-> "S", data |-> cache[d][y].data]
  OBVIOUS
<1>7. /\ \A x \in Addrs : cache'[d][x] = IF x = y THEN b ELSE cache[d][x]
      /\ \A x \in Addrs : cache'[Host][x] = cache[Host][x]
  BY <1>1, <1>4, <1>6, SnoopRecaches, DataTypes DEF Recaches
<1>8. /\ b.state \in {"S", "I"}
      /\ cache[d][y].state = "I" => b.state = "I"
  BY <1>6 DEF Invalid
<1>9. \A x \in Addrs : Dirty(d, x)' <=> x # y /\ Dirty(d, x)
  BY <1>7, <1>8 DEF Dirty
<1>10. \A x : \A types : ~Granted(d, x, types) /\ ~Granted(d, x, types)'
  BY DEF Granted
<1>11. \A x \in Addrs : Holds(d, x)' => Holds(d, x)
  BY <1>1, <1>7, <1>8, <1>10 DEF Holds, Live, Valid, Evicting
<1>12. reply \in D2HRspOpcode /\ (reply = "RSP_S_FWD_M" <=> t = "SNP_DATA" /\ Dirty(d, y))
  BY <1>3, <1>4, ReplyOpcode, ForwardsDirty, DataTypes
<1>13. PICK r, s : r = [ch |-> "rsp", opcode |-> reply] /\ s = [ch |-> "data", data |-> data]
  OBVIOUS
<1>14. /\ r \in D2HRsp /\ s \in D2HData /\ r.opcode = reply /\ s.data = cache[d][y].data
  BY <1>1, <1>3, <1>12, <1>13 DEF D2HRsp, D2HData, CacheBlock
<1>15. up'[d] = IF reply = "RSP_S_FWD_M" THEN Append(Append(up[d], r), s) ELSE Append(up[d], r)
  <2> DEFINE q == up[d]
             S == D2HReq \cup D2HRsp \cup D2HData
  <2>1. q \in Seq(S) /\ r \in S /\ s \in S
    BY <1>14, DataTypes, DeviceInv
  <2>2. up'[d] = IF reply = "RSP_S_FWD_M" THEN q \o (<<r>> \o <<s>>) ELSE q \o (<<r>> \o <<>>)
    BY <1>4, <1>13, DataTypes DEF SnoopReply, TypeOK
  <2> HIDE DEF q, S
  <2>3. q \o (<<r>> \o <<>>) = Append(q, r) /\ q \o (<<r>> \o <<s>>) = Append(Append(q, r), s)
    BY <2>1, ConcatOne, ConcatTwo
  <2>4. up'[d] = IF reply = "RSP_S_FWD_M" THEN Append(Append(q, r), s) ELSE Append(q, r)
    BY <2>2, <2>3
  <2> QED
    BY <2>4 DEF q
<1>16. /\ OneData(d)' /\ Data(d)' \subseteq {s} /\ d2hData' = <<>>
       /\ reply = "RSP_S_FWD_M" => Data(d)' = {s}
       /\ reply # "RSP_S_FWD_M" => NoData(d)'
  BY <1>1, <1>14, <1>15, PutReplyData
<1>17. DirtyFresh(d) /\ HostAlone(d) /\ Found(d)
  BY KeptParts
<1>18. t = "SNP_INV" => ~Dirty(d, y)
  <2>1. t = "SNP_INV" => y \in Stores[Host]
    BY <1>2, HostAsks
  <2> QED
    BY <1>1, <1>17, <2>1 DEF OneWriter, DirtyFresh
<1>19. reply = "RSP_S_FWD_M" => y \in Stores[d] /\ s.data = latest[y]
  BY <1>12, <1>14, <1>17 DEF DirtyFresh
<1>20. DirtyFresh(d)'
  BY <1>7, <1>8, <1>9, <1>17 DEF DirtyFresh, Dirty
<1>21. GoFresh(d)'
  BY <1>10 DEF GoFresh
<1>22. Flushing(d)'
  <2>1. \A q \in CacheRequest : Pending(d, q)' => Pending(d, q)
    BY DEF Pending
  <2> QED
    BY <1>9, <2>1, FlushingFrame
<1>23. HostAlone(d)'
  BY <1>7, <1>11, HostAloneFrame
<1>24. Moving(d)'
  <2>1. CASE reply = "RSP_S_FWD_M"
    <3>1. Carried(d)'
      <4>1. DOMAIN d2hData' = {}
        BY <1>16
      <4> QED
        BY <1>16, <1>19, <2>1, <4>1 DEF Carried
    <3>2. Rsps(d)' = {r}
      BY <1>14, <1>15, PutReply, DataTypes
    <3>3. Forwarded(d)'
      BY <1>2, <1>12, <1>14, <2>1, <3>2 DEF Forwarded
    <3> QED
      BY <1>10, <1>16, <1>19, <2>1, <3>1, <3>3 DEF Moving
  <2>2. CASE reply # "RSP_S_FWD_M"
    BY <1>10, <1>16, <2>2, MovingRest
  <2> QED
    BY <2>1, <2>2
<1>25. Ended(d)' /\ Found(d)'
  <2>1. Ended(d)'
    BY <1>1 DEF Ended
  <2>2. Found(d)'
    BY <1>9 DEF Found
  <2> QED
    BY <2>1, <2>2
<1>26. Stored'
  <2> SUFFICES ASSUME NEW x \in Addrs, ~Valid(Host, x)', mem'[x] # latest'[x] PROVE KeptBy(d, x)'
    BY DEF Stored
  <2>1. ~Valid(Host, x) /\ mem[x] # latest[x]
    BY <1>7 DEF Valid
  <2>2. Dirty(d, x)
    BY <1>10, <2>1, Single, KeptParts DEF Stored, KeptBy
  <2>3. CASE x # y
    BY <1>9, <2>2, <2>3 DEF KeptBy
  <2>4. CASE x = y
    <3>1. reply = "RSP_S_FWD_M"
      BY <1>12, <1>18, <2>2, <2>4
    <3>2. ~NoData(d)'
      BY <1>16, <3>1 DEF NoData
    <3> QED
      BY <2>4, <3>2 DEF KeptBy
  <2> QED
    BY <2>3, <2>4
<1> QED
  BY <1>5, <1>20, <1>21, <1>22, <1>23, <1>24, <1>25, <1>26, AllKept

\* The device answers a snoop: the host's, for it is the only device.
LEMMA SnoopAnswerKept ==
  ASSUME OneDevice, OneWriter, Facts, NEW d \in Devices, DcohSnoop(d)
  PROVE  Kept' /\ Refines
<1> DEFINE p == Head(down[d])
           writing == dcoh[d].packet.type \in {"WRITE_BACK", "WRITE_BACK_CLEAN"}
<1>1. /\ UNCHANGED <<proc, request, latest, channels, bridge, sf, mem, d2hData, d2hRsp>>
      /\ dcoh[d].state # "FAILED"
      /\ down[d] # <<>> /\ p.ch = "req" /\ down'[d] = Tail(down[d])
  BY DataTypes DEF DcohSnoop, ServesSnoops, channels, TypeOK
<1>2. /\ Snooped(d) /\ ~Go(d) /\ LastOf(down[d]) = p
      /\ ~Snooped(d)' /\ ~Go(d)'
  BY <1>1, TakeSnoop, DataTypes, DeviceInv
<1>3. /\ bridge.addr = p.addr /\ p.opcode = RoundSnoop
      /\ Rsps(d) = {} /\ Owes(d)
  BY <1>2, DataTypes, DeviceInv DEF OneDebt, Owes
<1>4. /\ bridge.state = "WAIT" /\ bridge.src = Host /\ bridge.addr \in sf[d]
      /\ d2hRsp = <<>>
  BY <1>3, OneAnswer
<1>5. PICK y \in Addrs : y = bridge.addr
  BY <1>3, OneAnswer
<1>6. bridge.type \in {"SNP_DATA", "SNP_INV"} /\ d # Host
  BY <1>4, HostAsks, AgentTypes
<1>7. NoData(d)
  <2>1. ~Pulling(d) /\ ~Forwarded(d)
    BY <1>3, <1>4, <1>6 DEF Pulling, Forwarded
  <2> QED
    BY <2>1, KeptParts DEF Moving
<1>8. SameGo(d) /\ \A x : \A types : ~Granted(d, x, types)'
  BY <1>2 DEF SameGo, Granted
<1>9. \A x \in Addrs : Dirty(d, x) => x \in sf'[d]
  BY <1>1, KeptParts DEF DirtyFresh
<1>10. Ended(d)'
  BY <1>1, <1>4 DEF Ended
<1> HIDE DEF p
<1>11. CASE /\ SameLine(d, y) /\ ~writing
            /\ dcoh' = [dcoh EXCEPT ![d].state = "FAILED"] /\ UNCHANGED <<cache, up>>
  <2>1. dcoh'[d].state = "FAILED" /\ dcoh'[d].packet = dcoh[d].packet /\ dcoh[d].state # "INIT"
    BY <1>11, DataTypes DEF TypeOK, SameLine
  <2>2. Failed(d)'
    BY <2>1 DEF Failed
  <2>3. NoData(d)'
    BY <1>1, <1>7, <1>11, StillData
  <2>4. Moving(d)'
    BY <1>8, <2>3, MovingRest
  <2>5. Found(d)'
    BY <1>1, <1>4, <2>2 DEF Found
  <2>6. \A r : Pending(d, r)' => Pending(d, r)
    BY <1>1, <2>1 DEF Pending
  <2> QED
    BY <1>1, <1>7, <1>8, <1>9, <1>10, <1>11, <2>4, <2>5, <2>6, StillKept
<1>12. CASE /\ p.opcode = "SNP_INV"
            /\ up' = [up EXCEPT ![d] = Append(@, [ch |-> "rsp", opcode |-> "RSP_I_HIT_I"])]
            /\ UNCHANGED <<cache, dcoh>>
  <2>1. PICK r : r = [ch |-> "rsp", opcode |-> "RSP_I_HIT_I"]
    OBVIOUS
  <2>2. r \in D2HRsp /\ r.ch = "rsp" /\ up'[d] = Append(up[d], r)
    BY <1>12, <2>1, DataTypes DEF D2HRsp, D2HRspOpcode, TypeOK
  <2>3. Data(d)' = Data(d)
    BY <2>2, PutUpData
  <2>4. NoData(d)'
    BY <1>1, <1>7, <2>3 DEF NoData
  <2>5. Moving(d)'
    BY <1>8, <2>4, MovingRest
  <2>6. bridge.type = "SNP_INV"
    BY <1>3, <1>6, <1>12 DEF RoundSnoop, Invalidations
  <2>7. Found(d)'
    BY <1>1, <2>6 DEF Found
  <2>8. \A r2 : Pending(d, r2)' => Pending(d, r2)
    BY <1>1, <1>12 DEF Pending
  <2> QED
    BY <1>1, <1>7, <1>8, <1>9, <1>10, <1>12, <2>5, <2>7, <2>8, StillKept
<1>13. CASE AnswerSnoop(d, RoundSnoop, y) /\ UNCHANGED dcoh
  BY <1>1, <1>2, <1>3, <1>4, <1>5, <1>6, <1>7, <1>13, LookUpKept
<1> QED
  BY <1>3, <1>5, <1>11, <1>12, <1>13 DEF DcohSnoop, p

----------------------------------------------------------------------------
(* The bridge answers the device.                                          *)

LEMMA GoPut ==
  ASSUME Facts, bridge.state # "WAIT", NEW d \in Devices, Working(d), NEW p \in H2DRsp,
         down' = [down EXCEPT ![d] = Append(@, p)]
  PROVE  Go(d)' /\ down'[d][1] = p /\ ~Go(d)
<1>1. down'[d] = Append(down[d], p)
  BY DataTypes DEF TypeOK
<1>2. p.ch = "rsp" /\ p \in H2DReq \cup H2DRsp
  BY DEF H2DRsp
<1>3. down[d] = <<>> /\ ~Go(d)
  BY DataTypes, NobodyOwes, ServedDevice, Bare
<1> QED
  BY <1>1, <1>2, <1>3, DataTypes, PutGo, DeviceInv

\* The device gets a line from the host, to read or, without data, to write.
LEMMA GrantKept ==
  ASSUME OneDevice, Facts, bridge.state \in {"START", "DONE"}, NEW d \in Devices, d = bridge.src,
         NEW k \in {"SNP_DATA", "SNP_INV"}, bridge.type = D2HOpcode[k],
         NEW y \in Addrs, y = bridge.addr, Snoop(Host, k, y), NEW p \in H2DRsp,
         down' = [down EXCEPT ![d] = Append(@, p)], k = "SNP_DATA" => p.data = HostData(y),
         Enter(d), FinishBridge, UNCHANGED <<proc, request, latest, dcoh, up, d2hData, mem>>
  PROVE  Kept' /\ Refines
<1>1. /\ bridge.type = IF k = "SNP_DATA" THEN "RD_SHARED" ELSE "RD_OWN_NO_DATA"
      /\ bridge'.state = "INIT"
      /\ d # Host /\ d \in Agents /\ Host \in Agents
      /\ cache \in [Agents -> [Addrs -> CacheBlock]]
  <2>1. bridge.type = IF k = "SNP_DATA" THEN "RD_SHARED" ELSE "RD_OWN_NO_DATA"
    BY DEF D2HOpcode
  <2>2. bridge'.state = "INIT"
    BY DEF FinishBridge, BridgeIdle
  <2> QED
    BY <2>1, <2>2, AgentTypes, DataTypes
<1>2. Working(d)
  BY <1>1 DEF Working, Evicts
<1>3. Go(d)' /\ down'[d][1] = p /\ ~Go(d)
  BY <1>2, GoPut
<1>4. dcoh[d].packet.addr = y /\ dcoh[d].packet.type = k /\ dcoh[d].state # "INIT"
  <2>1. PICK t \in RequestType : t = dcoh[d].packet.type
    BY <1>2, ServedDevice, DataTypes
  <2>2. D2HOpcode[t] = D2HOpcode[k] /\ dcoh[d].packet.addr = y /\ dcoh[d].state \notin {"INIT", "START"}
    BY <1>2, <2>1, ServedDevice, DataTypes
  <2>3. t = k
    BY <2>2 DEF D2HOpcode, RequestType
  <2> QED
    BY <2>1, <2>2, <2>3
<1>5. Program' /\ Fresh' /\ Refines
  BY <1>1, SnoopCopies
<1>6. PICK b : b = IF k = "SNP_INV" \/ cache[Host][y].state = "I" THEN Invalid
                   ELSE [state |-> "S", data |-> cache[Host][y].data]
  OBVIOUS
<1>7. /\ \A x \in Addrs : cache'[d][x] = cache[d][x]
      /\ \A x \in Addrs : cache'[Host][x] = IF x = y THEN b ELSE cache[Host][x]
  BY <1>1, <1>6, SnoopRecaches, DataTypes DEF Recaches
<1>8. /\ b.state \in {"S", "I"}
      /\ b.state = "I" <=> k = "SNP_INV" \/ cache[Host][y].state = "I"
  BY <1>6 DEF Invalid
<1>9. \A x : \A types : /\ ~Granted(d, x, types)
                        /\ Granted(d, x, types)' <=> x = y /\ k \in types
  BY <1>3, <1>4 DEF Granted
<1>10. NoData(d) /\ NoData(d)'
  BY <1>1, Unmoved, StillData
<1>11. Moving(d)' /\ Ended(d)' /\ Found(d)'
  BY <1>1, <1>9, <1>10, RestKept
<1>12. \A x \in Addrs : /\ Dirty(d, x)' <=> Dirty(d, x)
                        /\ x # y /\ Holds(d, x)' => Holds(d, x)
  BY <1>7, <1>9 DEF Dirty, Holds, Live, Valid, Evicting
<1>13. DirtyFresh(d)'
  <2>1. sf'[d] = sf[d] \cup {y}
    BY DataTypes DEF Enter
  <2>2. DirtyFresh(d)
    BY KeptParts
  <2> QED
    BY <1>7, <2>1, <2>2, DirtyFrame DEF DirtyFresh
<1>14. k = "SNP_DATA" => HostData(y) = latest[y]
  <2>1. CASE Valid(Host, y)
    BY <1>1, <2>1, HostLive, KeptParts DEF HostData, Fresh
  <2>2. CASE ~Valid(Host, y) /\ k = "SNP_DATA"
    <3>1. ~Dirty(d, y)
      BY <1>4, <2>2, DeviceAsks DEF Dirty, Valid
    <3> QED
      BY <1>9, <1>10, <2>2, <3>1, MemoryCurrent DEF HostData
  <2> QED
    BY <2>1, <2>2
<1>15. GoFresh(d)'
  BY <1>3, <1>9, <1>14 DEF GoFresh
<1>16. Flushing(d)'
  <2>1. \A r \in CacheRequest : Pending(d, r)' => Pending(d, r)
    BY DEF Pending
  <2> QED
    BY <1>12, <2>1, FlushingFrame
<1>17. HostAlone(d)'
  BY <1>7, <1>8, <1>12, KeptParts DEF HostAlone
<1>18. Stored'
  <2> SUFFICES ASSUME NEW x \in Addrs, ~Valid(Host, x)', mem'[x] # latest'[x] PROVE KeptBy(d, x)'
    BY DEF Stored
  <2>1. CASE Valid(Host, x)
    <3>1. x = y /\ k = "SNP_INV"
      BY <1>7, <1>8, <2>1 DEF Valid
    <3> QED
      BY <1>9, <3>1 DEF KeptBy
  <2>2. CASE ~Valid(Host, x)
    <3>1. Dirty(d, x)
      BY <1>9, <1>10, <2>2, MemoryCurrent
    <3> QED
      BY <1>12, <3>1 DEF KeptBy
  <2> QED
    BY <2>1, <2>2
<1> QED
  BY <1>5, <1>11, <1>13, <1>15, <1>16, <1>17, <1>18, AllKept

LEMMA OwnKept ==
  ASSUME OneDevice, Facts, NEW e \in Devices, DeviceOwn
  PROVE  Kept' /\ Refines
<1>1. bridge.type = "RD_OWN_NO_DATA" /\ bridge.state \in {"START", "DONE"}
  BY DEF DeviceOwn
<1>2. PICK d \in Devices, y \in Addrs : d = bridge.src /\ y = bridge.addr
  BY <1>1, FromDevice, DataTypes DEF D2HReqOpcode
<1>3. GrantOwn(d)
  BY <1>2, Single DEF DeviceOwn
<1>4. PICK p : p = [ch |-> "rsp", opcode |-> "GO_E", data |-> InitVal]
  OBVIOUS
<1>5. p \in H2DRsp
  BY <1>4, CxlCacheAssumption DEF H2DRsp
<1>6. /\ Snoop(Host, "SNP_INV", y) /\ down' = [down EXCEPT ![d] = Append(@, p)]
      /\ Enter(d) /\ FinishBridge /\ UNCHANGED <<proc, request, latest, dcoh, up, d2hData, mem>>
  BY <1>2, <1>3, <1>4 DEF GrantOwn, InvalidateHost, channels
<1>7. bridge.type = D2HOpcode["SNP_INV"]
  BY <1>1 DEF D2HOpcode
<1> QED
  BY <1>1, <1>2, <1>5, <1>6, <1>7, GrantKept

LEMMA ReadKept ==
  ASSUME OneDevice, Facts, NEW e \in Devices, DeviceRead
  PROVE  Kept' /\ Refines
<1>1. bridge.type = "RD_SHARED" /\ bridge.state \in {"START", "DONE"}
  BY DEF DeviceRead
<1>2. PICK d \in Devices, y \in Addrs : d = bridge.src /\ y = bridge.addr
  BY <1>1, FromDevice, DataTypes DEF D2HReqOpcode
<1>3. d2hData = <<>> /\ d # Host
  BY <1>1, <1>2, AgentTypes, Unmoved DEF NoData
<1>4. Cardinality(Sharers(y, d)) = 0
  BY Single, FS_EmptySet
<1>5. GrantFromHost(d)
  BY <1>2, <1>3, <1>4 DEF DeviceRead
<1>6. PICK data : data = HostData(y)
  OBVIOUS
<1>7. PICK p : p = [ch |-> "rsp", opcode |-> "GO_S", data |-> data]
  OBVIOUS
<1>8. /\ Snoop(Host, "SNP_DATA", y) /\ down' = [down EXCEPT ![d] = Append(@, p)]
      /\ Enter(d) /\ FinishBridge /\ UNCHANGED <<proc, request, latest, dcoh, up, d2hData, mem>>
  BY <1>2, <1>5, <1>6, <1>7 DEF GrantFromHost, GrantShared
<1>9. p \in H2DRsp /\ p.data = HostData(y)
  <2>1. HostData(y) \in Values
    BY DataTypes, AgentTypes DEF HostData, CacheBlock
  <2> QED
    BY <1>6, <1>7, <2>1 DEF H2DRsp
<1>10. bridge.type = D2HOpcode["SNP_DATA"]
  BY <1>1 DEF D2HOpcode
<1> QED
  BY <1>1, <1>2, <1>8, <1>9, <1>10, GrantKept

\* The bridge answers an evict: a modified block is to be sent.
LEMMA EvictStartKept ==
  ASSUME OneDevice, Facts, NEW e \in Devices, DeviceEvict, bridge.state = "START"
  PROVE  Kept' /\ Refines
<1>1. bridge.type \in Evicts
  BY DEF DeviceEvict, Evicts
<1>2. PICK d \in Devices, y \in Addrs : d = bridge.src /\ y = bridge.addr
  BY <1>1, FromDevice, DataTypes DEF Evicts, D2HReqOpcode
<1>3. PICK p : p = [ch |-> "rsp", data |-> InitVal, opcode |->
                    IF bridge.type = "DIRTY_EVICT" THEN "GO_WRITE_PULL" ELSE "GO_I"]
  OBVIOUS
<1>4. p \in H2DRsp
  BY <1>3, CxlCacheAssumption DEF H2DRsp
<1>5. /\ down' = [down EXCEPT ![d] = Append(@, p)]
      /\ UNCHANGED <<cache, proc, request, latest, dcoh, up, d2hData, sf, mem>>
      /\ d # Host
  BY <1>2, <1>3, AgentTypes DEF DeviceEvict, controllers
<1>6. bridge'.state = "DONE" /\ bridge'.src = d /\ bridge'.addr = y /\ bridge'.type = bridge.type
  BY <1>2, DataTypes DEF DeviceEvict, TypeOK
<1>7. Working(d)
  BY <1>2 DEF Working
<1>8. Go(d)' /\ ~Go(d)
  BY <1>4, <1>5, <1>7, GoPut
<1>9. PICK k \in Writes : /\ k = dcoh[d].packet.type /\ y = dcoh[d].packet.addr
                          /\ k = "WRITE_BACK" <=> bridge.type = "DIRTY_EVICT"
                          /\ dcoh[d].state # "INIT"
  <2>1. PICK t \in RequestType : t = dcoh[d].packet.type
    BY <1>7, ServedDevice, DataTypes
  <2>2. bridge.type = D2HOpcode[t] /\ dcoh[d].packet.addr = y /\ dcoh[d].state \notin {"INIT", "START"}
    BY <1>2, <1>7, <2>1, ServedDevice, DataTypes
  <2>3. t \in Writes /\ (t = "WRITE_BACK" <=> bridge.type = "DIRTY_EVICT")
    BY <1>1, <2>2 DEF D2HOpcode, RequestType, Evicts, Writes
  <2> QED
    BY <2>1, <2>2, <2>3
<1>10. \A x : \A types : /\ ~Granted(d, x, types)
                         /\ Granted(d, x, types)' <=> x = y /\ k \in types
  BY <1>5, <1>8, <1>9 DEF Granted
<1>11. \A x \in Addrs : /\ Holds(d, x)' => Holds(d, x)
                        /\ Dirty(d, x)' <=> Dirty(d, x)
  BY <1>5, <1>10 DEF Holds, Live, Valid, Evicting, Dirty, Writes
<1>12. Program' /\ Fresh' /\ Refines
  BY <1>5, StillCopies
<1>13. DirtyFresh(d)'
  BY <1>5, KeptParts, DirtyFrame DEF DirtyFresh
<1>14. GoFresh(d)'
  BY <1>10 DEF GoFresh, Writes
<1>15. Flushing(d)'
  <2>1. \A r \in CacheRequest : Pending(d, r)' => Pending(d, r)
    BY <1>5 DEF Pending
  <2> QED
    BY <1>5, <1>11, <2>1, FlushingFrame
<1>16. HostAlone(d)'
  BY <1>5, <1>11, HostAloneFrame
<1>17. NoData(d) /\ NoData(d)'
  BY <1>5, Unmoved, StillData
<1>18. Moving(d)'
  <2>1. k = "WRITE_BACK" => Pulling(d)'
    BY <1>6, <1>9 DEF Pulling
  <2>2. OneData(d)' /\ Carried(d)'
    <3>1. d2hData' = <<>> /\ Data(d)' = {}
      BY <1>17 DEF NoData
    <3>2. Len(d2hData') <= 1 /\ DOMAIN d2hData' = {}
      BY <3>1
    <3>3. Once(up[d], "data")'
      BY <3>1 DEF Data, Of, Once
    <3> QED
      BY <3>1, <3>2, <3>3 DEF OneData, Carried
  <2> QED
    BY <1>6, <1>10, <1>17, <2>1, <2>2 DEF Moving
<1>19. Ended(d)'
  <2>1. Dirty(d, y) => k = "WRITE_BACK"
    <3>1. Pending(d, dcoh[d].packet) /\ dcoh[d].packet \in CacheRequest
      BY <1>9, DeviceAsks DEF Pending
    <3> QED
      BY <1>9, <3>1, KeptParts DEF Flushing, Writes
  <2> QED
    BY <1>6, <1>10, <1>11, <2>1 DEF Ended
<1>20. Found(d)'
  BY <1>5, <1>6 DEF Found
<1>21. Stored'
  <2> SUFFICES ASSUME NEW x \in Addrs, ~Valid(Host, x)', mem'[x] # latest'[x] PROVE KeptBy(d, x)'
    BY DEF Stored
  <2>1. ~Valid(Host, x) /\ mem[x] # latest[x]
    BY <1>5 DEF Valid
  <2>2. Dirty(d, x)
    BY <1>10, <1>17, <2>1, MemoryCurrent
  <2> QED
    BY <1>11, <2>2 DEF KeptBy
<1> QED
  BY <1>12, <1>13, <1>14, <1>15, <1>16, <1>18, <1>19, <1>20, <1>21, AllKept

\* The bridge ends an evict: what the device had modified goes to memory.
LEMMA EvictDoneKept ==
  ASSUME OneDevice, Facts, NEW e \in Devices, DeviceEvict, bridge.state = "DONE"
  PROVE  Kept' /\ Refines
<1>1. bridge.type \in Evicts
  BY DEF DeviceEvict, Evicts
<1>2. PICK d \in Devices, y \in Addrs : d = bridge.src /\ y = bridge.addr
  BY <1>1, FromDevice, DataTypes DEF Evicts, D2HReqOpcode
<1>3. /\ UNCHANGED <<cache, proc, request, latest, dcoh, up, down>>
      /\ sf' = [sf EXCEPT ![d] = @ \ {y}] /\ bridge'.state = "INIT"
      /\ \/ bridge.type = "CLEAN_EVICT_NO_DATA" /\ UNCHANGED <<d2hData, mem>>
         \/ /\ bridge.type = "DIRTY_EVICT" /\ d2hData # <<>>
            /\ mem' = [mem EXCEPT ![y] = Head(d2hData).data] /\ d2hData' = Tail(d2hData)
      /\ d # Host
  BY <1>2, AgentTypes DEF DeviceEvict, controllers, FinishBridge, BridgeIdle
<1>4. Moving(d) /\ Ended(d)
  BY KeptParts
<1>5. /\ ~Dirty(d, y) /\ (\A x \in Addrs : ~Granted(d, x, {"WRITE_BACK"})) /\ NoData(d)'
      /\ \A x \in Addrs : mem'[x] = mem[x] \/ (x = y /\ mem'[x] = latest[x])
      /\ ~NoData(d) => mem'[y] = latest[y]
  <2>1. CASE bridge.type = "CLEAN_EVICT_NO_DATA"
    <3>1. ~Pulling(d) /\ ~Forwarded(d) /\ UNCHANGED <<d2hData, mem>>
      BY <1>2, <1>3, <2>1 DEF Pulling, Forwarded
    <3>2. NoData(d) /\ \A x \in Addrs : ~Granted(d, x, {"WRITE_BACK"})
      BY <1>4, <3>1 DEF Moving
    <3>3. NoData(d)'
      BY <1>3, <3>1, <3>2, StillData
    <3>4. ~Dirty(d, y)
      BY <1>1, <1>2, <1>4, <3>2 DEF Ended
    <3> QED
      BY <3>1, <3>2, <3>3, <3>4
  <2>2. CASE bridge.type = "DIRTY_EVICT"
    <3>1. d2hData # <<>> /\ mem' = [mem EXCEPT ![y] = Head(d2hData).data] /\ d2hData' = Tail(d2hData)
      BY <1>3, <2>2
    <3>2. ~NoData(d) /\ Len(d2hData) <= 1 /\ Data(d) = {} /\ d2hData \in Seq(D2HData)
      BY <1>4, <3>1, DataTypes DEF NoData, Moving, OneData
    <3>3. 1 \in DOMAIN d2hData /\ Head(d2hData) = d2hData[1] /\ Tail(d2hData) = <<>>
      BY <3>1, <3>2, OneLong
    <3>4. Head(d2hData).data = latest[y]
      BY <1>2, <1>4, <3>3 DEF Moving, Carried
    <3>5. \A x \in Addrs : ~Granted(d, x, {"WRITE_BACK"})
      BY <1>4, <3>2 DEF Moving
    <3>6. NoData(d)'
      BY <1>3, <3>1, <3>2, <3>3 DEF NoData, Data, Of
    <3>7. ~Dirty(d, y)
      BY <1>2, <3>2, Moved
    <3>8. /\ mem'[y] = latest[y]
          /\ \A x \in Addrs : x # y => mem'[x] = mem[x]
      BY <3>1, <3>4, DataTypes
    <3> QED
      BY <3>5, <3>6, <3>7, <3>8
  <2> QED
    BY <1>1, <2>1, <2>2 DEF Evicts
<1>6. SameGo(d)
  BY <1>3, SameGoDown
<1>7. \A x : \A types : Granted(d, x, types)' <=> Granted(d, x, types)
  BY <1>6, SameGranted
<1>8. Moving(d)' /\ Ended(d)' /\ Found(d)'
  BY <1>3, <1>5, <1>7, RestKept
<1>9. \A x \in Addrs : /\ Holds(d, x)' => Holds(d, x)
                       /\ Dirty(d, x)' <=> Dirty(d, x)
  BY <1>3, <1>7 DEF Holds, Live, Valid, Evicting, Dirty
<1>10. Program' /\ Fresh' /\ Refines
  BY <1>3, StillCopies
<1>11. DirtyFresh(d)'
  <2>1. sf'[d] = sf[d] \ {y}
    BY <1>3, DataTypes
  <2>2. DirtyFresh(d)
    BY KeptParts
  <2> QED
    BY <1>3, <1>5, <2>1, <2>2, DirtyFrame DEF DirtyFresh
<1>12. GoFresh(d)'
  BY <1>3, <1>6, GoFrame DEF SameGo
<1>13. Flushing(d)'
  <2>1. \A r \in CacheRequest : Pending(d, r)' => Pending(d, r)
    BY <1>3 DEF Pending
  <2> QED
    BY <1>3, <1>9, <2>1, FlushingFrame
<1>14. HostAlone(d)'
  BY <1>3, <1>9, HostAloneFrame
<1>15. Stored'
  <2> SUFFICES ASSUME NEW x \in Addrs, ~Valid(Host, x)', mem'[x] # latest'[x] PROVE KeptBy(d, x)'
    BY DEF Stored
  <2>1. ~Valid(Host, x) /\ mem[x] # latest[x]
    BY <1>3, <1>5 DEF Valid
  <2>2. KeptBy(d, x)
    BY <2>1, Single, KeptParts DEF Stored
  <2>3. ~(bridge.addr = x /\ ~NoData(d))
    BY <1>2, <1>3, <1>5
  <2> QED
    BY <1>7, <1>9, <2>2, <2>3 DEF KeptBy
<1> QED
  BY <1>8, <1>10, <1>11, <1>12, <1>13, <1>14, <1>15, AllKept

LEMMA EvictKept ==
  ASSUME OneDevice, Facts, NEW e \in Devices, DeviceEvict
  PROVE  Kept' /\ Refines
<1>1. bridge.state \in {"START", "DONE"}
  BY DEF DeviceEvict
<1> QED
  BY <1>1, EvictStartKept, EvictDoneKept

----------------------------------------------------------------------------
(* Coherence of the data: the theorem.                                     *)

LEMMA FactsInit == OneDevice => (Init => Facts)
<1> SUFFICES ASSUME OneDevice, Init PROVE Facts
  OBVIOUS
<1>1. Inv
  BY TypeInit, PairedInit, SnoopInit DEF Inv
<1>2. PICK d \in Devices : d = 0
  BY DEF OneDevice, Devices
<1>3. \A e \in Devices : e = d
  BY Single
<1>4. /\ \A a \in Agents : proc[a] = Idle /\ request[a] = <<>>
      /\ \A a \in Agents, x \in Addrs : cache[a][x].state = "I"
      /\ \A x \in Addrs : mem[x] = latest[x]
      /\ dcoh[d].state = "INIT" /\ up[d] = <<>> /\ down[d] = <<>> /\ d2hData = <<>>
      /\ bridge.state = "INIT" /\ bridge.src = None /\ bridge.type = None
  BY DEF Init, ControllersInit, Invalid, BridgeIdle
<1>5. d \in Agents /\ Host \in Agents
  BY AgentTypes
<1>6. Program /\ Fresh
  BY <1>4, <1>5 DEF Program, Right, Fresh, Live, Valid, Idle
<1>7. Stored
  BY <1>4 DEF Stored
<1>8. \A x : \A types : ~Granted(d, x, types)
  BY <1>4 DEF Granted, Go
<1>9. DirtyFresh(d) /\ GoFresh(d) /\ HostAlone(d)
  BY <1>4, <1>5, <1>8 DEF DirtyFresh, Dirty, GoFresh, HostAlone
<1>10. Flushing(d)
  <2>1. DOMAIN request[d] = {}
    BY <1>4, <1>5
  <2> QED
    BY <1>4, <2>1 DEF Flushing, Pending
<1>11. Moving(d)
  <2>1. Data(d) = {} /\ Once(up[d], "data")
    BY <1>4, OfEmpty DEF Data
  <2>2. Len(d2hData) <= 1 /\ DOMAIN d2hData = {}
    BY <1>4
  <2> QED
    BY <1>4, <1>8, <2>1, <2>2 DEF Moving, OneData, Carried, NoData
<1>12. Ended(d) /\ Found(d)
  BY <1>4 DEF Ended, Found, Asked
<1>13. OfDev(d)
  BY <1>9, <1>10, <1>11, <1>12 DEF OfDev
<1> QED
  BY <1>1, <1>3, <1>6, <1>7, <1>13 DEF Facts, Kept

LEMMA FactsStep == Setting /\ Facts /\ [Next]_vars => Facts' /\ Refines
<1> SUFFICES ASSUME Setting, Facts, [Next]_vars PROVE Facts' /\ Refines
  OBVIOUS
<1>1. OneDevice /\ OneWriter
  BY DEF Setting
<1>2. PICK d \in Devices : d = 0
  BY <1>1 DEF OneDevice, Devices
<1>3. Inv'
  BY DataTypes, TypeStep, PairedStep, SnoopStep DEF Inv
<1>4. ASSUME NEW a \in Agents, NEW x \in Addrs, Load(a, x), UNCHANGED protocol
      PROVE  Kept' /\ Refines
  <2>1. PICK v \in Values : v = InitVal
    BY CxlCacheAssumption
  <2> QED
    BY <1>2, <1>4, <2>1, ProcessorKept
<1>5. ASSUME NEW a \in Agents, NEW x \in Addrs, NEW v \in Values, Store(a, x, v), UNCHANGED protocol
      PROVE  Kept' /\ Refines
  BY <1>5, <1>2, ProcessorKept
<1>6. ASSUME NEW e \in Devices, BridgeReceive(e)
      PROVE  Kept' /\ Refines
  BY <1>1, <1>6, ReceiveKept
<1>7. ASSUME BridgeStep PROVE Kept' /\ Refines
  <2>1. CASE BridgeTakeHost \/ BridgeTakeDevice
    BY <1>1, <1>2, <2>1, BridgeTakeKept
  <2>2. CASE BridgeResponse
    BY <1>1, <1>2, <2>2, ResponseTakenKept
  <2>3. ~HostWriteBack
    BY NoHostWriteBack
  <2>4. CASE HostFromMemory
    BY <1>1, <1>2, <2>4, HostMemoryKept
  <2>5. CASE HostSnoopDevices
    BY <1>1, <1>2, <2>5, HostSnoopKept
  <2>6. CASE HostDone
    BY <1>1, <1>2, <2>6, HostDoneKept
  <2>7. CASE DeviceOwn
    BY <1>1, <1>2, <2>7, OwnKept
  <2>8. CASE DeviceRead
    BY <1>1, <1>2, <2>8, ReadKept
  <2>9. CASE DeviceEvict
    BY <1>1, <1>2, <2>9, EvictKept
  <2> QED
    BY <1>7, <2>1, <2>2, <2>3, <2>4, <2>5, <2>6, <2>7, <2>8, <2>9 DEF BridgeStep
<1>8. ASSUME NEW e \in Devices, DcohStep(e)
      PROVE  Kept' /\ Refines
  BY <1>1, <1>8, TakeKept, SendKept, AnswerKept, SnoopAnswerKept DEF DcohStep
<1>9. ASSUME UNCHANGED vars PROVE Kept' /\ Refines
  BY <1>1, <1>2, <1>9, StutterKept
<1> QED
  BY <1>3, <1>4, <1>5, <1>6, <1>7, <1>8, <1>9 DEF Next, Facts

(* The host and a device see one memory: a copy that either may use is the *)
(* last value that was stored in its line, and no other copy is in use     *)
(* when one of them writes, however the bridge, the DCOH and their packets *)
(* interleave: an evict that crosses the host's snoop of the line, data    *)
(* that come behind the answer they belong to, a grant that a snoop        *)
(* follows.  (With one device, one writer per line, and a cache of the     *)
(* host that has room for all lines.)                                      *)
THEOREM OneMemory == Setting => (Spec => CoherentMemory)
<1> SUFFICES ASSUME Setting PROVE Spec => CoherentMemory
  OBVIOUS
<1>1. Init => Abstract!Init
  BY DEF Init, ControllersInit, Abstract!Init, Live, Valid, Invalid
<1>2. Facts /\ [Next]_vars => Facts' /\ Refines
  BY FactsStep
<1>3. Init => Facts
  BY FactsInit DEF Setting
<1>4. Refines => [Abstract!Next]_<<latest, Copies>>
  BY DEF Refines
<1> QED
  BY <1>1, <1>2, <1>3, <1>4, PTL DEF Spec, CoherentMemory, Abstract!Spec, Copies, CopyOf

=============================================================================
