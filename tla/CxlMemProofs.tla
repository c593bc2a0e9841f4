----------------------------- MODULE CxlMemProofs -----------------------------
(***************************************************************************)
(* Proofs about CxlMem, for any lines, values, ways and stores: types for  *)
(* every program, the exchange of packets for programs of which no line is *)
(* read on both sides, coherence when the device's reads are of lines the  *)
(* host does not use, and of the data when the host replaces none.         *)
(***************************************************************************)
EXTENDS CxlMem, SequenceTheorems, FiniteSetTheorems, TLAPS

USE CxlMemAssumption

----------------------------------------------------------------------------
Snoops == {"SNP_DATA", "SNP_INV"}
Writes == {"WRITE_BACK", "WRITE_BACK_CLEAN"}
Down   == {"req", "rwd", "birsp"}
Up     == {"ndr", "drs", "bisnp"}
M2S    == M2SReq \cup M2SRwD \cup M2SBIRsp
S2M    == S2MNDR \cup S2MDRS \cup S2MBISnp

----------------------------------------------------------------------------
(* The links m and s and the queues q: what is pending, in what order.     *)

Carried(m, s, q) ==
  /\ m \in Seq(M2S) /\ s \in Seq(S2M)
  /\ DOMAIN q = DOMAIN Channel
  /\ \A ch \in DOMAIN Channel : q[ch] \in Seq(Channel[ch])

Packets(link, ch) == {link[i] : i \in Sent(link, ch)}
Queued(q, ch)     == {q[ch][i] : i \in DOMAIN q[ch]}
On(m, s, q, ch)   == Packets(m, ch) \cup Packets(s, ch) \cup Queued(q, ch)

Lacks(link, ch)      == Sent(link, ch) = {}
AtMostOne(link, ch)  == \A i, j \in Sent(link, ch) : i = j
Before(link, ch, dh) == \A i \in Sent(link, ch), j \in Sent(link, dh) : i < j

\* A channel holds one packet; a request is not before a response to a
\* back-invalidate snoop, and data not before their completion.
Orderly(m, s, q) ==
  /\ \A ch \in DOMAIN Channel :
       /\ AtMostOne(m, ch) /\ AtMostOne(s, ch) /\ Len(q[ch]) <= 1
       /\ q[ch] # <<>> => Lacks(m, ch) /\ Lacks(s, ch)
  /\ Before(m, "birsp", "req") /\ (q["req"] # <<>> => Lacks(m, "birsp"))
  /\ Before(s, "ndr", "drs") /\ (q["drs"] # <<>> => Lacks(s, "ndr"))

\* From links m, s and queues q to n, t and r only the packets of channel ch
\* change, to S; or none change.
Shifts(m, s, q, n, t, r, ch, S) ==
  \A dh \in DOMAIN Channel : On(n, t, r, dh) = IF dh = ch THEN S ELSE On(m, s, q, dh)
\* The packet of channel ch is in its queue.
InFront(m, s, q, ch) == On(m, s, q, ch) = {Head(q[ch])} /\ Head(q[ch]) \in Channel[ch]
Stays(m, s, q, n, t, r) == \A dh \in DOMAIN Channel : On(n, t, r, dh) = On(m, s, q, dh)


----------------------------------------------------------------------------
(* The packets of a channel after one is sent, received or taken.          *)

LEMMA ChannelNames == DOMAIN Channel = Down \cup Up
BY DEF Channel, Down, Up

LEMMA ChannelOf ==
  /\ \A p \in M2S : p.ch \in Down /\ p \in Channel[p.ch]
  /\ \A p \in S2M : p.ch \in Up /\ p \in Channel[p.ch]
  /\ \A ch \in Down : Channel[ch] \subseteq M2S /\ (\A p \in Channel[ch] : p.ch = ch)
  /\ \A ch \in Up : Channel[ch] \subseteq S2M /\ (\A p \in Channel[ch] : p.ch = ch)
<1>1. /\ Channel["req"] = M2SReq /\ Channel["rwd"] = M2SRwD /\ Channel["birsp"] = M2SBIRsp
      /\ Channel["ndr"] = S2MNDR /\ Channel["drs"] = S2MDRS /\ Channel["bisnp"] = S2MBISnp
  BY DEF Channel
<1>2. /\ \A p \in M2SReq : p.ch = "req"
      /\ \A p \in M2SRwD : p.ch = "rwd"
      /\ \A p \in M2SBIRsp : p.ch = "birsp"
      /\ \A p \in S2MNDR : p.ch = "ndr"
      /\ \A p \in S2MDRS : p.ch = "drs"
      /\ \A p \in S2MBISnp : p.ch = "bisnp"
  BY DEF M2SReq, M2SRwD, M2SBIRsp, S2MNDR, S2MDRS, S2MBISnp
<1> QED
  BY <1>1, <1>2 DEF M2S, S2M, Down, Up

\* r is the link l after p was sent.
Sends(l, p, r) ==
  /\ Lacks(l, p.ch) => AtMostOne(r, p.ch) /\ (\A e : e \in Packets(r, p.ch) <=> e = p)
  /\ \A ch : p.ch # ch =>
       /\ Lacks(l, ch) => Lacks(r, ch)
       /\ AtMostOne(l, ch) => AtMostOne(r, ch)
       /\ Packets(r, ch) = Packets(l, ch)
  /\ \A ch, dh : Before(l, ch, dh) /\ ch # dh /\ (p.ch = ch => Lacks(l, dh))
       => Before(r, ch, dh)

\* The link l has h in front and t behind it.
Receives(l, h, t) ==
  /\ AtMostOne(l, h.ch) => /\ Lacks(t, h.ch) /\ AtMostOne(t, h.ch)
                           /\ \A e : e \in Packets(l, h.ch) <=> e = h
  /\ ~Lacks(l, h.ch)
  /\ \A ch : h.ch # ch =>
       /\ Lacks(l, ch) => Lacks(t, ch)
       /\ AtMostOne(l, ch) => AtMostOne(t, ch)
       /\ Packets(t, ch) = Packets(l, ch)
  /\ \A ch, dh : Before(l, ch, dh) => Before(t, ch, dh)
  /\ \A ch, dh : Before(l, ch, dh) /\ h.ch = dh => Lacks(l, ch)

LEMMA LinkAppend ==
  ASSUME NEW S, NEW l \in Seq(S), NEW p \in S
  PROVE  Append(l, p) \in Seq(S) /\ Sends(l, p, Append(l, p))
<1> DEFINE r == Append(l, p)
<1>1. /\ DOMAIN r = DOMAIN l \cup {Len(l) + 1} /\ Len(l) + 1 \notin DOMAIN l
      /\ \A i \in DOMAIN l : r[i] = l[i] /\ i < Len(l) + 1
      /\ r[Len(l) + 1] = p /\ Len(l) \in Nat
  OBVIOUS
<1>2. r \in Seq(S)
  OBVIOUS
<1> HIDE DEF r
<1> DEFINE k == Len(l) + 1
<1>3. \A ch : /\ p.ch = ch => Sent(r, ch) = Sent(l, ch) \cup {k}
              /\ p.ch # ch => Sent(r, ch) = Sent(l, ch)
  BY <1>1 DEF Sent
<1>4. \A ch : \A i \in Sent(l, ch) : r[i] = l[i] /\ i < k
  BY <1>1 DEF Sent
<1>5. r[k] = p
  BY <1>1
<1> HIDE DEF k
<1>6. Lacks(l, p.ch) => AtMostOne(r, p.ch) /\ (\A e : e \in Packets(r, p.ch) <=> e = p)
  BY <1>3, <1>5 DEF Lacks, AtMostOne, Packets
<1>7. \A ch : p.ch # ch =>
        /\ Lacks(l, ch) => Lacks(r, ch)
        /\ AtMostOne(l, ch) => AtMostOne(r, ch)
        /\ Packets(r, ch) = Packets(l, ch)
  BY <1>3, <1>4 DEF Lacks, AtMostOne, Packets
<1>8. ASSUME NEW ch, NEW dh, Before(l, ch, dh), ch # dh, p.ch = ch => Lacks(l, dh)
      PROVE  Before(r, ch, dh)
  BY <1>3, <1>4, <1>8 DEF Before, Lacks
<1> QED
  BY <1>2, <1>6, <1>7, <1>8 DEF r, Sends

LEMMA LinkTail ==
  ASSUME NEW S, NEW l \in Seq(S), l # <<>>
  PROVE  Tail(l) \in Seq(S) /\ Head(l) \in S /\ Receives(l, Head(l), Tail(l))
<1> DEFINE h == Head(l)
           t == Tail(l)
<1>1. /\ DOMAIN l = 1 .. Len(l) /\ Len(l) \in Nat /\ Len(l) >= 1 /\ DOMAIN t = 1 .. Len(l) - 1
      /\ \A i \in DOMAIN t : t[i] = l[i + 1] /\ i + 1 \in DOMAIN l
      /\ h = l[1] /\ 1 \in DOMAIN l /\ h \in S
      /\ \A i \in DOMAIN l : i # 1 => i - 1 \in DOMAIN t /\ t[i - 1] = l[i]
      /\ t \in Seq(S)
  OBVIOUS
<1> HIDE DEF h, t
<1>2. /\ \A i \in DOMAIN l : i \in Nat /\ i >= 1
      /\ \A i \in DOMAIN t : i \in Nat /\ i >= 1
  BY <1>1
<1>3. \A ch : \A i \in Sent(t, ch) : i + 1 \in Sent(l, ch) /\ t[i] = l[i + 1] /\ i \in Nat /\ i >= 1
  BY <1>1, <1>2 DEF Sent
<1>4. \A ch : \A i \in Sent(l, ch) :
        /\ i \in Nat /\ i >= 1
        /\ i # 1 => i - 1 \in Sent(t, ch) /\ t[i - 1] = l[i]
  BY <1>1, <1>2 DEF Sent
<1>5. \A ch : 1 \in Sent(l, ch) <=> h.ch = ch
  BY <1>1 DEF Sent
<1>6. h = l[1] /\ h \in S /\ t \in Seq(S)
  BY <1>1
<1>7. ASSUME AtMostOne(l, h.ch)
      PROVE  Lacks(t, h.ch) /\ (\A e : e \in Packets(l, h.ch) <=> e = h) /\ AtMostOne(t, h.ch)
  <2>1. \A i \in Sent(l, h.ch) : i = 1
    BY <1>5, <1>7 DEF AtMostOne
  <2>2. Lacks(t, h.ch)
    BY <1>3, <2>1 DEF Lacks
  <2>3. Sent(l, h.ch) = {1}
    BY <1>5, <2>1
  <2> QED
    BY <1>6, <2>2, <2>3 DEF Packets, AtMostOne, Lacks
<1>8. ASSUME NEW ch, h.ch # ch
      PROVE  /\ Lacks(l, ch) => Lacks(t, ch)
             /\ AtMostOne(l, ch) => AtMostOne(t, ch)
             /\ Packets(t, ch) = Packets(l, ch)
  <2>1. \A i \in Sent(l, ch) : i # 1
    BY <1>5, <1>8
  <2>2. Lacks(l, ch) => Lacks(t, ch)
    BY <1>3 DEF Lacks
  <2>3. ASSUME AtMostOne(l, ch), NEW i \in Sent(t, ch), NEW j \in Sent(t, ch) PROVE i = j
    <3>1. i + 1 = j + 1
      BY <1>3, <2>3 DEF AtMostOne
    <3> QED
      BY <1>3, <3>1
  <2>4. \A i \in Sent(t, ch) : t[i] \in Packets(l, ch)
    BY <1>3 DEF Packets
  <2>5. \A i \in Sent(l, ch) : l[i] \in Packets(t, ch)
    BY <1>4, <2>1 DEF Packets
  <2>6. Packets(t, ch) = Packets(l, ch)
    BY <2>4, <2>5 DEF Packets
  <2> QED
    BY <2>2, <2>3, <2>6 DEF AtMostOne
<1>9. ASSUME NEW ch, NEW dh, Before(l, ch, dh)
      PROVE  Before(t, ch, dh)
  <2> SUFFICES ASSUME NEW i \in Sent(t, ch), NEW j \in Sent(t, dh) PROVE i < j
    BY DEF Before
  <2>1. i + 1 < j + 1
    BY <1>3, <1>9 DEF Before
  <2> QED
    BY <1>3, <2>1
<1>11. ~Lacks(l, h.ch)
  BY <1>5 DEF Lacks
<1>10. ASSUME NEW ch, NEW dh, Before(l, ch, dh), h.ch = dh
       PROVE  Lacks(l, ch)
  <2> SUFFICES ASSUME NEW i \in Sent(l, ch) PROVE FALSE
    BY DEF Lacks
  <2>1. i < 1
    BY <1>5, <1>10 DEF Before
  <2> QED
    BY <1>4, <2>1
<1> QED
  BY <1>6, <1>7, <1>8, <1>9, <1>10, <1>11 DEF h, t, Receives

LEMMA SentTyped ==
  ASSUME NEW m, NEW s, NEW q, Carried(m, s, q)
  PROVE  /\ \A ch \in Up : Lacks(m, ch)
         /\ \A ch \in Down : Lacks(s, ch)
<1>1. \A i \in DOMAIN m : m[i] \in M2S
  BY DEF Carried
<1>2. \A i \in DOMAIN s : s[i] \in S2M
  BY DEF Carried
<1> QED
  BY <1>1, <1>2, ChannelOf DEF Lacks, Sent, Up, Down

LEMMA NoIndex == ASSUME NEW S, NEW l \in Seq(S), DOMAIN l = {} PROVE l = <<>>
<1>1. l # <<>> => 1 \in DOMAIN l
  OBVIOUS
<1> QED
  BY <1>1

LEMMA NonePending ==
  ASSUME NEW m, NEW s, NEW q, Carried(m, s, q), NEW ch \in DOMAIN Channel, On(m, s, q, ch) = {}
  PROVE  Lacks(m, ch) /\ Lacks(s, ch) /\ q[ch] = <<>>
<1>1. Packets(m, ch) = {} /\ Packets(s, ch) = {} /\ DOMAIN q[ch] = {}
  BY DEF On, Queued
<1>2. q[ch] \in Seq(Channel[ch])
  BY DEF Carried
<1>3. /\ \A i \in Sent(m, ch) : m[i] \in Packets(m, ch)
      /\ \A i \in Sent(s, ch) : s[i] \in Packets(s, ch)
  BY DEF Packets
<1>4. q[ch] = <<>>
  BY <1>1, <1>2, NoIndex
<1> QED
  BY <1>1, <1>3, <1>4 DEF Lacks

\* A packet sent to the device, when none of its channel is under way.
LEMMA SendDown ==
  ASSUME NEW m, NEW s, NEW q, Carried(m, s, q), Orderly(m, s, q), NEW p \in M2S,
         On(m, s, q, p.ch) = {}, p.ch = "birsp" => On(m, s, q, "req") = {},
         NEW n, n = Append(m, p)
  PROVE  Carried(n, s, q) /\ Orderly(n, s, q) /\ Shifts(m, s, q, n, s, q, p.ch, {p})
<1>1. m \in Seq(M2S) /\ n \in Seq(M2S)
  BY DEF Carried
<1>2. p.ch \in Down /\ p.ch \in DOMAIN Channel /\ "req" \in DOMAIN Channel
  BY ChannelOf, ChannelNames DEF Down
<1>3. /\ Lacks(m, p.ch) /\ Lacks(s, p.ch) /\ q[p.ch] = <<>>
      /\ p.ch = "birsp" => Lacks(m, "req") /\ q["req"] = <<>>
  BY <1>2, NonePending
<1>4. Sends(m, p, n)
  BY <1>1, LinkAppend
<1>5. Carried(n, s, q)
  BY <1>1 DEF Carried
<1>6. \A ch \in DOMAIN Channel : On(n, s, q, ch) = IF ch = p.ch THEN {p} ELSE On(m, s, q, ch)
  <2> TAKE ch \in DOMAIN Channel
  <2>1. CASE ch = p.ch
    <3>1. Packets(s, ch) = {} /\ Queued(q, ch) = {}
      BY <1>3, <2>1 DEF Packets, Lacks, Queued
    <3> QED
      BY <1>3, <1>4, <2>1, <3>1 DEF On, Sends
  <2>2. CASE ch # p.ch
    BY <1>4, <2>2 DEF On, Sends
  <2> QED
    BY <2>1, <2>2
<1>7. Orderly(n, s, q)
  <2>1. ASSUME NEW ch \in DOMAIN Channel
        PROVE  /\ AtMostOne(n, ch) /\ AtMostOne(s, ch) /\ Len(q[ch]) <= 1
               /\ q[ch] # <<>> => Lacks(n, ch) /\ Lacks(s, ch)
    BY <1>3, <1>4 DEF Orderly, Sends
  <2>2. Before(n, "birsp", "req") /\ (q["req"] # <<>> => Lacks(n, "birsp"))
    BY <1>3, <1>4 DEF Orderly, Sends
  <2>3. Before(s, "ndr", "drs") /\ (q["drs"] # <<>> => Lacks(s, "ndr"))
    BY DEF Orderly
  <2> QED
    BY <2>1, <2>2, <2>3 DEF Orderly
<1> QED
  BY <1>5, <1>6, <1>7 DEF Shifts

\* The same of a packet sent to the host.
LEMMA SendUp ==
  ASSUME NEW m, NEW s, NEW q, Carried(m, s, q), Orderly(m, s, q), NEW p \in S2M,
         On(m, s, q, p.ch) = {}, p.ch = "ndr" => On(m, s, q, "drs") = {},
         NEW n, n = Append(s, p)
  PROVE  Carried(m, n, q) /\ Orderly(m, n, q) /\ Shifts(m, s, q, m, n, q, p.ch, {p})
<1>1. s \in Seq(S2M) /\ n \in Seq(S2M)
  BY DEF Carried
<1>2. p.ch \in Up /\ p.ch \in DOMAIN Channel /\ "drs" \in DOMAIN Channel
  BY ChannelOf, ChannelNames DEF Up
<1>3. /\ Lacks(m, p.ch) /\ Lacks(s, p.ch) /\ q[p.ch] = <<>>
      /\ p.ch = "ndr" => Lacks(s, "drs") /\ q["drs"] = <<>>
  BY <1>2, NonePending
<1>4. Sends(s, p, n)
  BY <1>1, LinkAppend
<1>5. Carried(m, n, q)
  BY <1>1 DEF Carried
<1>6. \A ch \in DOMAIN Channel : On(m, n, q, ch) = IF ch = p.ch THEN {p} ELSE On(m, s, q, ch)
  <2> TAKE ch \in DOMAIN Channel
  <2>1. CASE ch = p.ch
    <3>1. Packets(m, ch) = {} /\ Queued(q, ch) = {}
      BY <1>3, <2>1 DEF Packets, Lacks, Queued
    <3> QED
      BY <1>3, <1>4, <2>1, <3>1 DEF On, Sends
  <2>2. CASE ch # p.ch
    BY <1>4, <2>2 DEF On, Sends
  <2> QED
    BY <2>1, <2>2
<1>7. Orderly(m, n, q)
  <2>1. ASSUME NEW ch \in DOMAIN Channel
        PROVE  /\ AtMostOne(m, ch) /\ AtMostOne(n, ch) /\ Len(q[ch]) <= 1
               /\ q[ch] # <<>> => Lacks(m, ch) /\ Lacks(n, ch)
    BY <1>3, <1>4 DEF Orderly, Sends
  <2>2. Before(n, "ndr", "drs") /\ (q["drs"] # <<>> => Lacks(n, "ndr"))
    BY <1>3, <1>4 DEF Orderly, Sends
  <2>3. Before(m, "birsp", "req") /\ (q["req"] # <<>> => Lacks(m, "birsp"))
    BY DEF Orderly
  <2> QED
    BY <2>1, <2>2, <2>3 DEF Orderly
<1> QED
  BY <1>5, <1>6, <1>7 DEF Shifts

LEMMA Single ==
  ASSUME NEW S, NEW l \in Seq(S), Len(l) <= 1, l # <<>>
  PROVE  /\ Tail(l) = <<>> /\ <<>> \in Seq(S) /\ Head(l) \in S
         /\ {l[i] : i \in DOMAIN l} = {Head(l)}
<1>1. Len(l) = 1
  <2>1. Len(l) \in Nat \ {0}
    BY EmptySeq
  <2>2. \A n \in Nat \ {0} : n <= 1 => n = 1
    OBVIOUS
  <2> QED
    BY <2>1, <2>2
<1>2. DOMAIN l = {1} /\ Head(l) = l[1] /\ Head(l) \in S
  BY <1>1
<1>3. Tail(l) = <<>>
  <2>1. Tail(l) \in Seq(S) /\ Len(Tail(l)) = 0
    BY <1>1, HeadTailProperties
  <2>2. Tail(l) # <<>> => Len(Tail(l)) \in Nat \ {0}
    BY <2>1, EmptySeq
  <2> QED
    BY <2>1, <2>2
<1> QED
  BY <1>2, <1>3

LEMMA Unit ==
  ASSUME NEW S, NEW h \in S
  PROVE  <<h>> \in Seq(S) /\ Len(<<h>>) = 1 /\ DOMAIN <<h>> = {1} /\ <<h>>[1] = h
OBVIOUS

\* The receiver of a queue takes its packet.
LEMMA Take ==
  ASSUME NEW m, NEW s, NEW q, Carried(m, s, q), Orderly(m, s, q), NEW ch \in DOMAIN Channel,
         q[ch] # <<>>, NEW r, r = [q EXCEPT ![ch] = Tail(@)]
  PROVE  /\ Carried(m, s, r) /\ Orderly(m, s, r)
         /\ InFront(m, s, q, ch)
         /\ Shifts(m, s, q, m, s, r, ch, {}) /\ r[ch] = <<>>
<1>1. q[ch] \in Seq(Channel[ch]) /\ Len(q[ch]) <= 1
  BY DEF Carried, Orderly
<1>2. /\ Tail(q[ch]) = <<>> /\ <<>> \in Seq(Channel[ch]) /\ Head(q[ch]) \in Channel[ch]
      /\ Queued(q, ch) = {Head(q[ch])}
  BY <1>1, Single DEF Queued
<1>3. /\ DOMAIN r = DOMAIN Channel /\ r[ch] = <<>>
      /\ \A dh \in DOMAIN Channel : dh # ch => r[dh] = q[dh]
  BY <1>2 DEF Carried
<1>4. Lacks(m, ch) /\ Lacks(s, ch)
  BY DEF Orderly
<1>5. On(m, s, q, ch) = {Head(q[ch])}
  <2>1. Packets(m, ch) = {} /\ Packets(s, ch) = {}
    BY <1>4 DEF Packets, Lacks, Queued
  <2> QED
    BY <1>2, <2>1 DEF On
<1>6. \A dh \in DOMAIN Channel : On(m, s, r, dh) = IF dh = ch THEN {} ELSE On(m, s, q, dh)
  <2> TAKE dh \in DOMAIN Channel
  <2>1. CASE dh = ch
    <3>1. Packets(m, ch) = {} /\ Packets(s, ch) = {}
      BY <1>4 DEF Packets, Lacks, Queued
    <3>2. Queued(r, ch) = {}
      BY <1>3 DEF Queued
    <3> QED
      BY <2>1, <3>1, <3>2 DEF On
  <2>2. CASE dh # ch
    BY <1>3, <2>2 DEF On, Queued
  <2> QED
    BY <2>1, <2>2
<1>7. Carried(m, s, r)
  BY <1>1, <1>2, <1>3 DEF Carried
<1>8. Orderly(m, s, r)
  <2>1. ASSUME NEW dh \in DOMAIN Channel
        PROVE  Len(r[dh]) <= 1 /\ (r[dh] # <<>> => q[dh] # <<>>)
    <3>1. CASE dh = ch
      <4>1. r[dh] = <<>> /\ Len(<<>>) = 0
        BY <1>3, <3>1
      <4>2. Len(r[dh]) = 0
        BY <4>1
      <4>3. \A n : n = 0 => n <= 1
        OBVIOUS
      <4> QED
        BY <4>1, <4>2, <4>3
    <3>2. CASE dh # ch
      BY <1>3, <3>2 DEF Orderly
    <3> QED
      BY <3>1, <3>2
  <2> QED
    BY <2>1, ChannelNames DEF Orderly, Up, Down
<1> QED
  BY <1>2, <1>3, <1>5, <1>6, <1>7, <1>8 DEF Shifts, InFront

\* The queues r are q with h put in the queue of its channel.
Enqueued(q, h, r) ==
  /\ DOMAIN r = DOMAIN Channel
  /\ \A ch \in DOMAIN Channel : r[ch] \in Seq(Channel[ch]) /\ Len(r[ch]) <= 1
  /\ \A ch \in DOMAIN Channel : ch # h.ch => r[ch] = q[ch]
  /\ Queued(r, h.ch) = {h}

LEMMA Enqueue ==
  ASSUME NEW m, NEW s, NEW q, Carried(m, s, q), Orderly(m, s, q),
         NEW h, h.ch \in DOMAIN Channel, h \in Channel[h.ch],
         NEW r, r = [q EXCEPT ![h.ch] = Append(@, h)], q[h.ch] = <<>>
  PROVE  Enqueued(q, h, r)
<1>1. DOMAIN q = DOMAIN Channel /\ DOMAIN r = DOMAIN Channel /\ r[h.ch] = <<h>>
  BY DEF Carried
<1>2. \A ch \in DOMAIN Channel : ch # h.ch => r[ch] = q[ch]
  BY <1>1
<1>3. <<h>> \in Seq(Channel[h.ch]) /\ Len(<<h>>) = 1 /\ DOMAIN <<h>> = {1} /\ <<h>>[1] = h
  BY Unit
<1>4. Queued(r, h.ch) = {h}
  BY <1>1, <1>3 DEF Queued
<1>5. \A ch \in DOMAIN Channel : r[ch] \in Seq(Channel[ch]) /\ Len(r[ch]) <= 1
  <2> TAKE ch \in DOMAIN Channel
  <2>1. CASE ch = h.ch
    <3>1. r[ch] = <<h>> /\ \A n : n = 1 => n <= 1
      BY <1>1, <2>1
    <3> QED
      BY <1>3, <2>1, <3>1
  <2>2. CASE ch # h.ch
    BY <1>2, <2>2 DEF Carried, Orderly
  <2> QED
    BY <2>1, <2>2
<1> QED
  BY <1>1, <1>2, <1>4, <1>5 DEF Enqueued

\* The first packet of a link enters the queue of its channel.
LEMMA ReceiveDown ==
  ASSUME NEW m, NEW s, NEW q, Carried(m, s, q), Orderly(m, s, q), m # <<>>,
         NEW n, n = Tail(m), NEW r, r = [q EXCEPT ![Head(m).ch] = Append(@, Head(m))]
  PROVE  Carried(n, s, r) /\ Orderly(n, s, r) /\ Stays(m, s, q, n, s, r)
<1> DEFINE h == Head(m)
<1>1. m \in Seq(M2S) /\ n \in Seq(M2S) /\ h \in M2S /\ Receives(m, h, n)
  BY LinkTail DEF Carried
<1>2. h.ch \in DOMAIN Channel /\ h \in Channel[h.ch] /\ h.ch \in Down
  BY <1>1, ChannelOf, ChannelNames
<1>3. r = [q EXCEPT ![h.ch] = Append(@, h)]
  OBVIOUS
<1> HIDE DEF h
<1>4. Lacks(s, h.ch)
  BY <1>2, SentTyped
<1>5. AtMostOne(m, h.ch) /\ ~Lacks(m, h.ch) /\ q[h.ch] = <<>>
  BY <1>1, <1>2 DEF Receives, Orderly
<1>6. /\ DOMAIN r = DOMAIN Channel
      /\ \A ch \in DOMAIN Channel : r[ch] \in Seq(Channel[ch]) /\ Len(r[ch]) <= 1
      /\ \A ch \in DOMAIN Channel : ch # h.ch => r[ch] = q[ch]
      /\ Queued(r, h.ch) = {h}
  <2>1. Enqueued(q, h, r)
    BY <1>2, <1>3, <1>5, Enqueue
  <2> QED
    BY <2>1 DEF Enqueued
<1>7. Carried(n, s, r)
  BY <1>1, <1>6 DEF Carried
<1>8. \A ch \in DOMAIN Channel : On(n, s, r, ch) = On(m, s, q, ch)
  <2> TAKE ch \in DOMAIN Channel
  <2>1. CASE ch = h.ch
    <3>1. Packets(s, ch) = {} /\ Packets(n, ch) = {} /\ Queued(q, ch) = {}
      BY <1>1, <1>4, <1>5, <2>1 DEF Packets, Lacks, Queued, Receives
    <3>2. Packets(m, ch) = {h}
      BY <1>1, <1>5, <2>1 DEF Receives
    <3>3. Queued(r, ch) = {h}
      BY <1>6, <2>1
    <3>4. On(m, s, q, ch) = {h}
      BY <3>1, <3>2 DEF On
    <3>5. On(n, s, r, ch) = {h}
      BY <3>1, <3>3 DEF On
    <3> QED
      BY <3>4, <3>5
  <2>2. CASE ch # h.ch
    BY <1>1, <1>6, <2>2 DEF On, Queued, Receives
  <2> QED
    BY <2>1, <2>2
<1>9. Orderly(n, s, r)
  <2>1. ASSUME NEW ch \in DOMAIN Channel
        PROVE  /\ AtMostOne(n, ch) /\ AtMostOne(s, ch) /\ Len(r[ch]) <= 1
               /\ r[ch] # <<>> => Lacks(n, ch) /\ Lacks(s, ch)
    <3>1. CASE ch = h.ch
      BY <1>1, <1>4, <1>5, <1>6, <3>1 DEF Orderly, Receives
    <3>2. CASE ch # h.ch
      BY <1>1, <1>6, <3>2 DEF Orderly, Receives
    <3> QED
      BY <3>1, <3>2
  <2>2. Before(n, "birsp", "req") /\ (r["req"] # <<>> => Lacks(n, "birsp"))
    <3>1. Before(m, "birsp", "req") /\ (q["req"] # <<>> => Lacks(m, "birsp"))
      BY DEF Orderly
    <3>2. Before(n, "birsp", "req")
      BY <1>1, <3>1 DEF Receives
    <3>3. CASE h.ch = "req"
      <4>1. Lacks(m, "birsp")
        BY <1>1, <3>1, <3>3 DEF Receives
      <4> QED
        BY <1>1, <3>2, <3>3, <4>1 DEF Receives
    <3>4. CASE h.ch # "req"
      <4>1. r["req"] = q["req"]
        BY <1>6, <3>4, ChannelNames DEF Down
      <4> QED
        BY <1>1, <1>5, <3>1, <3>2, <4>1 DEF Receives
    <3> QED
      BY <3>3, <3>4
  <2>3. Before(s, "ndr", "drs") /\ (r["drs"] # <<>> => Lacks(s, "ndr"))
    <3>1. r["drs"] = q["drs"]
      BY <1>2, <1>6, ChannelNames DEF Up, Down
    <3> QED
      BY <3>1 DEF Orderly
  <2> QED
    BY <2>1, <2>2, <2>3 DEF Orderly
<1> QED
  BY <1>7, <1>8, <1>9 DEF Stays

LEMMA ReceiveUp ==
  ASSUME NEW m, NEW s, NEW q, Carried(m, s, q), Orderly(m, s, q), s # <<>>,
         NEW n, n = Tail(s), NEW r, r = [q EXCEPT ![Head(s).ch] = Append(@, Head(s))]
  PROVE  Carried(m, n, r) /\ Orderly(m, n, r) /\ Stays(m, s, q, m, n, r)
<1> DEFINE h == Head(s)
<1>1. s \in Seq(S2M) /\ n \in Seq(S2M) /\ h \in S2M /\ Receives(s, h, n)
  BY LinkTail DEF Carried
<1>2. h.ch \in DOMAIN Channel /\ h \in Channel[h.ch] /\ h.ch \in Up
  BY <1>1, ChannelOf, ChannelNames
<1>3. r = [q EXCEPT ![h.ch] = Append(@, h)]
  OBVIOUS
<1> HIDE DEF h
<1>4. Lacks(m, h.ch)
  BY <1>2, SentTyped
<1>5. AtMostOne(s, h.ch) /\ ~Lacks(s, h.ch) /\ q[h.ch] = <<>>
  BY <1>1, <1>2 DEF Receives, Orderly
<1>6. /\ DOMAIN r = DOMAIN Channel
      /\ \A ch \in DOMAIN Channel : r[ch] \in Seq(Channel[ch]) /\ Len(r[ch]) <= 1
      /\ \A ch \in DOMAIN Channel : ch # h.ch => r[ch] = q[ch]
      /\ Queued(r, h.ch) = {h}
  <2>1. Enqueued(q, h, r)
    BY <1>2, <1>3, <1>5, Enqueue
  <2> QED
    BY <2>1 DEF Enqueued
<1>7. Carried(m, n, r)
  BY <1>1, <1>6 DEF Carried
<1>8. \A ch \in DOMAIN Channel : On(m, n, r, ch) = On(m, s, q, ch)
  <2> TAKE ch \in DOMAIN Channel
  <2>1. CASE ch = h.ch
    <3>1. Packets(m, ch) = {} /\ Packets(n, ch) = {} /\ Queued(q, ch) = {}
      BY <1>1, <1>4, <1>5, <2>1 DEF Packets, Lacks, Queued, Receives
    <3>2. Packets(s, ch) = {h}
      BY <1>1, <1>5, <2>1 DEF Receives
    <3>3. Queued(r, ch) = {h}
      BY <1>6, <2>1
    <3>4. On(m, s, q, ch) = {h}
      BY <3>1, <3>2 DEF On
    <3>5. On(m, n, r, ch) = {h}
      BY <3>1, <3>3 DEF On
    <3> QED
      BY <3>4, <3>5
  <2>2. CASE ch # h.ch
    BY <1>1, <1>6, <2>2 DEF On, Queued, Receives
  <2> QED
    BY <2>1, <2>2
<1>9. Orderly(m, n, r)
  <2>1. ASSUME NEW ch \in DOMAIN Channel
        PROVE  /\ AtMostOne(m, ch) /\ AtMostOne(n, ch) /\ Len(r[ch]) <= 1
               /\ r[ch] # <<>> => Lacks(m, ch) /\ Lacks(n, ch)
    <3>1. CASE ch = h.ch
      BY <1>1, <1>4, <1>5, <1>6, <3>1 DEF Orderly, Receives
    <3>2. CASE ch # h.ch
      BY <1>1, <1>6, <3>2 DEF Orderly, Receives
    <3> QED
      BY <3>1, <3>2
  <2>2. Before(n, "ndr", "drs") /\ (r["drs"] # <<>> => Lacks(n, "ndr"))
    <3>1. Before(s, "ndr", "drs") /\ (q["drs"] # <<>> => Lacks(s, "ndr"))
      BY DEF Orderly
    <3>2. Before(n, "ndr", "drs")
      BY <1>1, <3>1 DEF Receives
    <3>3. CASE h.ch = "drs"
      <4>1. Lacks(s, "ndr")
        BY <1>1, <3>1, <3>3 DEF Receives
      <4> QED
        BY <1>1, <3>2, <3>3, <4>1 DEF Receives
    <3>4. CASE h.ch # "drs"
      <4>1. r["drs"] = q["drs"]
        BY <1>6, <3>4, ChannelNames DEF Up
      <4> QED
        BY <1>1, <1>5, <3>1, <3>2, <4>1 DEF Receives
    <3> QED
      BY <3>3, <3>4
  <2>3. Before(m, "birsp", "req") /\ (r["req"] # <<>> => Lacks(m, "birsp"))
    <3>1. r["req"] = q["req"]
      BY <1>2, <1>6, ChannelNames DEF Up, Down
    <3> QED
      BY <3>1 DEF Orderly
  <2> QED
    BY <2>1, <2>2, <2>3 DEF Orderly
<1> QED
  BY <1>7, <1>8, <1>9 DEF Stays

----------------------------------------------------------------------------
(* Types: what the operations of a controller keep.                        *)

LEMMA ConstantTypes ==
  /\ Invalid \in CacheBlock
  /\ Idle \notin Busy
  /\ Host \in Agents /\ Device \in Agents
  /\ \A s : WriteBackType(s) \in RequestType
  /\ \A s : FillState(s) \in CacheState
BY DEF Invalid, CacheBlock, CacheState, Idle, Busy, Agents, WriteBackType, RequestType, FillState

\* What a controller answers to a snoop that finds a line in a given state.
LEMMA SnoopFound ==
  ASSUME NEW type \in {"SNP_DATA", "SNP_INV"}, NEW state \in CacheState
  PROVE  SnoopStatus(type, state) = IF state = "I" THEN "RSP_MISS"
                                    ELSE IF type = "SNP_INV" THEN "RSP_I"
                                    ELSE IF state = "S" THEN "RSP_S"
                                    ELSE IF state = "E" THEN "RSP_E" ELSE "RSP_M"
<1>1. CASE state = "I"
  BY <1>1 DEF SnoopStatus
<1>2. CASE state # "I" /\ type = "SNP_INV"
  BY <1>2 DEF SnoopStatus
<1>3. CASE state # "I" /\ type = "SNP_DATA"
  BY <1>3 DEF SnoopStatus, CacheState
<1> QED
  BY <1>1, <1>2, <1>3

\* A request put by Ask, and the wait it starts, are well formed.
LEMMA AskType ==
  ASSUME ControllersTypeOK, NEW a \in Agents, NEW op \in {"load", "store"},
         NEW x \in Addrs, NEW v \in Values, Ask(a, op, x, v)
  PROVE  /\ proc' \in [Agents -> {Idle} \cup Busy]
         /\ request' \in [Agents -> Seq(CacheRequest)]
<1>1. Asking(op, x, v) \in Busy
  BY DEF Asking, Busy
<1>2. AskRequest(op, x) \in CacheRequest
  BY DEF AskRequest, CacheRequest, RequestType
<1>3. Append(request[a], AskRequest(op, x)) \in Seq(CacheRequest)
  BY <1>2, AppendProperties DEF ControllersTypeOK
<1> QED BY <1>1, <1>3 DEF Ask, ControllersTypeOK

LEMMA FlushType ==
  ASSUME ControllersTypeOK, NEW a \in Agents, NEW op \in {"load", "store"},
         NEW x \in Addrs, NEW v \in Values, Flush(a, op, x, v)
  PROVE  /\ proc' \in [Agents -> {Idle} \cup Busy]
         /\ request' \in [Agents -> Seq(CacheRequest)]
<1>1. PICK y \in Addrs :
        /\ proc' = [proc EXCEPT ![a] = [pc |-> "flush", op |-> op, addr |-> x,
                                        val |-> v, victim |-> y]]
        /\ request' = [request EXCEPT ![a] =
                         Append(@, [type |-> WriteBackType(cache[a][y].state),
                                    addr |-> y, data |-> cache[a][y].data])]
  BY DEF Flush
<1>2. [pc |-> "flush", op |-> op, addr |-> x, val |-> v, victim |-> y] \in Busy
  BY DEF Busy
<1>3. cache[a][y].data \in Values
  BY DEF ControllersTypeOK, CacheBlock
<1>4. [type |-> WriteBackType(cache[a][y].state), addr |-> y, data |-> cache[a][y].data]
        \in CacheRequest
  BY <1>3, ConstantTypes DEF CacheRequest
<1>5. Append(request[a], [type |-> WriteBackType(cache[a][y].state), addr |-> y,
                          data |-> cache[a][y].data]) \in Seq(CacheRequest)
  BY <1>4, AppendProperties DEF ControllersTypeOK
<1> QED BY <1>1, <1>2, <1>5 DEF ControllersTypeOK

LEMMA CommitType ==
  ASSUME ControllersTypeOK, NEW a \in Agents, NEW x \in Addrs, NEW v \in Values,
         Commit(a, x, v)
  PROVE  /\ cache' \in [Agents -> [Addrs -> CacheBlock]]
         /\ latest' \in [Addrs -> Values]
<1>1. [state |-> "M", data |-> v] \in CacheBlock
  BY DEF CacheBlock, CacheState
<1> QED BY <1>1 DEF Commit, ControllersTypeOK

LEMMA MissType ==
  ASSUME ControllersTypeOK, NEW a \in Agents, NEW op \in {"load", "store"},
         NEW x \in Addrs, NEW v \in Values, Miss(a, op, x, v)
  PROVE  ControllersTypeOK'
BY AskType, FlushType DEF Miss, ControllersTypeOK

LEMMA LoadType ==
  ASSUME ControllersTypeOK, NEW a \in Agents, NEW x \in Addrs, Load(a, x)
  PROVE  ControllersTypeOK'
BY MissType DEF Load

LEMMA StoreType ==
  ASSUME ControllersTypeOK, NEW a \in Agents, NEW x \in Addrs, NEW v \in Values,
         Store(a, x, v)
  PROVE  ControllersTypeOK'
BY MissType, CommitType, AskType DEF Store, ControllersTypeOK

LEMMA RespondType ==
  ASSUME ControllersTypeOK, NEW a \in Agents, NEW status, NEW data \in Values,
         Respond(a, status, data)
  PROVE  ControllersTypeOK'
<1>1. proc[a] \in Busy
  BY DEF Respond, ControllersTypeOK, Idle
<1>2. /\ proc[a].op \in {"load", "store"} /\ proc[a].addr \in Addrs
      /\ proc[a].val \in Values /\ proc[a].victim \in Addrs
  BY <1>1 DEF Busy
<1>3. CASE proc[a].pc = "flush"
  <2>1. /\ cache' = [cache EXCEPT ![a][proc[a].victim] = Invalid]
        /\ Ask(a, proc[a].op, proc[a].addr, proc[a].val)
        /\ latest' = latest
    BY <1>3 DEF Respond
  <2> QED BY <1>2, <2>1, AskType, ConstantTypes DEF ControllersTypeOK
<1>4. CASE proc[a].pc = "fill"
  <2>1. [state |-> FillState(status), data |-> data] \in CacheBlock
    BY ConstantTypes DEF CacheBlock
  <2>2. /\ cache' = [cache EXCEPT ![a][proc[a].addr] =
                       [state |-> FillState(status), data |-> data]]
        /\ proc' = [proc EXCEPT ![a] = Idle]
        /\ request' = request /\ latest' = latest
    BY <1>4 DEF Respond
  <2> QED BY <1>2, <2>1, <2>2 DEF ControllersTypeOK
<1>5. CASE proc[a].pc = "own"
  <2>1. Commit(a, proc[a].addr, proc[a].val) /\ proc' = [proc EXCEPT ![a] = Idle]
          /\ request' = request
    BY <1>5 DEF Respond
  <2> QED BY <1>2, <2>1, CommitType DEF ControllersTypeOK
<1> QED BY <1>3, <1>4, <1>5 DEF Respond

LEMMA SnoopType ==
  ASSUME ControllersTypeOK, NEW a \in Agents, NEW type, NEW x \in Addrs, Snoop(a, type, x)
  PROVE  cache' \in [Agents -> [Addrs -> CacheBlock]]
<1>1. cache[a][x] \in CacheBlock
  BY DEF ControllersTypeOK
<1>2. [state |-> "S", data |-> cache[a][x].data] \in CacheBlock
  BY <1>1 DEF CacheBlock, CacheState
<1> QED BY <1>2, ConstantTypes DEF Snoop, ControllersTypeOK

----------------------------------------------------------------------------
(* The type invariant, of any program.                                     *)

HaType ==
  [part : {"take", "ndr", "drs", "FAILED"}, state : {"INIT", "START", "WAIT"},
   src : Agents \cup {None}, type : RequestType \cup {"BISNP_DATA", "BISNP_INV", None},
   addr : Addrs \cup {None}, data : Values, rsp : {"BIRSP_S", "BIRSP_I"},
   sched : BOOLEAN, fcHost : BOOLEAN]
DcohType == [part : {"own", "req", "rwd"}, state : {"INIT", "START", "WAIT"},
             packet : CacheRequest \cup {None}]

\* An agent that works on a request has one, and a turn of the device's that
\* has come to the host's requests finds one.
Working ==
  /\ ha.state # "INIT" => ha.addr \in Addrs
  /\ dcoh.state # "INIT" => dcoh.packet \in CacheRequest
  /\ dcoh.part = "req" => queue["req"] # <<>>

Typed == /\ ControllersTypeOK /\ ha \in HaType /\ dcoh \in DcohType
         /\ Carried(m2s, s2m, queue) /\ sf \subseteq Addrs /\ mem \in [Addrs -> Values]
         /\ Working

LEMMA TypedTypeOK == Typed => TypeOK
BY ChannelNames DEF Typed, TypeOK, HaType, DcohType, Carried, M2S, S2M

LEMMA CarriedSend ==
  ASSUME NEW m, NEW s, NEW q, Carried(m, s, q)
  PROVE  /\ \A p \in M2S : Carried(Append(m, p), s, q)
         /\ \A p \in S2M : Carried(m, Append(s, p), q)
<1>1. m \in Seq(M2S) /\ s \in Seq(S2M)
  BY DEF Carried
<1>2. \A p \in M2S : Append(m, p) \in Seq(M2S)
  BY <1>1, AppendProperties
<1>3. \A p \in S2M : Append(s, p) \in Seq(S2M)
  BY <1>1, AppendProperties
<1> QED
  BY <1>2, <1>3 DEF Carried

LEMMA CarriedTake ==
  ASSUME NEW m, NEW s, NEW q, Carried(m, s, q), NEW ch \in DOMAIN Channel, q[ch] # <<>>,
         NEW r, r = [q EXCEPT ![ch] = Tail(@)]
  PROVE  Carried(m, s, r) /\ Head(q[ch]) \in Channel[ch]
<1>1. q[ch] \in Seq(Channel[ch])
  BY DEF Carried
<1>2. Tail(q[ch]) \in Seq(Channel[ch]) /\ Head(q[ch]) \in Channel[ch]
  BY <1>1, HeadTailProperties
<1>3. DOMAIN r = DOMAIN Channel /\ \A dh \in DOMAIN Channel : r[dh] = IF dh = ch THEN Tail(q[ch]) ELSE q[dh]
  BY DEF Carried
<1> QED
  BY <1>2, <1>3 DEF Carried

LEMMA AppendSome ==
  ASSUME NEW S, NEW l \in Seq(S), NEW e \in S
  PROVE  Append(l, e) \in Seq(S) /\ Append(l, e) # <<>>
OBVIOUS

\* No packet leaves the queue of the host's requests.
Keeps(q, r) == q["req"] # <<>> => r["req"] # <<>>

LEMMA CarriedEnqueue ==
  ASSUME NEW m, NEW s, NEW q, Carried(m, s, q), NEW h, h.ch \in DOMAIN Channel,
         h \in Channel[h.ch], NEW r, r = [q EXCEPT ![h.ch] = Append(@, h)]
  PROVE  Carried(m, s, r) /\ Keeps(q, r)
<1>1. q[h.ch] \in Seq(Channel[h.ch])
  BY DEF Carried
<1>2. Append(q[h.ch], h) \in Seq(Channel[h.ch]) /\ Append(q[h.ch], h) # <<>>
  BY <1>1, AppendSome
<1>3. /\ DOMAIN r = DOMAIN Channel
      /\ \A ch \in DOMAIN Channel : r[ch] = IF ch = h.ch THEN Append(q[h.ch], h) ELSE q[ch]
  BY DEF Carried
<1> QED
  BY <1>2, <1>3, ChannelNames DEF Carried, Keeps, Down

LEMMA CarriedReceiveDown ==
  ASSUME NEW m, NEW s, NEW q, Carried(m, s, q), m # <<>>, NEW n, n = Tail(m),
         NEW r, r = [q EXCEPT ![Head(m).ch] = Append(@, Head(m))]
  PROVE  Carried(n, s, r) /\ Keeps(q, r)
<1>1. m \in Seq(M2S)
  BY DEF Carried
<1>2. Head(m) \in M2S /\ n \in Seq(M2S)
  BY <1>1, HeadTailProperties
<1>3. Head(m).ch \in DOMAIN Channel /\ Head(m) \in Channel[Head(m).ch]
  BY <1>2, ChannelOf, ChannelNames
<1>4. Carried(m, s, r) /\ Keeps(q, r)
  BY <1>3, CarriedEnqueue
<1> QED
  BY <1>2, <1>4 DEF Carried

LEMMA CarriedReceiveUp ==
  ASSUME NEW m, NEW s, NEW q, Carried(m, s, q), s # <<>>, NEW n, n = Tail(s),
         NEW r, r = [q EXCEPT ![Head(s).ch] = Append(@, Head(s))]
  PROVE  Carried(m, n, r) /\ Keeps(q, r)
<1>1. s \in Seq(S2M)
  BY DEF Carried
<1>2. Head(s) \in S2M /\ n \in Seq(S2M)
  BY <1>1, HeadTailProperties
<1>3. Head(s).ch \in DOMAIN Channel /\ Head(s) \in Channel[Head(s).ch]
  BY <1>2, ChannelOf, ChannelNames
<1>4. Carried(m, s, r) /\ Keeps(q, r)
  BY <1>3, CarriedEnqueue
<1> QED
  BY <1>2, <1>4 DEF Carried

LEMMA HeadRequestType ==
  ASSUME ControllersTypeOK, NEW a \in Agents, request[a] # <<>>,
         request' = [request EXCEPT ![a] = Tail(@)],
         cache' = cache, proc' = proc, latest' = latest
  PROVE  Head(request[a]) \in CacheRequest /\ ControllersTypeOK'
<1>1. request[a] \in Seq(CacheRequest)
  BY DEF ControllersTypeOK
<1>2. Head(request[a]) \in CacheRequest /\ Tail(request[a]) \in Seq(CacheRequest)
  BY <1>1, HeadTailProperties
<1> QED
  BY <1>2 DEF ControllersTypeOK

LEMMA TypedInit == Init => Typed
<1> SUFFICES ASSUME Init PROVE Typed
  OBVIOUS
<1>1. ControllersTypeOK
  <2>1. <<>> \in Seq(CacheRequest)
    OBVIOUS
  <2> QED
    BY <2>1, ConstantTypes DEF Init, ControllersInit, ControllersTypeOK
<1>2. ha \in HaType /\ ha.state = "INIT"
  BY DEF Init, HaIdle, HaType
<1>3. dcoh \in DcohType /\ dcoh.state = "INIT" /\ dcoh.part = "own"
  BY DEF Init, DcohType
<1>4. Carried(m2s, s2m, queue)
  BY DEF Init, Carried
<1> QED
  BY <1>1, <1>2, <1>3, <1>4 DEF Init, Typed, Working

\* A packet that HomeAgent or CxlMemDcoh puts on its link.
LEMMA PacketTypes ==
  /\ \A x \in Addrs, v \in Values : [ch |-> "rwd", addr |-> x, data |-> v] \in M2S
  /\ \A x \in Addrs, o \in {"MEM_RD", "MEM_INV"} : [ch |-> "req", opcode |-> o, addr |-> x] \in M2S
  /\ \A o \in {"BIRSP_S", "BIRSP_I"} : [ch |-> "birsp", opcode |-> o] \in M2S
  /\ \A o \in {"CMP", "CMP_S", "CMP_E"}, b \in BOOLEAN : [ch |-> "ndr", opcode |-> o, any |-> b] \in S2M
  /\ \A v \in Values : [ch |-> "drs", data |-> v] \in S2M
  /\ \A o \in {"BISNP_DATA", "BISNP_INV"}, x \in Addrs :
       [ch |-> "bisnp", addr |-> x, opcode |-> o] \in S2M
BY DEF M2S, S2M, M2SReq, M2SRwD, M2SBIRsp, S2MNDR, S2MDRS, S2MBISnp

LEMMA TypedProcessors ==
  ASSUME Typed, NEW a \in Agents, Processor(a)
  PROVE  Typed'
<1>1. UNCHANGED <<links, ha, dcoh, sf, mem>>
  BY DEF Processor
<1>2. ControllersTypeOK'
  <2>1. CASE \E x \in Addrs : Load(a, x)
    BY <2>1, LoadType DEF Typed
  <2>2. CASE \E x \in Addrs, v \in Values : Store(a, x, v)
    BY <2>2, StoreType DEF Typed
  <2> QED
    BY <2>1, <2>2 DEF Processor
<1> QED
  BY <1>1, <1>2 DEF Typed, Working, links

LEMMA TypedReceives ==
  ASSUME Typed, HaReceive \/ DcohReceive
  PROVE  Typed'
<1>1. Carried(m2s, s2m, queue)
  BY DEF Typed
<1>2. CASE HaReceive
  <2>1. Carried(m2s, s2m', queue') /\ Keeps(queue, queue')
    BY <1>1, <1>2, CarriedReceiveUp DEF HaReceive
  <2> QED
    BY <1>2, <2>1 DEF HaReceive, Keeps, Typed, Working, controllers, ControllersTypeOK
<1>3. CASE DcohReceive
  <2>1. Carried(m2s', s2m, queue') /\ Keeps(queue, queue')
    BY <1>1, <1>3, CarriedReceiveDown DEF DcohReceive
  <2> QED
    BY <1>3, <2>1 DEF DcohReceive, Keeps, Typed, Working, controllers, ControllersTypeOK
<1> QED
  BY <1>2, <1>3

LEMMA TypedHaTakes ==
  ASSUME Typed, HaTakeHost \/ HaTakeDevice
  PROVE  Typed'
<1>1. CASE HaTakeHost
  <2>1. Head(request[Host]) \in CacheRequest /\ ControllersTypeOK'
    BY <1>1, HeadRequestType, ConstantTypes DEF HaTakeHost, Typed
  <2>2. ha' \in HaType /\ ha'.addr \in Addrs
    BY <1>1, <2>1, ConstantTypes DEF HaTakeHost, Typed, HaType, CacheRequest
  <2> QED
    BY <1>1, <2>1, <2>2 DEF HaTakeHost, Typed, Working, links
<1>2. CASE HaTakeDevice
  <2>1. "bisnp" \in DOMAIN Channel /\ "req" \in DOMAIN Channel /\ Channel["bisnp"] = S2MBISnp
    BY DEF Channel
  <2>2. Carried(m2s, s2m, queue') /\ Head(queue["bisnp"]) \in S2MBISnp
    BY <1>2, <2>1, CarriedTake DEF HaTakeDevice, Pop, Typed
  <2>3. ha' \in HaType /\ ha'.addr \in Addrs
    BY <1>2, <2>2, ConstantTypes DEF HaTakeDevice, Typed, HaType, S2MBISnp
  <2>4. queue'["req"] = queue["req"]
    BY <1>2, <2>1 DEF HaTakeDevice, Pop, Typed, Carried
  <2> QED
    BY <1>2, <2>2, <2>3, <2>4 DEF HaTakeDevice, Typed, Working, controllers, ControllersTypeOK
<1> QED
  BY <1>1, <1>2

\* A part of HomeAgent's loop that leaves the device alone keeps the types if
\* it keeps those of what it changes.
LEMMA TypedHa ==
  ASSUME Typed, UNCHANGED <<dcoh, sf, mem>>, queue'["req"] = queue["req"], ControllersTypeOK',
         ha' \in HaType, ha'.state # "INIT" => ha'.addr \in Addrs, Carried(m2s, s2m, queue)'
  PROVE  Typed'
BY DEF Typed, Working

LEMMA TypedHaFn ==
  ASSUME Typed, HaFn
  PROVE  Typed'
<1>1. /\ ha \in HaType /\ ha.addr \in Addrs /\ ha.data \in Values /\ ControllersTypeOK
      /\ Carried(m2s, s2m, queue)
  BY DEF HaFn, Typed, Working, HaType
<1>2. UNCHANGED <<s2m, queue, dcoh, sf, mem>>
  BY DEF HaFn
<1>3. CASE HaHostWriteBack
  <2>1. ControllersTypeOK'
    BY <1>1, <1>3, RespondType, ConstantTypes DEF HaHostWriteBack
  <2>2. ha' \in HaType /\ ha'.addr = ha.addr
    BY <1>1, <1>3 DEF HaHostWriteBack, HaType, AfterWriteBack
  <2>3. Carried(m2s', s2m, queue)
    BY <1>1, <1>3, PacketTypes, CarriedSend DEF HaHostWriteBack, HaSend
  <2> QED
    BY <1>1, <1>2, <2>1, <2>2, <2>3, TypedHa
<1>4. CASE HaHostRequest
  <2>1. ha' \in HaType /\ ha'.addr = ha.addr
    BY <1>1, <1>4 DEF HaHostRequest, HaType
  <2>2. Carried(m2s', s2m, queue)
    BY <1>1, <1>4, PacketTypes, CarriedSend DEF HaHostRequest, HaSend
  <2>3. ControllersTypeOK'
    BY <1>1, <1>4 DEF HaHostRequest, controllers, ControllersTypeOK
  <2> QED
    BY <1>1, <1>2, <2>1, <2>2, <2>3, TypedHa
<1>5. CASE HaBISnp
  <2> DEFINE type   == IF ha.type = "BISNP_DATA" THEN "SNP_DATA" ELSE "SNP_INV"
             block  == cache[Host][ha.addr]
             status == SnoopStatus(type, block.state)
  <2>1. block.data \in Values
    BY <1>1, ConstantTypes DEF ControllersTypeOK, CacheBlock
  <2>2. Snoop(Host, type, ha.addr) /\ UNCHANGED <<proc, request, latest>>
    BY <1>5 DEF HaBISnp
  <2>3. ControllersTypeOK'
    BY <1>1, <2>2, SnoopType, ConstantTypes DEF ControllersTypeOK
  <2>4. CASE status = "RSP_MISS"
    <3>1. /\ m2s' = Append(m2s, [ch |-> "birsp", opcode |-> "BIRSP_I"])
          /\ ha' = [ha EXCEPT !.state = "INIT", !.part = "ndr"]
      BY <1>5, <2>4 DEF HaBISnp, HaSend
    <3>2. ha' \in HaType /\ ha'.addr = ha.addr
      BY <1>1, <3>1 DEF HaType
    <3>3. Carried(m2s', s2m, queue)
      BY <1>1, <3>1, PacketTypes, CarriedSend
    <3> QED
      BY <1>1, <1>2, <2>3, <3>2, <3>3, TypedHa
  <2>5. CASE status # "RSP_MISS"
    <3>1. /\ m2s' = Append(m2s, [ch |-> "rwd", addr |-> ha.addr, data |-> block.data])
          /\ ha' = [ha EXCEPT !.state = "WAIT", !.part = "ndr", !.sched = TRUE,
                              !.rsp = IF status = "RSP_S" THEN "BIRSP_S" ELSE "BIRSP_I"]
      BY <1>5, <2>5 DEF HaBISnp, HaSend
    <3>2. ha' \in HaType /\ ha'.addr = ha.addr
      BY <1>1, <3>1 DEF HaType
    <3>3. Carried(m2s', s2m, queue)
      BY <1>1, <2>1, <3>1, PacketTypes, CarriedSend
    <3> QED
      BY <1>1, <1>2, <2>3, <3>2, <3>3, TypedHa
  <2> QED
    BY <2>4, <2>5
<1> QED
  BY <1>3, <1>4, <1>5 DEF HaFn

LEMMA TypedHaNdr ==
  ASSUME Typed, HaNdr
  PROVE  Typed'
<1>1. /\ ha \in HaType /\ ControllersTypeOK /\ Carried(m2s, s2m, queue) /\ queue["ndr"] # <<>>
      /\ UNCHANGED <<s2m, dcoh, sf, mem>>
  BY DEF HaNdr, Typed
<1>2. /\ {"ndr", "drs", "req"} \subseteq DOMAIN Channel /\ Channel["drs"] = S2MDRS
      /\ DOMAIN queue = DOMAIN Channel
  BY <1>1 DEF Channel, Carried
<1>3. \A drs : AfterNdr(drs) \in {"take", "drs"}
  BY DEF AfterNdr
<1>4. CASE HaCompletion
  <2> DEFINE ndr    == Head(queue["ndr"])
             drs    == queue["drs"]
             status == IF ndr.opcode = "CMP_S" THEN "RSP_S" ELSE "RSP_I"
  <2>1. m2s' = m2s
    BY <1>4 DEF HaCompletion
  <2>2. CASE /\ drs # <<>>
             /\ Respond(Host, status, Head(drs).data)
             /\ queue' = [queue EXCEPT !["ndr"] = Tail(@), !["drs"] = Tail(@)]
             /\ ha' = [ha EXCEPT !.state = "INIT", !.part = AfterNdr(Tail(drs))]
    <3> DEFINE r == [queue EXCEPT !["ndr"] = Tail(@)]
    <3>1. Carried(m2s, s2m, r)
      BY <1>1, <1>2, CarriedTake
    <3>2. r["drs"] = drs /\ r["req"] = queue["req"] /\ DOMAIN r = DOMAIN Channel
      BY <1>2
    <3>3. queue' = [r EXCEPT !["drs"] = Tail(@)]
      BY <1>2, <2>2
    <3> HIDE DEF r
    <3>4. Carried(m2s, s2m, queue') /\ Head(drs) \in S2MDRS
      BY <1>2, <2>2, <3>1, <3>2, <3>3, CarriedTake
    <3>5. Head(drs).data \in Values
      BY <3>4 DEF S2MDRS
    <3>6. ControllersTypeOK'
      BY <1>1, <2>2, <3>5, RespondType, ConstantTypes
    <3>7. ha' \in HaType /\ ha'.state = "INIT"
      BY <1>1, <1>3, <2>2 DEF HaType
    <3>8. queue'["req"] = queue["req"]
      BY <3>2, <3>3
    <3> QED
      BY <1>1, <2>1, <3>4, <3>6, <3>7, <3>8, TypedHa
  <2>3. CASE /\ Respond(Host, status, InitVal)
             /\ Pop("ndr")
             /\ ha' = [ha EXCEPT !.state = "INIT", !.part = AfterNdr(drs)]
    <3>1. Carried(m2s, s2m, queue')
      BY <1>1, <1>2, <2>3, CarriedTake DEF Pop
    <3>2. ControllersTypeOK'
      BY <1>1, <2>3, RespondType, ConstantTypes
    <3>3. ha' \in HaType /\ ha'.state = "INIT"
      BY <1>1, <1>3, <2>3 DEF HaType
    <3>4. queue'["req"] = queue["req"]
      BY <1>2, <2>3 DEF Pop
    <3> QED
      BY <1>1, <2>1, <3>1, <3>2, <3>3, <3>4, TypedHa
  <2> QED
    BY <1>4, <2>2, <2>3 DEF HaCompletion
<1>5. CASE HaPlainCompletion
  <2>1. Pop("ndr") /\ UNCHANGED controllers
    BY <1>5 DEF HaPlainCompletion
  <2>2. Carried(m2s, s2m, queue')
    BY <1>1, <1>2, <2>1, CarriedTake DEF Pop
  <2>3. Carried(m2s', s2m, queue')
    <3>1. m2s' = m2s \/ m2s' = Append(m2s, [ch |-> "birsp", opcode |-> ha.rsp])
      BY <1>5 DEF HaPlainCompletion, HaSend
    <3>2. [ch |-> "birsp", opcode |-> ha.rsp] \in M2S
      BY <1>1, PacketTypes DEF HaType
    <3> QED
      BY <2>2, <3>1, <3>2, CarriedSend
  <2>4. ha' \in HaType /\ (ha'.state # "INIT" => ha'.addr \in Addrs)
    <3>1. \/ ha' = [ha EXCEPT !.state = "INIT", !.part = AfterNdr(queue["drs"]),
                              !.sched = SchedAfter]
          \/ ha' = [ha EXCEPT !.part = "FAILED"]
          \/ ha' = [ha EXCEPT !.state = "INIT", !.part = AfterNdr(queue["drs"])]
      BY <1>5 DEF HaPlainCompletion
    <3>2. ha.state # "INIT" => ha.addr \in Addrs
      BY DEF Typed, Working
    <3>3. PICK part : part = AfterNdr(queue["drs"])
      OBVIOUS
    <3>4. /\ part \in {"take", "drs"} /\ SchedAfter \in BOOLEAN
          /\ \/ ha' = [ha EXCEPT !.state = "INIT", !.part = part, !.sched = SchedAfter]
             \/ ha' = [ha EXCEPT !.part = "FAILED"]
             \/ ha' = [ha EXCEPT !.state = "INIT", !.part = part]
      BY <1>3, <3>1, <3>3 DEF SchedAfter
    <3>5. ha' \in HaType
      <4>1. CASE ha' = [ha EXCEPT !.state = "INIT", !.part = part, !.sched = SchedAfter]
        BY <1>1, <3>4, <4>1 DEF HaType
      <4>2. CASE ha' = [ha EXCEPT !.part = "FAILED"]
        BY <1>1, <4>2 DEF HaType
      <4>3. CASE ha' = [ha EXCEPT !.state = "INIT", !.part = part]
        BY <1>1, <3>4, <4>3 DEF HaType
      <4> QED
        BY <3>4, <4>1, <4>2, <4>3
    <3>6. ha'.state = "INIT" \/ (ha'.state = ha.state /\ ha'.addr = ha.addr)
      BY <1>1, <3>4 DEF HaType
    <3> QED
      BY <3>2, <3>5, <3>6
  <2>5. queue'["req"] = queue["req"] /\ ControllersTypeOK'
    BY <1>1, <1>2, <2>1 DEF Pop, controllers, ControllersTypeOK
  <2> QED
    BY <1>1, <2>3, <2>4, <2>5, TypedHa
<1> QED
  BY <1>4, <1>5 DEF HaNdr

LEMMA TypedHaDrs ==
  ASSUME Typed, HaDrs
  PROVE  Typed'
<1>1. /\ ha \in HaType /\ ControllersTypeOK /\ Carried(m2s, s2m, queue) /\ queue["drs"] # <<>>
      /\ UNCHANGED <<m2s, s2m, dcoh, sf, mem>> /\ Pop("drs")
      /\ Respond(Host, "OK", Head(queue["drs"]).data)
      /\ ha' = [ha EXCEPT !.state = "INIT", !.part = "take"]
  BY DEF HaDrs, Typed
<1>2. {"drs", "req"} \subseteq DOMAIN Channel /\ Channel["drs"] = S2MDRS
      /\ DOMAIN queue = DOMAIN Channel
  BY <1>1 DEF Channel, Carried
<1>3. Carried(m2s, s2m, queue') /\ Head(queue["drs"]) \in S2MDRS
  BY <1>1, <1>2, CarriedTake DEF Pop
<1>4. ControllersTypeOK'
  BY <1>1, <1>3, RespondType, ConstantTypes DEF S2MDRS
<1>5. ha' \in HaType /\ ha'.state = "INIT" /\ queue'["req"] = queue["req"]
  BY <1>1, <1>2 DEF HaType, Pop
<1> QED
  BY <1>1, <1>3, <1>4, <1>5, TypedHa

LEMMA TypedHaNone ==
  ASSUME Typed, HaNone
  PROVE  Typed'
<1>1. ha' = [ha EXCEPT !.part = "take"] /\ UNCHANGED <<controllers, links, dcoh, sf, mem>>
  BY DEF HaNone
<1>2. ha' \in HaType /\ ha'.state = ha.state /\ ha'.addr = ha.addr
  BY <1>1 DEF Typed, HaType
<1> QED
  BY <1>1, <1>2 DEF Typed, Working, links, controllers, ControllersTypeOK

\* The device's loop: what AfterOwn and the end of a request leave.
LEMMA AfterOwnType ==
  AfterOwn \in {"own", "req", "rwd"} /\ (AfterOwn = "req" => queue["req"] # <<>>)
BY DEF AfterOwn

\* A part of the device's loop that leaves HomeAgent alone keeps the types if
\* it keeps those of what it changes.
LEMMA TypedDcoh ==
  ASSUME Typed, UNCHANGED ha, ControllersTypeOK', Carried(m2s, s2m, queue)',
         dcoh' \in DcohType, dcoh'.state # "INIT" => dcoh'.packet \in CacheRequest,
         dcoh'.part = "req" => queue'["req"] # <<>>,
         sf' \subseteq Addrs, mem' \in [Addrs -> Values]
  PROVE  Typed'
BY DEF Typed, Working

LEMMA TypedDcohOwn ==
  ASSUME Typed, DcohOwn
  PROVE  Typed'
<1>1. /\ dcoh \in DcohType /\ ControllersTypeOK /\ Carried(m2s, s2m, queue)
      /\ sf \subseteq Addrs /\ mem \in [Addrs -> Values] /\ DOMAIN queue = DOMAIN Channel
      /\ dcoh.state # "INIT" => dcoh.packet \in CacheRequest
      /\ Host \in Agents /\ Device \in Agents
  BY ConstantTypes DEF Typed, Working, Carried
<1>2. UNCHANGED <<m2s, ha>>
  BY DEF DcohOwn
<1>3. {"birsp", "req"} \subseteq DOMAIN Channel /\ Channel["birsp"] = M2SBIRsp
  BY DEF Channel
<1>4. ASSUME FinishDcoh, AfterOwn' = AfterOwn \/ queue'["req"] = queue["req"]
      PROVE  /\ dcoh' \in DcohType /\ dcoh'.state = "INIT"
             /\ dcoh'.part = "req" => queue["req"] # <<>>
  BY <1>4, AfterOwnType DEF FinishDcoh, DcohType
<1>5. CASE DcohTake
  <2>1. Head(request[Device]) \in CacheRequest /\ ControllersTypeOK'
    BY <1>1, <1>5, HeadRequestType DEF DcohTake
  <2>2. /\ dcoh' \in DcohType /\ dcoh'.packet \in CacheRequest
        /\ dcoh'.part = "req" => queue["req"] # <<>>
    BY <1>5, <2>1, AfterOwnType DEF DcohTake, DcohType
  <2> QED
    BY <1>1, <1>2, <1>5, <2>1, <2>2, TypedDcoh DEF DcohTake
<1>6. CASE DcohOwnNone
  <2>1. /\ dcoh' \in DcohType /\ dcoh'.packet = dcoh.packet /\ dcoh'.state = dcoh.state
        /\ dcoh'.part = "req" => queue["req"] # <<>>
    BY <1>1, <1>6, AfterOwnType DEF DcohOwnNone, DcohType
  <2>2. ControllersTypeOK' /\ UNCHANGED <<queue, s2m, sf, mem>>
    BY <1>1, <1>6 DEF DcohOwnNone, controllers, ControllersTypeOK
  <2> QED
    BY <1>1, <1>2, <2>1, <2>2, TypedDcoh
<1>7. CASE DcohBIRsp
  <2>1. dcoh.packet.addr \in Addrs
    BY <1>1, <1>7 DEF DcohBIRsp, CacheRequest
  <2>2. Carried(m2s, s2m, queue') /\ queue'["req"] = queue["req"]
    BY <1>1, <1>3, <1>7, CarriedTake DEF DcohBIRsp, Pop
  <2>3. mem[dcoh.packet.addr] \in Values
    BY <1>1, <2>1
  <2>4. ControllersTypeOK'
    BY <1>1, <1>7, <2>3, RespondType DEF DcohBIRsp
  <2>5. /\ dcoh' \in DcohType /\ dcoh'.state = "INIT"
        /\ dcoh'.part = "req" => queue["req"] # <<>>
    BY <1>4, <1>7, <2>2 DEF DcohBIRsp
  <2> QED
    BY <1>1, <1>2, <1>7, <2>2, <2>4, <2>5, TypedDcoh DEF DcohBIRsp
<1>8. CASE dcoh.state = "START" /\ DcohWriteBack /\ UNCHANGED queue
  <2>1. dcoh.packet.addr \in Addrs /\ dcoh.packet.data \in Values
    BY <1>1, <1>8 DEF CacheRequest
  <2>2. mem' \in [Addrs -> Values]
    BY <1>1, <1>8, <2>1 DEF DcohWriteBack
  <2>3. ControllersTypeOK'
    BY <1>1, <1>8, RespondType DEF DcohWriteBack
  <2>4. /\ dcoh' \in DcohType /\ dcoh'.state = "INIT"
        /\ dcoh'.part = "req" => queue["req"] # <<>>
    BY <1>4, <1>8 DEF DcohWriteBack
  <2> QED
    BY <1>1, <1>2, <1>8, <2>2, <2>3, <2>4, TypedDcoh DEF DcohWriteBack
<1>9. CASE dcoh.state = "START" /\ DcohOwnMiss /\ UNCHANGED queue
  <2> DEFINE data == IF dcoh.packet.type = "SNP_DATA" THEN mem[dcoh.packet.addr] ELSE InitVal
  <2>1. data \in Values
    BY <1>1, <1>9 DEF CacheRequest
  <2>2. Respond(Device, "RSP_I", data)
    BY <1>9 DEF DcohOwnMiss
  <2> HIDE DEF data
  <2>3. ControllersTypeOK'
    BY <1>1, <2>1, <2>2, RespondType
  <2>4. /\ dcoh' \in DcohType /\ dcoh'.state = "INIT"
        /\ dcoh'.part = "req" => queue["req"] # <<>>
    BY <1>4, <1>9 DEF DcohOwnMiss
  <2> QED
    BY <1>1, <1>2, <1>9, <2>3, <2>4, TypedDcoh DEF DcohOwnMiss
<1>10. CASE dcoh.state = "START" /\ DcohBISnp /\ UNCHANGED queue
  <2> DEFINE p == [ch |-> "bisnp", addr |-> dcoh.packet.addr,
                   opcode |-> BISnpOpcode(dcoh.packet.type)]
  <2>1. p \in S2M
    BY <1>1, <1>10, PacketTypes DEF CacheRequest, BISnpOpcode
  <2>2. s2m' = s2m \o <<p>> /\ s2m \in Seq(S2M)
    BY <1>1, <1>10 DEF DcohBISnp, DcohSends, Carried
  <2> HIDE DEF p
  <2>3. s2m' \in Seq(S2M)
    BY <2>1, <2>2, Unit, ConcatProperties
  <2>4. Carried(m2s, s2m', queue)
    BY <1>1, <2>3 DEF Carried
  <2>5. sf' \subseteq Addrs /\ ControllersTypeOK' /\ UNCHANGED mem
    BY <1>1, <1>10 DEF DcohBISnp, controllers, ControllersTypeOK
  <2>6. /\ dcoh' \in DcohType /\ dcoh'.packet = dcoh.packet
        /\ dcoh'.part = "req" => queue["req"] # <<>>
    BY <1>1, <1>10, AfterOwnType DEF DcohBISnp, DcohType
  <2> QED
    BY <1>1, <1>2, <1>10, <2>4, <2>5, <2>6, TypedDcoh
<1> QED
  BY <1>5, <1>6, <1>7, <1>8, <1>9, <1>10 DEF DcohOwn

LEMMA TypedDcohReq ==
  ASSUME Typed, DcohReq
  PROVE  Typed'
<1> DEFINE packet == Head(queue["req"])
           x      == packet.addr
           type   == SnoopOfReq(packet.opcode)
           status == SnoopStatus(type, cache[Device][x].state)
           cmp    == CASE status \in {"RSP_MISS", "RSP_I"} -> "CMP_E"
                       [] status \in {"RSP_S", "RSP_M"} -> "CMP_S"
                       [] status = "RSP_E" -> "CMP"
           ndr    == [ch |-> "ndr", opcode |-> cmp, any |-> DataFollow(packet.opcode)]
           drs    == [ch |-> "drs", data |-> ReadData(status, x)]
<1>1. /\ dcoh \in DcohType /\ ControllersTypeOK /\ Carried(m2s, s2m, queue)
      /\ sf \subseteq Addrs /\ mem \in [Addrs -> Values] /\ queue["req"] # <<>>
      /\ Host \in Agents /\ Device \in Agents /\ DOMAIN queue = DOMAIN Channel
      /\ dcoh.state # "INIT" => dcoh.packet \in CacheRequest
  BY ConstantTypes DEF Typed, Working, Carried, DcohReq
<1>2. "req" \in DOMAIN Channel /\ Channel["req"] = M2SReq
  BY DEF Channel
<1>3. Carried(m2s, s2m, queue') /\ packet \in M2SReq
  BY <1>1, <1>2, CarriedTake DEF DcohReq, Pop
<1>4. x \in Addrs /\ cache[Device][x] \in CacheBlock
  BY <1>1, <1>3 DEF M2SReq, ControllersTypeOK
<1>5. status \in {"RSP_MISS", "RSP_I", "RSP_S", "RSP_E", "RSP_M"}
  <2>1. type \in {"SNP_DATA", "SNP_INV"} /\ cache[Device][x].state \in CacheState
    BY <1>4 DEF SnoopOfReq, CacheBlock
  <2> QED
    BY <2>1, SnoopFound
<1>6. ReadData(status, x) \in Values
  BY <1>1, <1>4 DEF ReadData, CacheBlock
<1>7. /\ Snoop(Device, type, x)
      /\ sf' = FilterAfterReq(cmp, x)
      /\ s2m' = s2m \o (IF packet.opcode = "MEM_RD" THEN <<ndr, drs>> ELSE <<ndr>>)
      /\ dcoh' = [dcoh EXCEPT !.part = "rwd"]
      /\ UNCHANGED <<proc, request, latest, m2s, ha, mem>>
  BY DEF DcohReq, DcohSends
<1>8. cmp \in {"CMP", "CMP_S", "CMP_E"}
  BY <1>5
<1>9. ndr \in S2M /\ drs \in S2M
  BY <1>6, <1>8, PacketTypes DEF DataFollow
<1> HIDE DEF ndr, drs, cmp, status, type, x, packet
<1>10. s2m' \in Seq(S2M)
  <2>1. s2m \in Seq(S2M)
    BY <1>1 DEF Carried
  <2>2. <<ndr, drs>> \in Seq(S2M) /\ <<ndr>> \in Seq(S2M)
    BY <1>9
  <2> QED
    BY <1>7, <2>1, <2>2, ConcatProperties
<1>11. Carried(m2s, s2m', queue')
  BY <1>3, <1>10 DEF Carried
<1>12. ControllersTypeOK' /\ sf' \subseteq Addrs
  <2>1. cache' \in [Agents -> [Addrs -> CacheBlock]]
    BY <1>1, <1>4, <1>7, SnoopType
  <2> QED
    BY <1>1, <1>4, <1>7, <2>1 DEF ControllersTypeOK, FilterAfterReq
<1>13. dcoh' \in DcohType /\ dcoh'.packet = dcoh.packet /\ dcoh'.state = dcoh.state
       /\ dcoh'.part # "req"
  BY <1>1, <1>7 DEF DcohType
<1> QED
  BY <1>1, <1>7, <1>11, <1>12, <1>13, TypedDcoh

LEMMA TypedDcohRwD ==
  ASSUME Typed, DcohRwD
  PROVE  Typed'
<1>1. /\ dcoh \in DcohType /\ ControllersTypeOK /\ Carried(m2s, s2m, queue)
      /\ sf \subseteq Addrs /\ mem \in [Addrs -> Values]
      /\ Host \in Agents /\ Device \in Agents /\ DOMAIN queue = DOMAIN Channel
      /\ dcoh.state # "INIT" => dcoh.packet \in CacheRequest
  BY ConstantTypes DEF Typed, Working, Carried
<1>2. "rwd" \in DOMAIN Channel /\ Channel["rwd"] = M2SRwD
  BY DEF Channel
<1>3. /\ dcoh' = [dcoh EXCEPT !.part = "own"]
      /\ UNCHANGED <<proc, request, latest, m2s, ha>>
  BY DEF DcohRwD
<1>4. dcoh' \in DcohType /\ dcoh'.packet = dcoh.packet /\ dcoh'.state = dcoh.state
      /\ dcoh'.part # "req"
  BY <1>1, <1>3 DEF DcohType
<1>5. CASE queue["rwd"] # <<>>
  <2> DEFINE packet == Head(queue["rwd"])
             ndr    == [ch |-> "ndr", opcode |-> "CMP", any |-> FALSE]
  <2>1. /\ Snoop(Device, "SNP_INV", packet.addr)
        /\ sf' = sf \ {packet.addr}
        /\ mem' = [mem EXCEPT ![packet.addr] = packet.data]
        /\ s2m' = s2m \o <<ndr>>
        /\ Pop("rwd")
    BY <1>5 DEF DcohRwD, DcohSends
  <2>2. Carried(m2s, s2m, queue') /\ packet \in M2SRwD
    BY <1>1, <1>2, <1>5, <2>1, CarriedTake DEF Pop
  <2>3. ndr \in S2M
    BY PacketTypes
  <2> HIDE DEF ndr
  <2>4. s2m' \in Seq(S2M)
    BY <1>1, <2>1, <2>3, Unit, ConcatProperties DEF Carried
  <2>5. Carried(m2s, s2m', queue')
    BY <2>2, <2>4 DEF Carried
  <2>6. packet.addr \in Addrs /\ packet.data \in Values
    BY <2>2 DEF M2SRwD
  <2>7. ControllersTypeOK'
    <3>1. cache' \in [Agents -> [Addrs -> CacheBlock]]
      BY <1>1, <2>1, <2>6, SnoopType
    <3> QED
      BY <1>1, <1>3, <3>1 DEF ControllersTypeOK
  <2> QED
    BY <1>1, <1>3, <1>4, <2>1, <2>5, <2>6, <2>7, TypedDcoh
<1>6. CASE queue["rwd"] = <<>>
  <2>1. UNCHANGED <<cache, sf, mem, s2m, queue>>
    BY <1>6 DEF DcohRwD
  <2> QED
    BY <1>1, <1>3, <1>4, <2>1, TypedDcoh DEF ControllersTypeOK
<1> QED
  BY <1>5, <1>6

LEMMA TypedStep == Typed /\ [Next]_vars => Typed'
<1> SUFFICES ASSUME Typed, [Next]_vars PROVE Typed'
  OBVIOUS
<1>1. CASE Next
  BY <1>1, TypedProcessors, TypedReceives, TypedHaTakes, TypedHaFn, TypedHaNdr, TypedHaDrs,
     TypedHaNone, TypedDcohOwn, TypedDcohReq, TypedDcohRwD DEF Next, HaStep, DcohStep
<1>2. CASE UNCHANGED vars
  BY <1>2 DEF vars, controllers, links, Typed, Working, ControllersTypeOK
<1> QED
  BY <1>1, <1>2

\* Every loop, link and queue of the host, the device and their controllers
\* holds what the code can put there, whatever the programs do: a channel
\* carries only its own packets, a translated opcode, and every agent that
\* works on a request has one.
THEOREM TypesKept == Spec => []TypeOK
<1>1. Spec => []Typed
  BY TypedInit, TypedStep, PTL DEF Spec
<1> QED
  BY <1>1, TypedTypeOK, PTL
----------------------------------------------------------------------------
(* What the steps do to the packets.                                       *)

LEMMA PendingOn ==
  /\ \A ch : Pending(ch) = On(m2s, s2m, queue, ch)
  /\ \A ch : Pending(ch)' = On(m2s', s2m', queue', ch)
BY DEF Pending, On, Packets, Queued

\* Of what is pending only the packets of channel ch change: to S.
Changes(ch, S) ==
  \A dh \in DOMAIN Channel : Pending(dh)' = IF dh = ch THEN S ELSE Pending(dh)

\* They are {} instead of the packet of ch, and p is sent; or n with data d.
Exchanges(ch, p) ==
  \A dh \in DOMAIN Channel :
    Pending(dh)' = IF dh = ch THEN {} ELSE IF dh = p.ch THEN {p} ELSE Pending(dh)
ExchangesData(n, d) ==
  \A dh \in DOMAIN Channel :
    Pending(dh)' = CASE dh = "req" -> {} [] dh = "ndr" -> {n} [] dh = "drs" -> {d}
                     [] OTHER -> Pending(dh)
Settled == \A dh \in DOMAIN Channel : Pending(dh)' = Pending(dh)

Ordered == Orderly(m2s, s2m, queue)

LEMMA HaSends ==
  ASSUME Typed, Ordered, NEW p \in M2S, m2s' = Append(m2s, p), UNCHANGED <<s2m, queue>>,
         Pending(p.ch) = {}, p.ch = "birsp" => Pending("req") = {}
  PROVE  Ordered' /\ Changes(p.ch, {p})
<1>1. Carried(m2s, s2m, queue) /\ Orderly(m2s, s2m, queue)
  BY DEF Typed, Ordered
<1>2. On(m2s, s2m, queue, p.ch) = {} /\ (p.ch = "birsp" => On(m2s, s2m, queue, "req") = {})
  BY PendingOn
<1>3. Orderly(m2s', s2m, queue) /\ Shifts(m2s, s2m, queue, m2s', s2m, queue, p.ch, {p})
  BY <1>1, <1>2, SendDown
<1> QED
  BY <1>3, PendingOn DEF Ordered, Changes, Shifts

LEMMA DcohSendsOne ==
  ASSUME Typed, Ordered, NEW p \in S2M, s2m' = s2m \o <<p>>, UNCHANGED <<m2s, queue>>,
         Pending(p.ch) = {}, p.ch = "ndr" => Pending("drs") = {}
  PROVE  Ordered' /\ Changes(p.ch, {p})
<1>1. Carried(m2s, s2m, queue) /\ Orderly(m2s, s2m, queue)
  BY DEF Typed, Ordered
<1>2. On(m2s, s2m, queue, p.ch) = {} /\ (p.ch = "ndr" => On(m2s, s2m, queue, "drs") = {})
  BY PendingOn
<1>3. s2m' = Append(s2m, p)
  BY <1>1, AppendIsConcat DEF Carried
<1>4. Orderly(m2s, s2m', queue) /\ Shifts(m2s, s2m, queue, m2s, s2m', queue, p.ch, {p})
  BY <1>1, <1>2, <1>3, SendUp
<1> QED
  BY <1>4, PendingOn DEF Ordered, Changes, Shifts

\* The receiver of a channel takes its packet, and nothing else happens.
LEMMA Pops ==
  ASSUME Typed, Ordered, NEW ch \in DOMAIN Channel, queue[ch] # <<>>, Pop(ch),
         UNCHANGED <<m2s, s2m>>
  PROVE  /\ Ordered' /\ Changes(ch, {}) /\ queue'[ch] = <<>>
         /\ Pending(ch) = {Head(queue[ch])} /\ Head(queue[ch]) \in Channel[ch]
<1>1. Carried(m2s, s2m, queue) /\ Orderly(m2s, s2m, queue)
  BY DEF Typed, Ordered
<1>2. /\ Orderly(m2s, s2m, queue')
      /\ InFront(m2s, s2m, queue, ch)
      /\ Shifts(m2s, s2m, queue, m2s, s2m, queue', ch, {})
  BY <1>1, Take DEF Pop
<1>3. Tail(queue[ch]) = <<>>
  BY <1>1, Single DEF Carried, Orderly
<1>4. queue'[ch] = <<>>
  BY <1>1, <1>3 DEF Pop, Carried
<1> QED
  BY <1>2, <1>4, PendingOn DEF Ordered, Changes, Shifts, InFront

LEMMA InQueue ==
  ASSUME Typed, Ordered, NEW ch \in DOMAIN Channel, queue[ch] # <<>>
  PROVE  Pending(ch) = {Head(queue[ch])} /\ Head(queue[ch]) \in Channel[ch] /\ Pending(ch) # {}
<1>1. Carried(m2s, s2m, queue) /\ Orderly(m2s, s2m, queue)
  BY DEF Typed, Ordered
<1> DEFINE r == [queue EXCEPT ![ch] = Tail(@)]
<1>2. InFront(m2s, s2m, queue, ch)
  BY <1>1, Take
<1> QED
  BY <1>2, PendingOn DEF InFront

\* The device answers a request: it takes the packet of channel ch and sends.
LEMMA DcohAnswers ==
  ASSUME Typed, Ordered, NEW ch \in DOMAIN Channel, queue[ch] # <<>>, Pop(ch),
         UNCHANGED m2s, NEW p \in S2M, s2m' = s2m \o <<p>>, p.ch # ch,
         Pending(p.ch) = {}, p.ch = "ndr" => Pending("drs") = {}
  PROVE  Ordered' /\ Exchanges(ch, p)
<1>1. Carried(m2s, s2m, queue) /\ Orderly(m2s, s2m, queue)
  BY DEF Typed, Ordered
<1>2. /\ Carried(m2s, s2m, queue') /\ Orderly(m2s, s2m, queue')
      /\ Shifts(m2s, s2m, queue, m2s, s2m, queue', ch, {})
  BY <1>1, Take DEF Pop
<1>3. p.ch \in DOMAIN Channel /\ "drs" \in DOMAIN Channel
  BY ChannelOf, ChannelNames DEF Up
<1>4. On(m2s, s2m, queue', p.ch) = {} /\ (p.ch = "ndr" => On(m2s, s2m, queue', "drs") = {})
  BY <1>2, <1>3, PendingOn DEF Shifts
<1>5. s2m' = Append(s2m, p)
  BY <1>1, AppendIsConcat DEF Carried
<1>6. /\ Orderly(m2s, s2m', queue')
      /\ Shifts(m2s, s2m, queue', m2s, s2m', queue', p.ch, {p})
  BY <1>2, <1>4, <1>5, SendUp
<1> QED
  BY <1>2, <1>6, PendingOn DEF Ordered, Shifts, Exchanges

\* The same with data behind the completion.
LEMMA DcohAnswersData ==
  ASSUME Typed, Ordered, queue["req"] # <<>>, Pop("req"), UNCHANGED m2s,
         NEW n \in S2MNDR, NEW d \in S2MDRS, s2m' = s2m \o <<n, d>>,
         Pending("ndr") = {}, Pending("drs") = {}
  PROVE  Ordered' /\ ExchangesData(n, d)
<1>1. Carried(m2s, s2m, queue) /\ Orderly(m2s, s2m, queue)
  BY DEF Typed, Ordered
<1>2. {"req", "ndr", "drs"} \subseteq DOMAIN Channel
  BY ChannelNames DEF Up, Down
<1>3. /\ Carried(m2s, s2m, queue') /\ Orderly(m2s, s2m, queue')
      /\ Shifts(m2s, s2m, queue, m2s, s2m, queue', "req", {})
  BY <1>1, <1>2, Take DEF Pop
<1>4. n \in S2M /\ d \in S2M /\ n.ch = "ndr" /\ d.ch = "drs"
  BY DEF S2M, S2MNDR, S2MDRS
<1>5. On(m2s, s2m, queue', "ndr") = {} /\ On(m2s, s2m, queue', "drs") = {}
  BY <1>2, <1>3, PendingOn DEF Shifts
<1> DEFINE r == Append(s2m, n)
<1>6. s2m' = Append(r, d)
  <2>1. s2m \in Seq(S2M)
    BY <1>1 DEF Carried
  <2> QED
    BY <1>4, <2>1
<1>10. r = Append(s2m, n)
  OBVIOUS
<1> HIDE DEF r
<1>7. /\ Carried(m2s, r, queue') /\ Orderly(m2s, r, queue')
      /\ Shifts(m2s, s2m, queue', m2s, r, queue', n.ch, {n})
  BY <1>3, <1>4, <1>5, <1>10, SendUp
<1>8. On(m2s, r, queue', "drs") = {}
  BY <1>2, <1>4, <1>5, <1>7 DEF Shifts
<1>9. Orderly(m2s, s2m', queue') /\ Shifts(m2s, r, queue', m2s, s2m', queue', "drs", {d})
  <2>1. Carried(m2s, r, queue') /\ Orderly(m2s, r, queue')
    BY <1>7
  <2>2. d \in S2M /\ On(m2s, r, queue', d.ch) = {} /\ d.ch # "ndr"
    BY <1>4, <1>8
  <2>3. Orderly(m2s, s2m', queue') /\ Shifts(m2s, r, queue', m2s, s2m', queue', d.ch, {d})
    BY <1>6, <2>1, <2>2, SendUp
  <2> QED
    BY <1>4, <2>3
<1> QED
  BY <1>3, <1>4, <1>7, <1>9, PendingOn DEF Ordered, Shifts, ExchangesData

\* Receiving moves packets and changes none.
LEMMA ReceivesKeep ==
  ASSUME Typed, Ordered, HaReceive \/ DcohReceive
  PROVE  Ordered' /\ Settled
<1>1. Carried(m2s, s2m, queue) /\ Orderly(m2s, s2m, queue)
  BY DEF Typed, Ordered
<1>2. CASE HaReceive
  <2>1. Orderly(m2s, s2m', queue') /\ Stays(m2s, s2m, queue, m2s, s2m', queue')
    BY <1>1, <1>2, ReceiveUp DEF HaReceive
  <2> QED
    BY <1>2, <2>1, PendingOn DEF HaReceive, Ordered, Stays, Settled
<1>3. CASE DcohReceive
  <2>1. Orderly(m2s', s2m, queue') /\ Stays(m2s, s2m, queue, m2s', s2m, queue')
    BY <1>1, <1>3, ReceiveDown DEF DcohReceive
  <2> QED
    BY <1>3, <2>1, PendingOn DEF DcohReceive, Ordered, Stays, Settled
<1> QED
  BY <1>2, <1>3

LEMMA StillLinks ==
  ASSUME UNCHANGED links
  PROVE  (Ordered => Ordered') /\ Settled
BY DEF links, Ordered, Pending, Sent, Settled

----------------------------------------------------------------------------
(* The exchange of packets: an invariant.                                  *)

\* No line is read by both processors.
LoadsApart == Loads[Host] \cap Loads[Device] = {}

\* What the loops keep, beyond their types
HaShape ==
  /\ ha.part \in {"take", "ndr"}
  /\ ha.state = "START" => ha.part = "take"
  /\ ha.sched <=> ha.state = "WAIT" /\ ha.src = Device
  /\ ha.state # "INIT" =>
       \/ ha.src = Host /\ ha.type \in RequestType
       \/ ha.src = Device /\ ha.type \in {"BISNP_DATA", "BISNP_INV"}
DcohShape == dcoh.state = "WAIT" => dcoh.packet.type \in Snoops

\* HomeAgent waits for the answer to a request of the host's, or for the
\* completion of a write: of a write-back, or of what a snoop found.
Fetching == ha.state = "WAIT" /\ ha.src = Host /\ ha.type \in Snoops
Writing  == ha.state = "WAIT" /\ ~Fetching

Fetch == [ch |-> "req", opcode |-> IF ha.type = "SNP_DATA" THEN "MEM_RD" ELSE "MEM_INV",
          addr |-> ha.addr]
Grant(n)   == /\ n.any = (ha.type = "SNP_DATA")
              /\ n.opcode \in IF ha.type = "SNP_DATA" THEN {"CMP_S", "CMP_E"} ELSE {"CMP_E"}
Completion == [ch |-> "ndr", opcode |-> "CMP", any |-> FALSE]

\* The request is under way, or the whole answer.
Exchange ==
  /\ ha.state # "WAIT" =>
       Pending("req") = {} /\ Pending("rwd") = {} /\ Pending("ndr") = {} /\ Pending("drs") = {}
  /\ Fetching =>
       /\ Pending("rwd") = {}
       /\ \/ Pending("req") = {Fetch} /\ Pending("ndr") = {} /\ Pending("drs") = {}
          \/ /\ Pending("req") = {}
             /\ \E n \in S2MNDR : Pending("ndr") = {n} /\ Grant(n)
             /\ IF ha.type = "SNP_DATA" THEN \E d \in S2MDRS : Pending("drs") = {d}
                                        ELSE Pending("drs") = {}
  /\ Writing =>
       /\ Pending("req") = {} /\ Pending("drs") = {}
       /\ \/ /\ \E w \in M2SRwD : Pending("rwd") = {w} /\ w.addr = ha.addr
             /\ Pending("ndr") = {}
          \/ Pending("rwd") = {} /\ Pending("ndr") = {Completion}

\* HomeAgent has the device's snoop.
Snooping == ha.state # "INIT" /\ ha.src = Device

BISnpOf(r) == [ch |-> "bisnp", addr |-> r.addr, opcode |-> BISnpOpcode(r.type)]

\* The device's snoop is under way, with HomeAgent, or answered; and it is
\* answered when no request of the host's can be served before the answer.
SnoopExchange ==
  /\ dcoh.state # "WAIT" => Pending("bisnp") = {} /\ ~Snooping /\ Pending("birsp") = {}
  /\ dcoh.state = "WAIT" =>
       \/ Pending("bisnp") = {BISnpOf(dcoh.packet)} /\ ~Snooping /\ Pending("birsp") = {}
       \/ /\ Pending("bisnp") = {} /\ Snooping /\ Pending("birsp") = {}
          /\ ha.addr = dcoh.packet.addr /\ ha.type = BISnpOpcode(dcoh.packet.type)
       \/ Pending("bisnp") = {} /\ ~Snooping /\ \E r \in M2SBIRsp : Pending("birsp") = {r}
  /\ dcoh.state = "WAIT" /\ dcoh.part = "req" => Pending("birsp") = {}
  /\ Pending("birsp") # {} => ~(Fetching /\ Pending("ndr") # {})

\* The coherence agent of a works on a request of its controller.
Serves(a) ==
  IF a = Host THEN /\ ha.state # "INIT" /\ ha.src = Host
                   /\ ha.state = "WAIT" => ha.type \in Snoops
              ELSE dcoh.state # "INIT"
ServedType(a) == IF a = Host THEN ha.type ELSE dcoh.packet.type
ServedAddr(a) == IF a = Host THEN ha.addr ELSE dcoh.packet.addr

\* The suspended load or store of a waits for the answer to a request.
Awaits(a, type, x) ==
  \/ proc[a].pc = "flush" /\ type \in Writes    /\ x = proc[a].victim
  \/ proc[a].pc = "fill"  /\ type = "SNP_DATA" /\ x = proc[a].addr /\ x \in Loads[a]
  \/ proc[a].pc = "own"   /\ type = "SNP_INV"  /\ x = proc[a].addr

Paired(a) ==
  \/ proc[a] = Idle /\ request[a] = <<>> /\ ~Serves(a)
  \/ Len(request[a]) = 1 /\ ~Serves(a) /\ Awaits(a, request[a][1].type, request[a][1].addr)
  \/ request[a] = <<>> /\ Serves(a) /\ Awaits(a, ServedType(a), ServedAddr(a))

\* A controller has a line exclusive only after its processor read the line.
ProgramOf(a) ==
  /\ Paired(a)
  /\ proc[a] # Idle /\ proc[a].op = "load" => proc[a].addr \in Loads[a]
  /\ \A x \in Addrs : cache[a][x].state = "E" => x \in Loads[a]
Programs == \A a \in Agents : ProgramOf(a)

\* The host's write-back of x waits to be sent.
ToWrite(x) ==
  \/ request[Host] # <<>> /\ request[Host][1].type \in Writes /\ request[Host][1].addr = x
  \/ ha.state = "START" /\ ha.src = Host /\ ha.type \in Writes /\ ha.addr = x

\* A line the host is about to write back and no longer holds has left the
\* snoop filter, or will before the device is done with its snoop.
NoSecondSnoop ==
  \A x \in Addrs : ToWrite(x) /\ ~Valid(Host, x) =>
    /\ x \notin sf \/ (Snooping /\ ha.state = "WAIT" /\ ha.addr = x /\ Pending("rwd") # {})
    /\ \A p \in Pending("bisnp") : p.addr # x
    /\ ~(Snooping /\ ha.state = "START" /\ ha.addr = x)

Pipes    == Ordered /\ HaShape /\ DcohShape /\ Exchange /\ SnoopExchange
Rest     == Pipes /\ Programs /\ NoSecondSnoop
Protocol == Typed /\ Rest

----------------------------------------------------------------------------
(* What the steps do to the programs.                                      *)

LEMMA FirstPut ==
  ASSUME NEW e
  PROVE  Append(<<>>, e) = <<e>> /\ Len(<<e>>) = 1 /\ <<e>>[1] = e /\ Head(<<e>>) = e
OBVIOUS

\* What a controller and its coherence agent have of a request.
Untouched(a) ==
  /\ cache'[a] = cache[a] /\ proc'[a] = proc[a] /\ request'[a] = request[a]
ServesSame(a) ==
  /\ Serves(a)' <=> Serves(a)
  /\ Serves(a) => ServedType(a)' = ServedType(a) /\ ServedAddr(a)' = ServedAddr(a)

LEMMA ProgramStays ==
  ASSUME NEW a \in Agents, ProgramOf(a), Untouched(a), ServesSame(a)
  PROVE  ProgramOf(a)'
BY DEF ProgramOf, Paired, Awaits, Untouched, ServesSame

LEMMA ProgramSnooped ==
  ASSUME NEW a \in Agents, Typed, ProgramOf(a), NEW type, NEW x \in Addrs, Snoop(a, type, x),
         UNCHANGED <<proc, request>>, ServesSame(a)
  PROVE  ProgramOf(a)' /\ (\A b \in Agents : b # a => Untouched(b))
<1>1. cache \in [Agents -> [Addrs -> CacheBlock]]
  BY DEF Typed, ControllersTypeOK
<1>2. \A y \in Addrs : cache'[a][y].state = "E" => cache[a][y].state = "E"
  BY <1>1 DEF Snoop, Invalid
<1>3. Paired(a)' /\ proc'[a] = proc[a]
  BY DEF ProgramOf, Paired, Awaits, ServesSame
<1>4. \A b \in Agents : b # a => Untouched(b)
  BY <1>1 DEF Snoop, Untouched
<1> QED
  BY <1>2, <1>3, <1>4 DEF ProgramOf

\* The coherence agent takes the request of its controller.
LEMMA ProgramTaken ==
  ASSUME NEW a \in Agents, Typed, ProgramOf(a), request[a] # <<>>,
         request' = [request EXCEPT ![a] = Tail(@)], UNCHANGED <<cache, proc>>,
         Serves(a)', ServedType(a)' = Head(request[a]).type, ServedAddr(a)' = Head(request[a]).addr
  PROVE  ProgramOf(a)' /\ (\A b \in Agents : b # a => Untouched(b))
<1>1. request \in [Agents -> Seq(CacheRequest)]
  BY DEF Typed, ControllersTypeOK
<1>2. Len(request[a]) = 1 /\ Awaits(a, request[a][1].type, request[a][1].addr)
  BY DEF ProgramOf, Paired
<1>3. Head(request[a]) = request[a][1] /\ Tail(request[a]) = <<>>
  <2>1. request[a] \in Seq(CacheRequest) /\ \A n : n = 1 => n <= 1
    BY <1>1
  <2>2. Tail(request[a]) = <<>>
    BY <1>2, <2>1, Single
  <2> QED
    BY <2>1, <2>2
<1>4. request'[a] = <<>>
  BY <1>1, <1>3
<1>5. Paired(a)'
  BY <1>2, <1>3, <1>4 DEF Paired, Awaits
<1>6. \A b \in Agents : b # a => Untouched(b)
  BY <1>1 DEF Untouched
<1> QED
  BY <1>5, <1>6 DEF ProgramOf

\* The controller asks for a line.
LEMMA ProgramAsks ==
  ASSUME NEW a \in Agents, Typed, request[a] = <<>>, NEW op \in {"load", "store"}, NEW x, NEW v,
         Ask(a, op, x, v), op = "load" => x \in Loads[a], ~Serves(a)',
         \A y \in Addrs : cache'[a][y].state = "E" => y \in Loads[a]
  PROVE  /\ ProgramOf(a)' /\ request'[a] # <<>> /\ request'[a][1].type \in Snoops
         /\ \A b \in Agents : b # a => proc'[b] = proc[b] /\ request'[b] = request[b]
<1>1. request \in [Agents -> Seq(CacheRequest)] /\ proc \in [Agents -> {Idle} \cup Busy]
  BY DEF Typed, ControllersTypeOK
<1>2. proc'[a] = Asking(op, x, v) /\ request'[a] = <<AskRequest(op, x)>>
  BY <1>1, FirstPut DEF Ask
<1>3. request'[a] # <<>> /\ Len(request'[a]) = 1 /\ request'[a][1] = AskRequest(op, x)
  BY <1>2, FirstPut
<1>4. AskRequest(op, x).type \in Snoops
  BY DEF AskRequest, Snoops
<1>5. proc'[a].op = op /\ proc'[a].addr = x /\ proc'[a].pc = IF op = "load" THEN "fill" ELSE "own"
  BY <1>2 DEF Asking
<1>6. Awaits(a, AskRequest(op, x).type, AskRequest(op, x).addr)'
  BY <1>5 DEF Awaits, AskRequest
<1>7. Paired(a)'
  BY <1>3, <1>6 DEF Paired
<1>8. \A b \in Agents : b # a => proc'[b] = proc[b] /\ request'[b] = request[b]
  BY <1>1 DEF Ask
<1> QED
  BY <1>3, <1>4, <1>5, <1>7, <1>8 DEF ProgramOf

\* The coherence agent answers: the program ends or asks for its own line.
LEMMA ProgramAnswered ==
  ASSUME NEW a \in Agents, Typed, ProgramOf(a), Serves(a), NEW status, NEW data,
         Respond(a, status, data), ~Serves(a)'
  PROVE  /\ ProgramOf(a)' /\ (request'[a] # <<>> => request'[a][1].type \in Snoops)
         /\ \A b \in Agents : b # a => Untouched(b)
<1>1. /\ request \in [Agents -> Seq(CacheRequest)] /\ proc \in [Agents -> {Idle} \cup Busy]
      /\ cache \in [Agents -> [Addrs -> CacheBlock]]
  BY DEF Typed, ControllersTypeOK
<1>2. request[a] = <<>> /\ Awaits(a, ServedType(a), ServedAddr(a))
  BY DEF ProgramOf, Paired
<1>3. proc[a] \in Busy
  BY <1>1 DEF Respond, Idle
<1>4. /\ proc[a].op \in {"load", "store"} /\ proc[a].addr \in Addrs /\ proc[a].victim \in Addrs
      /\ proc[a].op = "load" => proc[a].addr \in Loads[a]
      /\ \A y \in Addrs : cache[a][y].state = "E" => y \in Loads[a]
  BY <1>1, <1>3, ConstantTypes DEF Busy, ProgramOf
<1>5. CASE proc[a].pc = "flush"
  <2>1. /\ cache' = [cache EXCEPT ![a][proc[a].victim] = Invalid]
        /\ Ask(a, proc[a].op, proc[a].addr, proc[a].val)
    BY <1>5 DEF Respond
  <2>2. \A y \in Addrs : cache'[a][y].state = "E" => y \in Loads[a]
    BY <1>1, <1>4, <2>1 DEF Invalid
  <2>3. \A b \in Agents : b # a => cache'[b] = cache[b]
    BY <1>1, <2>1
  <2> QED
    BY <1>2, <1>4, <2>1, <2>2, <2>3, ProgramAsks DEF Untouched
<1>6. CASE proc[a].pc \in {"fill", "own"}
  <2>1. proc' = [proc EXCEPT ![a] = Idle] /\ request' = request
    BY <1>6 DEF Respond
  <2>2. proc'[a] = Idle /\ request'[a] = <<>> /\ Paired(a)'
    BY <1>1, <1>2, <2>1 DEF Paired
  <2>3. /\ \A y \in Addrs : cache'[a][y].state = "E" => y \in Loads[a]
        /\ \A b \in Agents : b # a => cache'[b] = cache[b]
    <3>1. CASE proc[a].pc = "fill"
      <4>1. cache' = [cache EXCEPT ![a][proc[a].addr] =
                       [state |-> FillState(status), data |-> data]]
        BY <3>1 DEF Respond
      <4>2. proc[a].addr \in Loads[a]
        BY <1>2, <3>1 DEF Awaits
      <4> QED
        BY <1>1, <1>4, <4>1, <4>2
    <3>2. CASE proc[a].pc = "own"
      <4>1. cache' = [cache EXCEPT ![a][proc[a].addr] = [state |-> "M", data |-> proc[a].val]]
        BY <3>2 DEF Respond, Commit
      <4> QED
        BY <1>1, <1>4, <4>1
    <3> QED
      BY <1>6, <3>1, <3>2
  <2>4. \A b \in Agents : b # a => Untouched(b)
    BY <1>1, <2>1, <2>3 DEF Untouched
  <2> QED
    BY <2>2, <2>3, <2>4 DEF ProgramOf
<1> QED
  BY <1>5, <1>6 DEF Respond

\* A processor puts a request only when it has none, and its write-back is of
\* a line it holds.
LEMMA ProgramRuns ==
  ASSUME NEW a \in Agents, Typed, ProgramOf(a), Processor(a)
  PROVE  /\ ProgramOf(a)' /\ (\A b \in Agents : b # a => Untouched(b))
         /\ request'[a] # request[a] => ~Serves(a)
         /\ request'[a] # <<>> /\ request'[a][1].type \in Writes =>
              Valid(a, request[a][1].addr)'
         /\ \A x \in Addrs : Valid(a, x) => Valid(a, x)'
<1>1. /\ request \in [Agents -> Seq(CacheRequest)] /\ proc \in [Agents -> {Idle} \cup Busy]
      /\ cache \in [Agents -> [Addrs -> CacheBlock]]
  BY DEF Typed, ControllersTypeOK
<1>2. UNCHANGED <<ha, dcoh>>
  BY DEF Processor
<1>3. proc[a] = Idle /\ request[a] = <<>> /\ ~Serves(a) /\ ~Serves(a)'
  <2>1. proc[a] = Idle
    BY DEF Processor, Load, Store
  <2>2. request[a] = <<>> /\ ~Serves(a)
    BY <2>1 DEF ProgramOf, Paired, Awaits, Idle
  <2> QED
    BY <1>2, <2>1, <2>2 DEF Serves
<1>4. \A y \in Addrs : cache[a][y].state = "E" => y \in Loads[a]
  BY DEF ProgramOf
<1> DEFINE Goal == /\ ProgramOf(a)' /\ (\A b \in Agents : b # a => Untouched(b))
                   /\ request'[a] # <<>> /\ request'[a][1].type \in Writes =>
                        Valid(a, request[a][1].addr)'
                   /\ \A x \in Addrs : Valid(a, x) => Valid(a, x)'
<1>5. ASSUME NEW op \in {"load", "store"}, NEW x \in Addrs, NEW v, Ask(a, op, x, v),
             op = "load" => x \in Loads[a], UNCHANGED cache
      PROVE  Goal
  <2>1. /\ ProgramOf(a)' /\ request'[a] # <<>> /\ request'[a][1].type \in Snoops
        /\ \A b \in Agents : b # a => proc'[b] = proc[b] /\ request'[b] = request[b]
    BY <1>3, <1>4, <1>5, ProgramAsks
  <2> QED
    BY <1>5, <2>1 DEF Untouched, Snoops, Writes, Valid
<1>6. ASSUME NEW op \in {"load", "store"}, NEW x \in Addrs, NEW v, Flush(a, op, x, v),
             op = "load" => x \in Loads[a], UNCHANGED cache
      PROVE  Goal
  <2>1. PICK y \in {z \in Addrs : Valid(a, z)} :
          /\ proc' = [proc EXCEPT ![a] = [pc |-> "flush", op |-> op, addr |-> x,
                                          val |-> v, victim |-> y]]
          /\ request' = [request EXCEPT ![a] =
                           Append(@, [type |-> WriteBackType(cache[a][y].state),
                                      addr |-> y, data |-> cache[a][y].data])]
    BY <1>6 DEF Flush
  <2> DEFINE r == [type |-> WriteBackType(cache[a][y].state),
                   addr |-> y, data |-> cache[a][y].data]
  <2>2. proc'[a] = [pc |-> "flush", op |-> op, addr |-> x, val |-> v, victim |-> y]
    BY <1>1, <2>1
  <2>3. request'[a] = <<r>>
    BY <1>1, <1>3, <2>1, FirstPut
  <2>4. r.type \in Writes /\ r.addr = y
    BY DEF WriteBackType, Writes
  <2> HIDE DEF r
  <2>5. Len(request'[a]) = 1 /\ request'[a][1] = r
    BY <2>3, FirstPut
  <2>6. Paired(a)'
    BY <1>3, <2>2, <2>4, <2>5 DEF Paired, Awaits
  <2>7. \A b \in Agents : b # a => Untouched(b)
    BY <1>1, <1>6, <2>1 DEF Untouched
  <2>8. ProgramOf(a)'
    BY <1>4, <1>6, <2>2, <2>6 DEF ProgramOf
  <2>9. \A z \in Addrs : Valid(a, z)' <=> Valid(a, z)
    BY <1>6 DEF Valid
  <2>10. Valid(a, request[a][1].addr)'
    BY <2>4, <2>5, <2>9
  <2> QED
    BY <2>7, <2>8, <2>9, <2>10
<1>7. ASSUME NEW x \in Addrs, NEW v, Commit(a, x, v), UNCHANGED <<proc, request>>
      PROVE  Goal
  <2>1. cache' = [cache EXCEPT ![a][x] = [state |-> "M", data |-> v]]
    BY <1>7 DEF Commit
  <2>2. Paired(a)' /\ proc'[a] = Idle /\ request'[a] = <<>>
    BY <1>3, <1>7 DEF Paired
  <2> QED
    BY <1>1, <1>4, <1>7, <2>1, <2>2 DEF ProgramOf, Untouched, Valid
<1>8. Goal
  <2> HIDE DEF Goal
  <2>1. ASSUME NEW x \in Addrs, Load(a, x) PROVE Goal
    BY <1>5, <1>6, <2>1 DEF Load, Miss
  <2>2. ASSUME NEW x \in Addrs, NEW v \in Values, Store(a, x, v) PROVE Goal
    BY <1>5, <1>6, <1>7, <2>2 DEF Store, Miss
  <2> QED
    BY <2>1, <2>2 DEF Processor
<1> QED
  BY <1>3, <1>8

----------------------------------------------------------------------------
(* The exchange of packets: every step keeps it.                           *)

LEMMA RestParts ==
  ASSUME Typed, Rest
  PROVE  /\ Ordered /\ HaShape /\ DcohShape /\ Exchange /\ SnoopExchange /\ NoSecondSnoop
         /\ ProgramOf(Host) /\ ProgramOf(Device)
         /\ ha \in HaType /\ dcoh \in DcohType
BY ConstantTypes DEF Rest, Pipes, Programs, Typed

LEMMA RestWhole ==
  ASSUME Ordered', HaShape', DcohShape', Exchange', SnoopExchange', NoSecondSnoop',
         ProgramOf(Host)', ProgramOf(Device)'
  PROVE  Rest'
BY DEF Rest, Pipes, Programs, Agents

LEMMA SettledSix ==
  ASSUME Settled
  PROVE  /\ Pending("req")' = Pending("req") /\ Pending("rwd")' = Pending("rwd")
         /\ Pending("birsp")' = Pending("birsp") /\ Pending("ndr")' = Pending("ndr")
         /\ Pending("drs")' = Pending("drs") /\ Pending("bisnp")' = Pending("bisnp")
BY ChannelNames DEF Settled, Up, Down

\* An agent at work has taken its controller's request.
LEMMA AtWork ==
  ASSUME NEW a \in Agents, ProgramOf(a), Serves(a)
  PROVE  request[a] = <<>> /\ Awaits(a, ServedType(a), ServedAddr(a))
BY DEF ProgramOf, Paired

\* What neither coherence agent notices keeps the packets' side of it.
LEMMA PipesStill ==
  ASSUME Typed, Rest, Ordered', Settled, UNCHANGED <<ha, dcoh>>
  PROVE  Pipes'
<1>1. Exchange'
  <2>1. Fetch' = Fetch /\ Fetching' = Fetching /\ Writing' = Writing /\ (\A n : Grant(n)' = Grant(n))
    BY DEF Fetch, Fetching, Writing, Grant
  <2> QED
    BY <2>1, SettledSix, RestParts DEF Exchange
<1>2. SnoopExchange'
  <2>1. Snooping' = Snooping /\ Fetching' = Fetching
    BY DEF Snooping, Fetching
  <2> QED
    BY <2>1, SettledSix, RestParts DEF SnoopExchange
<1> QED
  BY <1>1, <1>2, RestParts DEF Pipes, HaShape, DcohShape

LEMMA ReceivesRest ==
  ASSUME Typed, Rest, HaReceive \/ DcohReceive
  PROVE  Rest'
<1>1. Ordered' /\ Settled
  BY RestParts, ReceivesKeep
<1>2. UNCHANGED <<cache, proc, request, ha, dcoh, sf>>
  BY DEF HaReceive, DcohReceive, controllers
<1>3. Pipes'
  BY <1>1, <1>2, PipesStill
<1>4. ProgramOf(Host)' /\ ProgramOf(Device)'
  BY <1>2, RestParts, ProgramStays, ConstantTypes DEF Untouched, ServesSame, Serves, ServedType, ServedAddr
<1>5. NoSecondSnoop'
  BY <1>1, <1>2, RestParts, SettledSix DEF NoSecondSnoop, ToWrite, Valid, Snooping
<1> QED
  BY <1>3, <1>4, <1>5 DEF Rest, Programs, Agents

LEMMA ProcessorsRest ==
  ASSUME Typed, Rest, NEW a \in Agents, Processor(a)
  PROVE  Rest'
<1>1. UNCHANGED <<links, ha, dcoh, sf>>
  BY DEF Processor
<1>2. Ordered' /\ Settled
  BY <1>1, RestParts, StillLinks
<1>3. Pipes'
  BY <1>1, <1>2, PipesStill
<1>4. ProgramOf(a)
  BY DEF Rest, Programs
<1>5. /\ ProgramOf(a)' /\ (\A b \in Agents : b # a => Untouched(b))
      /\ request'[a] # request[a] => ~Serves(a)
      /\ request'[a] # <<>> /\ request'[a][1].type \in Writes =>
           Valid(a, request[a][1].addr)'
      /\ \A x \in Addrs : Valid(a, x) => Valid(a, x)'
  BY <1>4, ProgramRuns
<1>6. \A b \in Agents : ServesSame(b)
  BY <1>1 DEF ServesSame, Serves, ServedType, ServedAddr
<1>7. Programs'
  <2> SUFFICES ASSUME NEW b \in Agents, b # a PROVE ProgramOf(b)'
    BY <1>5 DEF Programs
  <2>1. ProgramOf(b)
    BY DEF Rest, Programs
  <2>2. Untouched(b) /\ ServesSame(b)
    BY <1>5, <1>6
  <2> QED
    BY <2>1, <2>2, ProgramStays
<1>8. NoSecondSnoop'
  <2> SUFFICES ASSUME NEW x \in Addrs, ToWrite(x)', ~Valid(Host, x)'
               PROVE  ToWrite(x) /\ ~Valid(Host, x)
    <3>1. Snooping' = Snooping
      BY <1>1 DEF Snooping
    <3>2. NoSecondSnoop
      BY RestParts
    <3> QED
      BY <1>1, <1>2, <3>1, <3>2, SettledSix DEF NoSecondSnoop
  <2>1. CASE a = Host
    <3>1. ~Valid(Host, x)
      BY <1>5, <2>1
    <3>2. ~(request'[Host] # <<>> /\ request'[Host][1].type \in Writes /\ request'[Host][1].addr = x)
      BY <1>5, <2>1 DEF Valid
    <3> QED
      BY <1>1, <3>1, <3>2 DEF ToWrite
  <2>2. CASE a # Host
    BY <1>1, <1>5, <2>2, ConstantTypes DEF Untouched, ToWrite, Valid
  <2> QED
    BY <2>1, <2>2
<1> QED
  BY <1>3, <1>7, <1>8 DEF Rest

LEMMA HaTakeHostRest ==
  ASSUME Typed, Rest, HaTakeHost
  PROVE  Rest'
<1> DEFINE r == Head(request[Host])
<1>1. /\ ha.state = "INIT" /\ ha.part = "take" /\ request[Host] # <<>>
      /\ request' = [request EXCEPT ![Host] = Tail(@)]
      /\ UNCHANGED <<cache, proc, links, dcoh, sf>>
  BY DEF HaTakeHost
<1>2. /\ ha'.state = "START" /\ ha'.src = Host /\ ha'.type = r.type /\ ha'.addr = r.addr
      /\ ha'.part = "take" /\ ha'.sched = ha.sched
  BY <1>1, RestParts DEF HaTakeHost, HaType
<1>3. r \in CacheRequest /\ r = request[Host][1]
  <2>1. request[Host] \in Seq(CacheRequest)
    BY ConstantTypes DEF Typed, ControllersTypeOK
  <2> QED
    BY <1>1, <2>1, HeadTailProperties
<1>4. Ordered' /\ Settled
  BY <1>1, RestParts, StillLinks
<1>5. HaShape' /\ DcohShape'
  BY <1>1, <1>2, <1>3, RestParts DEF HaShape, DcohShape, CacheRequest
<1>6. Exchange'
  BY <1>1, <1>2, <1>4, RestParts, SettledSix DEF Exchange, Fetching, Writing
<1>7. SnoopExchange'
  BY <1>1, <1>2, <1>4, RestParts, SettledSix DEF SnoopExchange, Fetching, Snooping
<1>8. Serves(Host)' /\ ServedType(Host)' = r.type /\ ServedAddr(Host)' = r.addr
  BY <1>2 DEF Serves, ServedType, ServedAddr
<1>9. ProgramOf(Host)' /\ Untouched(Device)
  BY <1>1, <1>8, ConstantTypes, RestParts, ProgramTaken
<1>10. ProgramOf(Device)'
  <2>1. ServesSame(Device)
    BY <1>1 DEF ServesSame, Serves, ServedType, ServedAddr
  <2> QED
    BY <1>9, <2>1, ConstantTypes, RestParts, ProgramStays
<1>11. NoSecondSnoop'
  <2>1. request'[Host] = <<>>
    BY <1>8, <1>9, ConstantTypes DEF ProgramOf, Paired
  <2>2. \A x : ToWrite(x)' => ToWrite(x)
    BY <1>1, <1>2, <1>3, <2>1 DEF ToWrite
  <2> QED
    BY <1>1, <1>2, <1>4, <2>2, RestParts, SettledSix DEF NoSecondSnoop, Snooping, Valid
<1> QED
  BY <1>4, <1>5, <1>6, <1>7, <1>9, <1>10, <1>11, RestWhole

LEMMA HaTakeDeviceRest ==
  ASSUME Typed, Rest, HaTakeDevice
  PROVE  Rest'
<1> DEFINE r == Head(queue["bisnp"])
<1>1. /\ ha.state = "INIT" /\ ha.part = "take" /\ queue["bisnp"] # <<>> /\ Pop("bisnp")
      /\ UNCHANGED <<cache, proc, request, m2s, s2m, dcoh, sf>>
  BY DEF HaTakeDevice, controllers
<1>2. /\ ha'.state = "START" /\ ha'.src = Device /\ ha'.type = r.opcode /\ ha'.addr = r.addr
      /\ ha'.part = "take" /\ ha'.sched = ha.sched
  BY <1>1, RestParts DEF HaTakeDevice, HaType
<1>3. /\ Ordered' /\ Changes("bisnp", {})
      /\ Pending("bisnp") = {r} /\ r \in Channel["bisnp"]
  BY <1>1, RestParts, Pops, ChannelNames DEF Up
<1>4. /\ Pending("req")' = Pending("req") /\ Pending("rwd")' = Pending("rwd")
      /\ Pending("birsp")' = Pending("birsp") /\ Pending("ndr")' = Pending("ndr")
      /\ Pending("drs")' = Pending("drs") /\ Pending("bisnp")' = {}
  BY <1>3, ChannelNames DEF Changes, Up, Down
<1>5. r \in S2MBISnp
  BY <1>3 DEF Channel
<1> HIDE DEF r
<1>6. r.opcode \in {"BISNP_DATA", "BISNP_INV"}
  BY <1>5 DEF S2MBISnp
<1>7. HaShape' /\ DcohShape'
  BY <1>1, <1>2, <1>6, RestParts DEF HaShape, DcohShape
<1>8. Exchange'
  BY <1>1, <1>2, <1>4, RestParts DEF Exchange, Fetching, Writing
<1>9. dcoh.state = "WAIT" /\ r = BISnpOf(dcoh.packet)
  BY <1>3, RestParts DEF SnoopExchange
<1>10. r.addr = dcoh.packet.addr /\ r.opcode = BISnpOpcode(dcoh.packet.type)
  BY <1>9 DEF BISnpOf
<1>11. SnoopExchange'
  <2>1. Snooping' /\ ~Fetching'
    BY <1>2 DEF Snooping, Fetching
  <2>2. Pending("birsp") = {}
    BY <1>3, RestParts DEF SnoopExchange
  <2> QED
    BY <1>1, <1>2, <1>4, <1>9, <1>10, <2>1, <2>2 DEF SnoopExchange
<1>12. ProgramOf(Host)' /\ ProgramOf(Device)'
  <2>1. ServesSame(Host) /\ ServesSame(Device)
    BY <1>1, <1>2 DEF ServesSame, Serves, ServedType, ServedAddr
  <2>2. Untouched(Host) /\ Untouched(Device)
    BY <1>1 DEF Untouched
  <2> QED
    BY <2>1, <2>2, RestParts, ProgramStays, ConstantTypes
<1>13. NoSecondSnoop'
  <2>1. \A x : ToWrite(x)' => ToWrite(x)
    BY <1>1, <1>2 DEF ToWrite
  <2>2. \A x : Valid(Host, x)' = Valid(Host, x)
    BY <1>1 DEF Valid
  <2> SUFFICES ASSUME NEW x \in Addrs, ToWrite(x), ~Valid(Host, x)
               PROVE  x \notin sf /\ r.addr # x
    BY <1>1, <1>2, <1>4, <2>1, <2>2 DEF NoSecondSnoop
  <2> QED
    BY <1>1, <1>3, RestParts DEF NoSecondSnoop, Snooping
<1> QED
  BY <1>3, <1>7, <1>8, <1>11, <1>12, <1>13, RestWhole

\* HomeAgent takes the packet of channel ch and sends.
LEMMA HaAnswers ==
  ASSUME Typed, Ordered, NEW ch \in DOMAIN Channel, queue[ch] # <<>>, Pop(ch),
         UNCHANGED s2m, NEW p \in M2S, m2s' = Append(m2s, p), p.ch # ch,
         Pending(p.ch) = {}, p.ch = "birsp" => Pending("req") = {}
  PROVE  Ordered' /\ Exchanges(ch, p)
<1>1. Carried(m2s, s2m, queue) /\ Orderly(m2s, s2m, queue)
  BY DEF Typed, Ordered
<1>2. /\ Carried(m2s, s2m, queue') /\ Orderly(m2s, s2m, queue')
      /\ Shifts(m2s, s2m, queue, m2s, s2m, queue', ch, {})
  BY <1>1, Take DEF Pop
<1>3. p.ch \in DOMAIN Channel /\ "req" \in DOMAIN Channel
  BY ChannelOf, ChannelNames DEF Down
<1>4. On(m2s, s2m, queue', p.ch) = {} /\ (p.ch = "birsp" => On(m2s, s2m, queue', "req") = {})
  BY <1>2, <1>3, PendingOn DEF Shifts
<1>5. /\ Orderly(m2s', s2m, queue')
      /\ Shifts(m2s, s2m, queue', m2s', s2m, queue', p.ch, {p})
  BY <1>2, <1>4, SendDown
<1> QED
  BY <1>2, <1>5, PendingOn DEF Ordered, Shifts, Exchanges

\* HomeAgent takes a completion with its data.
LEMMA HaTakesBoth ==
  ASSUME Typed, Ordered, queue["ndr"] # <<>>, queue["drs"] # <<>>, UNCHANGED <<m2s, s2m>>,
         queue' = [queue EXCEPT !["ndr"] = Tail(@), !["drs"] = Tail(@)]
  PROVE  /\ Ordered'
         /\ \A dh \in DOMAIN Channel :
              Pending(dh)' = IF dh \in {"ndr", "drs"} THEN {} ELSE Pending(dh)
         /\ Tail(queue["drs"]) = <<>>
<1>1. Carried(m2s, s2m, queue) /\ Orderly(m2s, s2m, queue)
  BY DEF Typed, Ordered
<1>2. {"ndr", "drs"} \subseteq DOMAIN Channel /\ DOMAIN queue = DOMAIN Channel
  BY <1>1, ChannelNames DEF Up, Carried
<1> DEFINE r == [queue EXCEPT !["ndr"] = Tail(@)]
<1>3. r["drs"] = queue["drs"] /\ queue' = [r EXCEPT !["drs"] = Tail(@)] /\ r = [queue EXCEPT !["ndr"] = Tail(@)]
  BY <1>2
<1> HIDE DEF r
<1>4. /\ Carried(m2s, s2m, r) /\ Orderly(m2s, s2m, r)
      /\ Shifts(m2s, s2m, queue, m2s, s2m, r, "ndr", {})
  BY <1>1, <1>2, <1>3, Take
<1>5. /\ Orderly(m2s, s2m, queue')
      /\ Shifts(m2s, s2m, r, m2s, s2m, queue', "drs", {})
  BY <1>2, <1>3, <1>4, Take
<1>6. Tail(queue["drs"]) = <<>>
  BY <1>1, <1>2, Single DEF Carried, Orderly
<1> QED
  BY <1>4, <1>5, <1>6, PendingOn DEF Ordered, Shifts

LEMMA ChangesSix ==
  ASSUME NEW ch, NEW S, Changes(ch, S)
  PROVE  /\ Pending("req")' = IF ch = "req" THEN S ELSE Pending("req")
         /\ Pending("rwd")' = IF ch = "rwd" THEN S ELSE Pending("rwd")
         /\ Pending("birsp")' = IF ch = "birsp" THEN S ELSE Pending("birsp")
         /\ Pending("ndr")' = IF ch = "ndr" THEN S ELSE Pending("ndr")
         /\ Pending("drs")' = IF ch = "drs" THEN S ELSE Pending("drs")
         /\ Pending("bisnp")' = IF ch = "bisnp" THEN S ELSE Pending("bisnp")
BY ChannelNames DEF Changes, Up, Down

LEMMA HaHostWriteBackRest ==
  ASSUME Typed, Rest, HaFn, HaHostWriteBack
  PROVE  Rest' /\ Pending("birsp")' = Pending("birsp")
<1> DEFINE w == [ch |-> "rwd", addr |-> ha.addr, data |-> ha.data]
<1>1. /\ ha.state = "START" /\ ha.part = "take" /\ ha.type \in Writes
      /\ Respond(Host, "OK", InitVal) /\ m2s' = Append(m2s, w)
      /\ UNCHANGED <<s2m, queue, dcoh, sf>>
  BY DEF HaFn, HaHostWriteBack, HaSend, Writes
<1>2. /\ ha'.state = "WAIT" /\ ha'.src = ha.src /\ ha'.type = ha.type /\ ha'.addr = ha.addr
      /\ ha'.part = "ndr" /\ ha'.sched = ha.sched
  BY RestParts DEF HaHostWriteBack, AfterWriteBack, HaType
<1>3. w \in M2SRwD /\ w \in M2S /\ w.ch = "rwd" /\ w.addr = ha.addr
  <2>1. ha.addr \in Addrs /\ ha.data \in Values
    BY <1>1, RestParts DEF Typed, Working, HaType
  <2> QED
    BY <2>1 DEF M2SRwD, M2S
<1> HIDE DEF w
<1>4. /\ Pending("req") = {} /\ Pending("rwd") = {} /\ Pending("ndr") = {} /\ Pending("drs") = {}
  BY <1>1, RestParts DEF Exchange
<1>5. Ordered' /\ Changes("rwd", {w})
  <2>1. Pending(w.ch) = {} /\ w.ch # "birsp"
    BY <1>3, <1>4
  <2>2. Ordered' /\ Changes(w.ch, {w})
    BY <1>1, <1>3, <2>1, RestParts, HaSends
  <2> QED
    BY <1>3, <2>2
<1>6. ha.src = Host /\ ~ha.sched
  BY <1>1, RestParts DEF HaShape, Writes
<1>7. HaShape' /\ DcohShape'
  BY <1>1, <1>2, <1>6, RestParts DEF HaShape, DcohShape
<1>8. Exchange'
  <2>1. Writing' /\ ~Fetching'
    BY <1>1, <1>2 DEF Writing, Fetching, Snoops, Writes
  <2> QED
    BY <1>2, <1>3, <1>4, <1>5, <2>1, ChangesSix DEF Exchange
<1>9. SnoopExchange'
  <2>1. ~Snooping /\ ~Snooping' /\ ~Fetching'
    BY <1>1, <1>2, <1>6 DEF Snooping, Fetching, Snoops, Writes
  <2> QED
    BY <1>1, <1>5, <2>1, RestParts, ChangesSix DEF SnoopExchange
<1>10. Serves(Host) /\ ~Serves(Host)'
  BY <1>1, <1>2, <1>6 DEF Serves, Snoops, Writes
<1>11. /\ ProgramOf(Host)' /\ (request'[Host] # <<>> => request'[Host][1].type \in Snoops)
       /\ Untouched(Device)
  BY <1>1, <1>10, RestParts, ProgramAnswered, ConstantTypes
<1>12. ProgramOf(Device)'
  <2>1. ServesSame(Device)
    BY <1>1 DEF ServesSame, Serves, ServedType, ServedAddr
  <2> QED
    BY <1>11, <2>1, ConstantTypes, RestParts, ProgramStays
<1>13. NoSecondSnoop'
  <2>1. \A x : ~ToWrite(x)'
    BY <1>2, <1>11 DEF ToWrite, Snoops, Writes
  <2> QED
    BY <2>1 DEF NoSecondSnoop
<1>14. Pending("birsp")' = Pending("birsp")
  BY <1>5, ChangesSix
<1> QED
  BY <1>14, <1>5, <1>7, <1>8, <1>9, <1>11, <1>12, <1>13, RestWhole

LEMMA HaHostRequestRest ==
  ASSUME Typed, Rest, HaFn, HaHostRequest
  PROVE  Rest' /\ Pending("birsp")' = Pending("birsp") /\ Pending("ndr")' = {}
<1>1. /\ ha.state = "START" /\ ha.part = "take" /\ ha.type \in Snoops
      /\ m2s' = Append(m2s, Fetch)
      /\ UNCHANGED <<cache, proc, request, s2m, queue, dcoh, sf>>
  BY DEF HaFn, HaHostRequest, HaSend, Snoops, Fetch, controllers
<1>2. /\ ha'.state = "WAIT" /\ ha'.src = ha.src /\ ha'.type = ha.type /\ ha'.addr = ha.addr
      /\ ha'.part = "ndr" /\ ha'.sched = ha.sched
  BY RestParts DEF HaHostRequest, HaType
<1>3. Fetch \in M2S /\ Fetch.ch = "req" /\ Fetch' = Fetch
  <2>1. ha.addr \in Addrs
    BY <1>1, RestParts DEF Typed, Working, HaType
  <2> QED
    BY <1>2, <2>1, PacketTypes DEF Fetch
<1>4. /\ Pending("req") = {} /\ Pending("rwd") = {} /\ Pending("ndr") = {} /\ Pending("drs") = {}
  BY <1>1, RestParts DEF Exchange
<1>5. Ordered' /\ Changes("req", {Fetch})
  <2>1. Pending(Fetch.ch) = {} /\ Fetch.ch # "birsp"
    BY <1>3, <1>4
  <2>2. Ordered' /\ Changes(Fetch.ch, {Fetch})
    BY <1>1, <1>3, <2>1, RestParts, HaSends
  <2> QED
    BY <1>3, <2>2
<1>6. ha.src = Host /\ ~ha.sched
  BY <1>1, RestParts DEF HaShape, Snoops
<1>7. HaShape' /\ DcohShape'
  BY <1>1, <1>2, <1>6, RestParts DEF HaShape, DcohShape
<1>8. Exchange'
  <2>1. ~Writing' /\ Fetching'
    BY <1>1, <1>2, <1>6 DEF Writing, Fetching
  <2> QED
    BY <1>2, <1>3, <1>4, <1>5, <2>1, ChangesSix DEF Exchange
<1>9. SnoopExchange'
  <2>1. ~Snooping /\ ~Snooping'
    BY <1>1, <1>2, <1>6 DEF Snooping
  <2> QED
    BY <1>1, <1>4, <1>5, <2>1, RestParts, ChangesSix DEF SnoopExchange
<1>10. ProgramOf(Host)' /\ ProgramOf(Device)'
  <2>1. ServesSame(Host) /\ ServesSame(Device)
    BY <1>1, <1>2, <1>6 DEF ServesSame, Serves, ServedType, ServedAddr
  <2>2. Untouched(Host) /\ Untouched(Device)
    BY <1>1 DEF Untouched
  <2> QED
    BY <2>1, <2>2, RestParts, ProgramStays, ConstantTypes
<1>11. NoSecondSnoop'
  <2>1. \A x : (ToWrite(x)' => ToWrite(x)) /\ Valid(Host, x)' = Valid(Host, x)
    BY <1>1, <1>2 DEF ToWrite, Valid
  <2>2. ~Snooping /\ ~Snooping'
    BY <1>1, <1>2, <1>6 DEF Snooping
  <2> QED
    BY <1>1, <1>5, <2>1, <2>2, RestParts, ChangesSix DEF NoSecondSnoop
<1>12. Pending("birsp")' = Pending("birsp") /\ Pending("ndr")' = {}
  BY <1>4, <1>5, ChangesSix
<1> QED
  BY <1>12, <1>5, <1>7, <1>8, <1>9, <1>10, <1>11, RestWhole

LEMMA HaBISnpRest ==
  ASSUME Typed, Rest, HaFn, HaBISnp
  PROVE  Rest'
<1> DEFINE type   == IF ha.type = "BISNP_DATA" THEN "SNP_DATA" ELSE "SNP_INV"
           block  == cache[Host][ha.addr]
           status == SnoopStatus(type, block.state)
           w      == [ch |-> "rwd", addr |-> ha.addr, data |-> block.data]
           b      == [ch |-> "birsp", opcode |-> "BIRSP_I"]
<1>1. /\ ha.state = "START" /\ ha.part = "take" /\ ha.type \in {"BISNP_DATA", "BISNP_INV"}
      /\ Snoop(Host, type, ha.addr)
      /\ UNCHANGED <<proc, request, s2m, queue, dcoh, sf>>
  BY DEF HaFn, HaBISnp
<1>2. ha.src = Device /\ ~ha.sched /\ ha.addr \in Addrs
  BY <1>1, RestParts DEF HaShape, RequestType, Typed, Working
<1>3. /\ Pending("req") = {} /\ Pending("rwd") = {} /\ Pending("ndr") = {} /\ Pending("drs") = {}
  BY <1>1, RestParts DEF Exchange
<1>4. /\ Snooping /\ dcoh.state = "WAIT" /\ Pending("bisnp") = {} /\ Pending("birsp") = {}
      /\ ha.addr = dcoh.packet.addr /\ ha.type = BISnpOpcode(dcoh.packet.type)
  <2>1. Snooping
    BY <1>1, <1>2 DEF Snooping
  <2> QED
    BY <2>1, RestParts DEF SnoopExchange
<1>5. dcoh.part # "req"
  <2>1. dcoh.part = "req" => queue["req"] # <<>>
    BY DEF Typed, Working
  <2> QED
    BY <1>3, <2>1, RestParts, InQueue, ChannelNames DEF Down
<1>6. ~Serves(Host) /\ ~Serves(Host)'
  <2>1. ha'.src = ha.src
    BY RestParts DEF HaBISnp, HaType
  <2> QED
    BY <1>2, <2>1 DEF Serves
<1>7. ProgramOf(Host)' /\ Untouched(Device)
  <2>1. ServesSame(Host)
    BY <1>6 DEF ServesSame
  <2> QED
    BY <1>1, <1>2, <2>1, RestParts, ProgramSnooped, ConstantTypes
<1>8. ProgramOf(Device)'
  <2>1. ServesSame(Device)
    BY <1>1 DEF ServesSame, Serves, ServedType, ServedAddr
  <2> QED
    BY <1>7, <2>1, ConstantTypes, RestParts, ProgramStays
<1>9. /\ \A x : ToWrite(x)' => ToWrite(x)
      /\ \A x \in Addrs : x # ha.addr => Valid(Host, x)' = Valid(Host, x)
      /\ ~Valid(Host, ha.addr) => ~Valid(Host, ha.addr)'
  <2>1. ha'.src = ha.src
    BY RestParts DEF HaBISnp, HaType
  <2>2. \A x : ToWrite(x)' => ToWrite(x)
    BY <1>1, <1>2, <2>1 DEF ToWrite
  <2>3. cache \in [Agents -> [Addrs -> CacheBlock]]
    BY DEF Typed, ControllersTypeOK
  <2>4. /\ \A x \in Addrs : x # ha.addr => cache'[Host][x] = cache[Host][x]
        /\ cache[Host][ha.addr].state = "I" => cache'[Host][ha.addr].state = "I"
    BY <1>1, <1>2, <2>3, ConstantTypes DEF Snoop, Invalid
  <2>5. /\ \A x \in Addrs : x # ha.addr => cache'[Host][x].state = cache[Host][x].state
        /\ cache[Host][ha.addr].state = "I" => cache'[Host][ha.addr].state = "I"
    BY <2>4
  <2>6. \A x \in Addrs : Valid(Host, x)' <=> cache'[Host][x].state # "I"
    BY DEF Valid
  <2>7. ~Valid(Host, ha.addr) => ~Valid(Host, ha.addr)'
    <3>1. ha.addr \in Addrs /\ (Valid(Host, ha.addr)' <=> cache'[Host][ha'.addr].state # "I")
      BY <1>2 DEF Valid
    <3>2. ha'.addr = ha.addr
      BY RestParts DEF HaBISnp, HaType
    <3> QED
      BY <2>5, <3>1, <3>2 DEF Valid
  <2> QED
    BY <2>2, <2>5, <2>6, <2>7 DEF Valid
<1>10. CASE status = "RSP_MISS"
  <2>1. /\ m2s' = Append(m2s, b)
        /\ ha'.state = "INIT" /\ ha'.src = ha.src /\ ha'.type = ha.type /\ ha'.addr = ha.addr
        /\ ha'.part = "ndr" /\ ha'.sched = ha.sched
    BY <1>10, RestParts DEF HaBISnp, HaSend, HaType
  <2>2. b \in M2S /\ b \in M2SBIRsp /\ b.ch = "birsp"
    BY DEF M2S, M2SBIRsp
  <2> HIDE DEF b
  <2>3. Ordered' /\ Changes("birsp", {b})
    <3>1. Pending(b.ch) = {} /\ Pending("req") = {}
      BY <1>3, <1>4, <2>2
    <3>2. Ordered' /\ Changes(b.ch, {b})
      BY <1>1, <2>1, <2>2, <3>1, RestParts, HaSends
    <3> QED
      BY <2>2, <3>2
  <2>4. HaShape' /\ DcohShape'
    BY <1>1, <1>2, <2>1, RestParts DEF HaShape, DcohShape
  <2>5. ~Fetching' /\ ~Writing' /\ ~Snooping'
    BY <2>1 DEF Fetching, Writing, Snooping
  <2>6. Exchange'
    BY <1>3, <2>1, <2>3, <2>5, ChangesSix DEF Exchange
  <2>7. SnoopExchange'
    BY <1>1, <1>4, <1>5, <2>2, <2>3, <2>5, ChangesSix DEF SnoopExchange
  <2>8. ~Valid(Host, ha.addr)
    <3>1. block.state # "I" => status # "RSP_MISS"
      <4>1. block.state \in CacheState
        BY <1>2, ConstantTypes DEF Typed, ControllersTypeOK, CacheBlock
      <4> QED
        BY <4>1 DEF SnoopStatus, CacheState
    <3> QED
      BY <1>10, <3>1 DEF Valid
  <2>9. NoSecondSnoop'
    <3> SUFFICES ASSUME NEW x \in Addrs, ToWrite(x)', ~Valid(Host, x)'
                 PROVE  x \notin sf
      BY <1>1, <1>4, <2>3, <2>5, ChangesSix DEF NoSecondSnoop
    <3>1. ToWrite(x) /\ ~Valid(Host, x)
      BY <1>9, <2>8
    <3> QED
      BY <1>1, <3>1, RestParts DEF NoSecondSnoop
  <2> QED
    BY <1>7, <1>8, <2>3, <2>4, <2>6, <2>7, <2>9, RestWhole
<1>11. CASE status # "RSP_MISS"
  <2>1. /\ m2s' = Append(m2s, w)
        /\ ha'.state = "WAIT" /\ ha'.src = ha.src /\ ha'.type = ha.type /\ ha'.addr = ha.addr
        /\ ha'.part = "ndr" /\ ha'.sched = TRUE
    BY <1>11, RestParts DEF HaBISnp, HaSend, HaType
  <2>2. w \in M2S /\ w \in M2SRwD /\ w.ch = "rwd" /\ w.addr = ha.addr
    <3>1. block.data \in Values
      BY <1>2, ConstantTypes DEF Typed, ControllersTypeOK, CacheBlock
    <3> QED
      BY <1>2, <3>1 DEF M2S, M2SRwD
  <2> HIDE DEF w
  <2>3. Ordered' /\ Changes("rwd", {w})
    <3>1. Pending(w.ch) = {} /\ w.ch # "birsp"
      BY <1>3, <2>2
    <3>2. Ordered' /\ Changes(w.ch, {w})
      BY <1>1, <2>1, <2>2, <3>1, RestParts, HaSends
    <3> QED
      BY <2>2, <3>2
  <2>4. HaShape' /\ DcohShape'
    BY <1>1, <1>2, <2>1, RestParts DEF HaShape, DcohShape
  <2>5. ~Fetching' /\ Writing' /\ Snooping'
    BY <1>2, <2>1 DEF Fetching, Writing, Snooping
  <2>6. Exchange'
    BY <1>3, <2>1, <2>2, <2>3, <2>5, ChangesSix DEF Exchange
  <2>7. SnoopExchange'
    BY <1>1, <1>4, <1>5, <2>1, <2>3, <2>5, ChangesSix DEF SnoopExchange
  <2>8. NoSecondSnoop'
    <3>1. Pending("rwd")' # {} /\ Pending("bisnp")' = {}
      BY <1>4, <2>3, ChangesSix
    <3> SUFFICES ASSUME NEW x \in Addrs, ToWrite(x)', ~Valid(Host, x)', x # ha.addr
                 PROVE  x \notin sf
      BY <1>1, <2>1, <2>5, <3>1 DEF NoSecondSnoop
    <3>2. ToWrite(x) /\ ~Valid(Host, x)
      BY <1>9
    <3> QED
      BY <1>1, <3>2, RestParts DEF NoSecondSnoop
  <2> QED
    BY <1>7, <1>8, <2>3, <2>4, <2>6, <2>7, <2>8, RestWhole
<1> QED
  BY <1>10, <1>11

\* What HomeAgent finds when it has a completion to take.
LEMMA AtCompletion ==
  ASSUME Typed, Rest, AtNdr, queue["ndr"] # <<>>
  PROVE  /\ ha.state = "WAIT" /\ Pending("ndr") = {Head(queue["ndr"])}
         /\ Head(queue["ndr"]) \in S2MNDR
         /\ Pending("req") = {} /\ Pending("rwd") = {}
         /\ Fetching => Grant(Head(queue["ndr"]))
         /\ Fetching /\ ha.type # "SNP_DATA" => Pending("drs") = {}
         /\ Writing => Head(queue["ndr"]).opcode = "CMP" /\ Pending("drs") = {}
         /\ Pending("drs") = {} => queue["drs"] = <<>>
<1> DEFINE n == Head(queue["ndr"])
<1>1. "ndr" \in DOMAIN Channel /\ "drs" \in DOMAIN Channel /\ Channel["ndr"] = S2MNDR
  BY ChannelNames DEF Up, Channel
<1>2. Pending("ndr") = {n} /\ n \in S2MNDR
  BY <1>1, RestParts, InQueue
<1> HIDE DEF n
<1>3. ha.state = "WAIT"
  BY <1>2, RestParts DEF Exchange
<1>4. Fetching => /\ Pending("req") = {} /\ Pending("rwd") = {} /\ Grant(n)
                  /\ ha.type # "SNP_DATA" => Pending("drs") = {}
  <2> SUFFICES ASSUME Fetching
               PROVE  /\ Pending("req") = {} /\ Pending("rwd") = {} /\ Grant(n)
                      /\ ha.type # "SNP_DATA" => Pending("drs") = {}
    OBVIOUS
  <2>1. /\ Pending("rwd") = {} /\ Pending("req") = {}
        /\ \E k \in S2MNDR : Pending("ndr") = {k} /\ Grant(k)
        /\ ha.type # "SNP_DATA" => Pending("drs") = {}
    BY <1>2, RestParts DEF Exchange
  <2>2. PICK k \in S2MNDR : Pending("ndr") = {k} /\ Grant(k)
    BY <2>1
  <2>3. k = n
    BY <1>2, <2>2
  <2> QED
    BY <2>1, <2>2, <2>3
<1>5. Writing => /\ Pending("req") = {} /\ Pending("rwd") = {}
                 /\ n.opcode = "CMP" /\ Pending("drs") = {}
  <2> SUFFICES ASSUME Writing
               PROVE  /\ Pending("req") = {} /\ Pending("rwd") = {}
                      /\ n.opcode = "CMP" /\ Pending("drs") = {}
    OBVIOUS
  <2>1. /\ Pending("req") = {} /\ Pending("drs") = {}
        /\ Pending("rwd") = {} /\ Pending("ndr") = {Completion}
    BY <1>2, RestParts DEF Exchange
  <2>2. n = Completion
    BY <1>2, <2>1
  <2> QED
    BY <2>1, <2>2 DEF Completion
<1>6. Fetching \/ Writing
  BY <1>3 DEF Writing
<1>7. Pending("drs") = {} => queue["drs"] = <<>>
  BY <1>1, RestParts, InQueue
<1> QED
  BY <1>2, <1>3, <1>4, <1>5, <1>6, <1>7 DEF n

LEMMA HaCompletionRest ==
  ASSUME Typed, Rest, HaNdr, HaCompletion
  PROVE  Rest' /\ Pending("birsp")' = Pending("birsp")
<1> DEFINE n == Head(queue["ndr"])
           status == IF n.opcode = "CMP_S" THEN "RSP_S" ELSE "RSP_I"
<1>1. /\ AtNdr /\ queue["ndr"] # <<>> /\ n.opcode \in {"CMP_S", "CMP_E"}
      /\ UNCHANGED <<m2s, s2m, dcoh, sf>>
  BY DEF HaNdr, HaCompletion
<1>2. /\ ha.state = "WAIT" /\ Pending("req") = {} /\ Pending("rwd") = {} /\ n \in S2MNDR
      /\ Fetching /\ Grant(n)
      /\ ha.type # "SNP_DATA" => Pending("drs") = {} /\ queue["drs"] = <<>>
  BY <1>1, AtCompletion DEF Writing
<1>3. /\ \E data : Respond(Host, status, data)
      /\ ha'.state = "INIT" /\ ha'.src = ha.src /\ ha'.type = ha.type /\ ha'.addr = ha.addr
      /\ ha'.sched = ha.sched /\ ha'.part = "take"
      /\ Ordered' /\ Pending("ndr")' = {} /\ Pending("drs")' = {} /\ Pending("req")' = {}
      /\ Pending("rwd")' = {}
      /\ Pending("birsp")' = Pending("birsp") /\ Pending("bisnp")' = Pending("bisnp")
  <2>1. CASE n.any
    <3>1. /\ queue["drs"] # <<>> /\ Respond(Host, status, Head(queue["drs"]).data)
          /\ queue' = [queue EXCEPT !["ndr"] = Tail(@), !["drs"] = Tail(@)]
          /\ ha' = [ha EXCEPT !.state = "INIT", !.part = AfterNdr(Tail(queue["drs"]))]
      BY <2>1 DEF HaCompletion
    <3>2. /\ Ordered'
          /\ \A dh \in DOMAIN Channel :
               Pending(dh)' = IF dh \in {"ndr", "drs"} THEN {} ELSE Pending(dh)
          /\ Tail(queue["drs"]) = <<>>
      BY <1>1, <3>1, RestParts, HaTakesBoth
    <3>3. /\ ha'.state = "INIT" /\ ha'.src = ha.src /\ ha'.type = ha.type /\ ha'.addr = ha.addr
          /\ ha'.sched = ha.sched /\ ha'.part = "take"
      BY <3>1, <3>2, RestParts DEF HaType, AfterNdr
    <3>4. /\ Pending("ndr")' = {} /\ Pending("drs")' = {} /\ Pending("req")' = {}
          /\ Pending("rwd")' = {}
          /\ Pending("birsp")' = Pending("birsp") /\ Pending("bisnp")' = Pending("bisnp")
      BY <1>2, <3>2, ChannelNames DEF Up, Down
    <3>5. \E data : Respond(Host, status, data)
      BY <3>1
    <3> QED
      BY <3>2, <3>3, <3>4, <3>5
  <2>2. CASE ~n.any
    <3>1. /\ Respond(Host, status, InitVal) /\ Pop("ndr")
          /\ ha' = [ha EXCEPT !.state = "INIT", !.part = AfterNdr(queue["drs"])]
      BY <2>2 DEF HaCompletion
    <3>2. ha.type # "SNP_DATA"
      BY <1>2, <2>2 DEF Grant
    <3>3. Ordered' /\ Changes("ndr", {})
      BY <1>1, <3>1, RestParts, Pops, ChannelNames DEF Up
    <3>4. /\ ha'.state = "INIT" /\ ha'.src = ha.src /\ ha'.type = ha.type /\ ha'.addr = ha.addr
          /\ ha'.sched = ha.sched /\ ha'.part = "take"
      BY <1>2, <3>1, <3>2, RestParts DEF HaType, AfterNdr
    <3>5. /\ Pending("ndr")' = {} /\ Pending("drs")' = {} /\ Pending("req")' = {}
          /\ Pending("rwd")' = {}
          /\ Pending("birsp")' = Pending("birsp") /\ Pending("bisnp")' = Pending("bisnp")
      BY <1>2, <3>2, <3>3, ChangesSix
    <3>6. \E data : Respond(Host, status, data)
      BY <3>1
    <3> QED
      BY <3>3, <3>4, <3>5, <3>6
  <2> QED
    BY <2>1, <2>2
<1> HIDE DEF n, status
<1>4. HaShape' /\ DcohShape'
  BY <1>1, <1>2, <1>3, RestParts DEF HaShape, DcohShape, Fetching
<1>5. ~Fetching' /\ ~Writing' /\ ~Snooping' /\ ~Snooping
  BY <1>2, <1>3 DEF Fetching, Writing, Snooping
<1>6. Exchange'
  BY <1>3, <1>5 DEF Exchange
<1>7. SnoopExchange'
  BY <1>1, <1>3, <1>5, RestParts DEF SnoopExchange
<1>8. Serves(Host) /\ ~Serves(Host)'
  BY <1>2, <1>3 DEF Serves, Fetching
<1>9. /\ ProgramOf(Host)' /\ (request'[Host] # <<>> => request'[Host][1].type \in Snoops)
      /\ Untouched(Device)
  BY <1>3, <1>8, RestParts, ProgramAnswered, ConstantTypes
<1>10. ProgramOf(Device)'
  <2>1. ServesSame(Device)
    BY <1>1 DEF ServesSame, Serves, ServedType, ServedAddr
  <2> QED
    BY <1>9, <2>1, ConstantTypes, RestParts, ProgramStays
<1>11. NoSecondSnoop'
  <2>1. \A x : ~ToWrite(x)'
    BY <1>3, <1>9 DEF ToWrite, Snoops, Writes
  <2> QED
    BY <2>1 DEF NoSecondSnoop
<1> QED
  BY <1>3, <1>4, <1>6, <1>7, <1>9, <1>10, <1>11, RestWhole

LEMMA HaPlainCompletionRest ==
  ASSUME Typed, Rest, HaNdr, HaPlainCompletion
  PROVE  Rest' /\ (~ha.sched => Pending("birsp")' = Pending("birsp"))
<1> DEFINE n == Head(queue["ndr"])
           b == [ch |-> "birsp", opcode |-> ha.rsp]
<1>1. /\ AtNdr /\ queue["ndr"] # <<>> /\ n.opcode = "CMP" /\ Pop("ndr")
      /\ UNCHANGED <<s2m, dcoh, sf, cache, proc, request>>
  BY DEF HaNdr, HaPlainCompletion, controllers
<1>2. /\ ha.state = "WAIT" /\ Pending("req") = {} /\ Pending("rwd") = {} /\ Pending("drs") = {}
      /\ Writing /\ queue["drs"] = <<>>
  <2>1. ha.state = "WAIT" /\ ~Fetching
    BY <1>1, AtCompletion DEF Grant
  <2>2. Writing
    BY <2>1 DEF Writing
  <2> QED
    BY <1>1, <2>1, <2>2, AtCompletion
<1>3. ha.sched <=> ha.src = Device
  BY <1>2, RestParts DEF HaShape
<1>4. /\ ha'.state = "INIT" /\ ha'.src = ha.src /\ ha'.type = ha.type /\ ha'.addr = ha.addr
      /\ ~ha'.sched /\ ha'.part = "take"
  <2>1. AfterNdr(queue["drs"]) = "take"
    BY <1>2 DEF AfterNdr
  <2>2. CASE ha.sched
    <3>1. ha' = [ha EXCEPT !.state = "INIT", !.part = "take", !.sched = FALSE]
      BY <1>3, <2>1, <2>2 DEF HaPlainCompletion, SchedAfter
    <3> QED
      BY <3>1, RestParts DEF HaType
  <2>3. CASE ~ha.sched
    <3>1. ha' = [ha EXCEPT !.state = "INIT", !.part = "take"]
      BY <2>1, <2>3 DEF HaPlainCompletion
    <3> QED
      BY <2>3, <3>1, RestParts DEF HaType
  <2> QED
    BY <2>2, <2>3
<1>5. HaShape' /\ DcohShape'
  BY <1>1, <1>4, RestParts DEF HaShape, DcohShape
<1>6. ~Fetching' /\ ~Writing' /\ ~Snooping'
  BY <1>4 DEF Fetching, Writing, Snooping
<1>7. ProgramOf(Host)' /\ ProgramOf(Device)'
  <2>1. ~Serves(Host) /\ ~Serves(Host)'
    BY <1>2, <1>4 DEF Serves, Writing, Fetching
  <2>2. ServesSame(Host) /\ ServesSame(Device)
    BY <1>1, <2>1, ConstantTypes DEF ServesSame, Serves, ServedType, ServedAddr
  <2>3. Untouched(Host) /\ Untouched(Device)
    BY <1>1 DEF Untouched
  <2> QED
    BY <2>2, <2>3, RestParts, ProgramStays, ConstantTypes
<1>8. \A x : (ToWrite(x)' => ToWrite(x)) /\ Valid(Host, x)' = Valid(Host, x)
  BY <1>1, <1>4 DEF ToWrite, Valid
<1>9. CASE ha.sched
  <2>1. m2s' = Append(m2s, b)
    BY <1>3, <1>9 DEF HaPlainCompletion, HaSend
  <2>2. b \in M2S /\ b \in M2SBIRsp /\ b.ch = "birsp"
    BY RestParts DEF M2S, M2SBIRsp, HaType
  <2> HIDE DEF b
  <2>3. /\ Snooping /\ dcoh.state = "WAIT" /\ Pending("birsp") = {} /\ Pending("bisnp") = {}
    <3>1. Snooping
      BY <1>2, <1>3, <1>9 DEF Snooping
    <3> QED
      BY <3>1, RestParts DEF SnoopExchange
  <2>4. dcoh.part # "req"
    <3>1. dcoh.part = "req" => queue["req"] # <<>>
      BY DEF Typed, Working
    <3> QED
      BY <1>2, <3>1, RestParts, InQueue, ChannelNames DEF Down
  <2>5. Ordered' /\ Exchanges("ndr", b)
    <3>1. Pending(b.ch) = {} /\ b.ch # "ndr" /\ "ndr" \in DOMAIN Channel
      BY <2>2, <2>3, ChannelNames DEF Up
    <3> QED
      BY <1>1, <1>2, <2>1, <2>2, <3>1, RestParts, HaAnswers
  <2>6. /\ Pending("req")' = {} /\ Pending("rwd")' = {} /\ Pending("ndr")' = {}
        /\ Pending("drs")' = {} /\ Pending("bisnp")' = {} /\ Pending("birsp")' = {b}
    BY <1>2, <2>2, <2>3, <2>5, ChannelNames DEF Exchanges, Up, Down
  <2>7. Exchange'
    BY <1>4, <1>6, <2>6 DEF Exchange
  <2>8. SnoopExchange'
    BY <1>1, <1>6, <2>2, <2>3, <2>4, <2>6 DEF SnoopExchange
  <2>9. NoSecondSnoop'
    BY <1>1, <1>2, <1>6, <1>8, <2>6, RestParts DEF NoSecondSnoop
  <2> QED
    BY <1>9, <1>5, <1>7, <2>5, <2>7, <2>8, <2>9, RestWhole
<1>10. CASE ~ha.sched
  <2>1. m2s' = m2s
    BY <1>10 DEF HaPlainCompletion
  <2>2. Ordered' /\ Changes("ndr", {})
    BY <1>1, <2>1, RestParts, Pops, ChannelNames DEF Up
  <2>3. ~Snooping
    BY <1>3, <1>10 DEF Snooping
  <2>4. Exchange'
    BY <1>2, <1>4, <1>6, <2>2, ChangesSix DEF Exchange
  <2>5. SnoopExchange'
    BY <1>1, <1>6, <2>2, <2>3, RestParts, ChangesSix DEF SnoopExchange
  <2>6. NoSecondSnoop'
    BY <1>1, <1>6, <1>8, <2>2, <2>3, RestParts, ChangesSix DEF NoSecondSnoop
  <2>7. Pending("birsp")' = Pending("birsp")
    BY <2>2, ChangesSix
  <2> QED
    BY <2>7, <1>5, <1>7, <2>2, <2>4, <2>5, <2>6, RestWhole
<1> QED
  BY <1>9, <1>10

\* Data never come to the front of their queue before the completion that
\* HomeAgent waits for.
LEMMA NoLoneData == ASSUME Typed, Rest PROVE ~HaDrs
<1> SUFFICES ASSUME HaDrs PROVE FALSE
  OBVIOUS
<1>1. AtNdr /\ queue["ndr"] = <<>> /\ queue["drs"] # <<>>
  BY RestParts DEF HaDrs, HaShape
<1>2. "ndr" \in DOMAIN Channel /\ "drs" \in DOMAIN Channel /\ "ndr" \in Up
  BY ChannelNames DEF Up
<1>3. Pending("drs") # {}
  BY <1>1, <1>2, RestParts, InQueue
<1>4. Pending("ndr") # {}
  BY <1>3, RestParts DEF Exchange, Writing
<1>5. Lacks(m2s, "ndr") /\ Lacks(s2m, "ndr")
  <2>1. Lacks(m2s, "ndr")
    BY <1>2, SentTyped DEF Typed
  <2>2. Lacks(s2m, "ndr")
    BY <1>1, RestParts DEF Ordered, Orderly
  <2> QED
    BY <2>1, <2>2
<1>6. DOMAIN queue["ndr"] = {}
  BY <1>1
<1> QED
  BY <1>4, <1>5, <1>6 DEF Pending, Lacks

LEMMA HaNoneRest ==
  ASSUME Typed, Rest, HaNone
  PROVE  Rest'
<1>1. /\ ha.part = "ndr" /\ UNCHANGED <<cache, proc, request, links, dcoh, sf>>
  BY DEF HaNone, controllers
<1>2. /\ ha'.state = ha.state /\ ha'.src = ha.src /\ ha'.type = ha.type /\ ha'.addr = ha.addr
      /\ ha'.sched = ha.sched /\ ha'.part = "take"
  BY RestParts DEF HaNone, HaType
<1>3. Ordered' /\ Settled
  BY <1>1, RestParts, StillLinks
<1>4. HaShape' /\ DcohShape'
  BY <1>1, <1>2, RestParts DEF HaShape, DcohShape
<1>5. /\ Fetch' = Fetch /\ Fetching' = Fetching /\ Writing' = Writing /\ Snooping' = Snooping
      /\ \A n : Grant(n)' = Grant(n)
  BY <1>2 DEF Fetch, Fetching, Writing, Grant, Snooping
<1>6. Exchange'
  BY <1>2, <1>3, <1>5, SettledSix, RestParts DEF Exchange
<1>7. SnoopExchange'
  BY <1>1, <1>2, <1>3, <1>5, SettledSix, RestParts DEF SnoopExchange
<1>8. ProgramOf(Host)' /\ ProgramOf(Device)'
  <2>1. ServesSame(Host) /\ ServesSame(Device)
    BY <1>1, <1>2 DEF ServesSame, Serves, ServedType, ServedAddr
  <2>2. Untouched(Host) /\ Untouched(Device)
    BY <1>1 DEF Untouched
  <2> QED
    BY <2>1, <2>2, RestParts, ProgramStays, ConstantTypes
<1>9. NoSecondSnoop'
  <2>1. \A x : (ToWrite(x)' => ToWrite(x)) /\ Valid(Host, x)' = Valid(Host, x)
    BY <1>1, <1>2 DEF ToWrite, Valid
  <2> QED
    BY <1>1, <1>2, <1>3, <1>5, <2>1, SettledSix, RestParts DEF NoSecondSnoop
<1> QED
  BY <1>3, <1>4, <1>6, <1>7, <1>8, <1>9, RestWhole

\* A step of the device's that leaves the host's controller and HomeAgent alone.
LEMMA HostStill ==
  ASSUME Typed, Rest, UNCHANGED ha, Untouched(Host)
  PROVE  /\ ProgramOf(Host)' /\ (HaShape)'
         /\ \A x : ToWrite(x)' = ToWrite(x) /\ Valid(Host, x)' = Valid(Host, x)
         /\ Fetch' = Fetch /\ Fetching' = Fetching /\ Writing' = Writing /\ Snooping' = Snooping
         /\ \A n : Grant(n)' = Grant(n)
<1>1. ServesSame(Host)
  BY DEF ServesSame, Serves, ServedType, ServedAddr
<1>2. ProgramOf(Host)' /\ HaShape'
  BY <1>1, RestParts, ProgramStays, ConstantTypes DEF HaShape
<1>3. \A x : ToWrite(x)' = ToWrite(x) /\ Valid(Host, x)' = Valid(Host, x)
  BY DEF ToWrite, Valid, Untouched
<1> QED
  BY <1>2, <1>3 DEF Fetch, Fetching, Writing, Snooping, Grant

LEMMA HostExchangeStill ==
  ASSUME Typed, Rest, UNCHANGED ha,
         Pending("req")' = Pending("req"), Pending("rwd")' = Pending("rwd"),
         Pending("ndr")' = Pending("ndr"), Pending("drs")' = Pending("drs")
  PROVE  Exchange'
<1>1. /\ Fetch' = Fetch /\ Fetching' = Fetching /\ Writing' = Writing
      /\ \A n : Grant(n)' = Grant(n)
  BY DEF Fetch, Fetching, Writing, Grant
<1> QED
  BY <1>1, RestParts DEF Exchange

\* The device is done with its own request, or takes one: no packet moves.
LEMMA DcohOwnRest ==
  ASSUME Typed, Rest, UNCHANGED <<links, ha, sf>>, Untouched(Host), ProgramOf(Device)',
         dcoh.state # "WAIT", dcoh'.state # "WAIT"
  PROVE  Rest'
<1>1. Ordered' /\ Settled
  BY RestParts, StillLinks
<1>2. Exchange'
  BY <1>1, SettledSix, HostExchangeStill
<1>3. SnoopExchange'
  BY <1>1, SettledSix, HostStill, RestParts DEF SnoopExchange
<1>4. NoSecondSnoop'
  BY <1>1, SettledSix, HostStill, RestParts DEF NoSecondSnoop
<1> QED
  BY <1>1, <1>2, <1>3, <1>4, HostStill, RestWhole DEF DcohShape

LEMMA DcohTakeRest ==
  ASSUME Typed, Rest, DcohOwn, DcohTake
  PROVE  Rest'
<1> DEFINE r == Head(request[Device])
<1>1. /\ dcoh.state = "INIT" /\ request[Device] # <<>>
      /\ dcoh' = [part |-> AfterOwn, state |-> "START", packet |-> r]
      /\ request' = [request EXCEPT ![Device] = Tail(@)]
      /\ UNCHANGED <<cache, proc, links, ha, sf>>
  BY DEF DcohOwn, DcohTake, links
<1> HIDE DEF r
<1>2. Serves(Device)' /\ ServedType(Device)' = r.type /\ ServedAddr(Device)' = r.addr
  BY <1>1 DEF Serves, ServedType, ServedAddr
<1>3. ProgramOf(Device)' /\ Untouched(Host)
  BY <1>1, <1>2, ConstantTypes, RestParts, ProgramTaken DEF r
<1> QED
  BY <1>1, <1>3, DcohOwnRest

\* The device answers its own request without a snoop.
LEMMA DcohLocalRest ==
  ASSUME Typed, Rest, DcohOwn, dcoh.state = "START", DcohWriteBack \/ DcohOwnMiss,
         UNCHANGED queue
  PROVE  Rest'
<1>1. /\ \E status, data : Respond(Device, status, data)
      /\ dcoh' = [part |-> AfterOwn, state |-> "INIT", packet |-> None]
      /\ UNCHANGED <<links, ha, sf>>
  BY DEF DcohOwn, DcohWriteBack, DcohOwnMiss, FinishDcoh, links
<1>2. Serves(Device) /\ ~Serves(Device)'
  BY <1>1 DEF Serves
<1>3. ProgramOf(Device)' /\ Untouched(Host)
  BY <1>1, <1>2, ConstantTypes, RestParts, ProgramAnswered
<1> QED
  BY <1>1, <1>3, DcohOwnRest

\* With a request of the host's in front, no answer to a snoop is on the link.
LEMMA DcohOwnNoneRest ==
  ASSUME Typed, Rest, DcohOwn, DcohOwnNone
  PROVE  Rest'
<1>1. /\ dcoh'.state = dcoh.state /\ dcoh'.packet = dcoh.packet /\ dcoh'.part = AfterOwn
      /\ UNCHANGED <<cache, proc, request, links, ha, sf>>
      /\ dcoh.state = "WAIT" => queue["birsp"] = <<>>
  BY RestParts DEF DcohOwn, DcohOwnNone, DcohType, links, controllers
<1>2. Ordered' /\ Settled
  BY <1>1, RestParts, StillLinks
<1>3. Exchange'
  BY <1>1, <1>2, SettledSix, HostExchangeStill
<1>4. Untouched(Host) /\ Untouched(Device)
  BY <1>1 DEF Untouched
<1>5. dcoh.state = "WAIT" /\ AfterOwn = "req" => Pending("birsp") = {}
  <2> SUFFICES ASSUME dcoh.state = "WAIT", AfterOwn = "req" PROVE Pending("birsp") = {}
    OBVIOUS
  <2>1. queue["req"] # <<>> /\ queue["birsp"] = <<>>
    BY <1>1, AfterOwnType
  <2>2. Lacks(m2s, "birsp")
    BY <2>1, RestParts DEF Ordered, Orderly
  <2>3. Lacks(s2m, "birsp")
    BY SentTyped DEF Typed, Down
  <2>4. DOMAIN queue["birsp"] = {}
    BY <2>1
  <2> QED
    BY <2>2, <2>3, <2>4 DEF Pending, Lacks
<1>6. SnoopExchange'
  BY <1>1, <1>2, <1>4, <1>5, SettledSix, HostStill, RestParts DEF SnoopExchange
<1>7. NoSecondSnoop'
  BY <1>1, <1>2, <1>4, SettledSix, HostStill, RestParts DEF NoSecondSnoop
<1>8. ProgramOf(Device)'
  <2>1. ServesSame(Device)
    BY <1>1, ConstantTypes DEF ServesSame, Serves, ServedType, ServedAddr
  <2> QED
    BY <1>4, <2>1, RestParts, ProgramStays, ConstantTypes
<1>9. DcohShape'
  BY <1>1, RestParts DEF DcohShape
<1> QED
  BY <1>1, <1>2, <1>3, <1>4, <1>6, <1>7, <1>8, <1>9, HostStill, RestWhole

LEMMA DcohBISnpRest ==
  ASSUME Typed, Rest, DcohOwn, dcoh.state = "START", DcohBISnp, UNCHANGED queue
  PROVE  Rest' /\ Pending("birsp")' = {} /\ Pending("ndr")' = Pending("ndr")
<1> DEFINE p == BISnpOf(dcoh.packet)
<1>1. /\ dcoh.packet.type \in Snoops /\ dcoh.packet.addr \in sf
      /\ s2m' = s2m \o <<p>> /\ (\A x : x \in sf' => x \in sf)
      /\ UNCHANGED <<cache, proc, request, m2s, queue, ha>>
  BY DEF DcohOwn, DcohBISnp, DcohSends, BISnpOf, Snoops, controllers
<1>2. dcoh'.state = "WAIT" /\ dcoh'.packet = dcoh.packet
  BY RestParts DEF DcohBISnp, DcohType
<1>3. p \in S2M /\ p.ch = "bisnp" /\ p.addr = dcoh.packet.addr /\ BISnpOf(dcoh'.packet) = p
  <2>1. dcoh.packet.addr \in Addrs
    BY <1>1 DEF Typed
  <2> QED
    BY <1>2, <2>1, PacketTypes DEF BISnpOf, BISnpOpcode
<1> HIDE DEF p
<1>4. Pending("bisnp") = {} /\ ~Snooping /\ Pending("birsp") = {}
  BY RestParts DEF SnoopExchange
<1>5. Ordered' /\ Changes("bisnp", {p})
  <2>1. Pending(p.ch) = {} /\ p.ch # "ndr"
    BY <1>3, <1>4
  <2>2. Ordered' /\ Changes(p.ch, {p})
    BY <1>1, <1>3, <2>1, RestParts, DcohSendsOne
  <2> QED
    BY <1>3, <2>2
<1>6. Exchange'
  BY <1>1, <1>5, ChangesSix, HostExchangeStill
<1>7. Untouched(Host) /\ Untouched(Device)
  BY <1>1 DEF Untouched
<1>8. SnoopExchange'
  BY <1>1, <1>2, <1>3, <1>4, <1>5, <1>7, ChangesSix, HostStill DEF SnoopExchange
<1>9. NoSecondSnoop'
  <2> SUFFICES ASSUME NEW x \in Addrs, ToWrite(x), ~Valid(Host, x)
               PROVE  x \notin sf' /\ p.addr # x /\ ~Snooping
    BY <1>1, <1>5, <1>7, ChangesSix, HostStill DEF NoSecondSnoop
  <2>1. x \notin sf
    BY <1>4, RestParts DEF NoSecondSnoop
  <2> QED
    BY <1>1, <1>3, <1>4, <2>1
<1>10. ProgramOf(Device)'
  <2>1. ServesSame(Device)
    BY <1>2, ConstantTypes DEF ServesSame, Serves, ServedType, ServedAddr
  <2> QED
    BY <1>7, <2>1, RestParts, ProgramStays, ConstantTypes
<1>11. DcohShape'
  BY <1>1, <1>2 DEF DcohShape
<1>12. Pending("birsp")' = {} /\ Pending("ndr")' = Pending("ndr")
  BY <1>4, <1>5, ChangesSix
<1> QED
  BY <1>12, <1>1, <1>5, <1>6, <1>7, <1>8, <1>9, <1>10, <1>11, HostStill, RestWhole

LEMMA DcohBIRspRest ==
  ASSUME Typed, Rest, DcohOwn, DcohBIRsp
  PROVE  /\ Rest' /\ Pending("birsp") # {} /\ Pending("birsp")' = {}
         /\ Pending("ndr")' = Pending("ndr")
<1>1. /\ dcoh.state = "WAIT" /\ queue["birsp"] # <<>> /\ Pop("birsp")
      /\ \E status, data : Respond(Device, status, data)
      /\ dcoh'.state = "INIT"
      /\ UNCHANGED <<m2s, s2m, ha, sf>>
  BY DEF DcohOwn, DcohBIRsp, FinishDcoh
<1>2. /\ Ordered' /\ Changes("birsp", {}) /\ Pending("birsp") # {}
  BY <1>1, RestParts, Pops, InQueue, ChannelNames DEF Down
<1>3. Pending("bisnp") = {} /\ ~Snooping
  BY <1>1, <1>2, RestParts DEF SnoopExchange
<1>4. Exchange'
  BY <1>1, <1>2, ChangesSix, HostExchangeStill
<1>5. Serves(Device) /\ ~Serves(Device)'
  BY <1>1, ConstantTypes DEF Serves
<1>6. ProgramOf(Device)' /\ Untouched(Host)
  BY <1>1, <1>5, ConstantTypes, RestParts, ProgramAnswered
<1>7. SnoopExchange'
  BY <1>1, <1>2, <1>3, <1>6, ChangesSix, HostStill DEF SnoopExchange
<1>8. NoSecondSnoop'
  BY <1>1, <1>2, <1>6, ChangesSix, HostStill, RestParts DEF NoSecondSnoop
<1>9. DcohShape'
  BY <1>1 DEF DcohShape
<1>10. Pending("birsp")' = {} /\ Pending("ndr")' = Pending("ndr")
  BY <1>2, ChangesSix
<1> QED
  BY <1>10, <1>1, <1>2, <1>4, <1>6, <1>7, <1>8, <1>9, HostStill, RestWhole

\* What the device finds when it has a request of the host's to serve.
LEMMA AtRequest ==
  ASSUME Typed, Rest, DcohReq
  PROVE  /\ queue["req"] # <<>> /\ Head(queue["req"]) = Fetch /\ Fetching /\ ha.addr \in Addrs
         /\ Pending("rwd") = {} /\ Pending("ndr") = {} /\ Pending("drs") = {}
         /\ Pending("birsp") = {}
         /\ \A x : ~ToWrite(x)
         /\ ha.type = "SNP_DATA" => ha.addr \in Loads[Host]
<1>1. queue["req"] # <<>> /\ "req" \in DOMAIN Channel
  BY ChannelNames DEF DcohReq, Typed, Working, Down
<1>2. Pending("req") = {Head(queue["req"])}
  BY <1>1, RestParts, InQueue
<1>3. Fetching
  BY <1>2, RestParts DEF Exchange, Writing
<1>4. /\ Pending("req") = {Fetch}
      /\ Pending("rwd") = {} /\ Pending("ndr") = {} /\ Pending("drs") = {}
  BY <1>2, <1>3, RestParts DEF Exchange
<1>5. Head(queue["req"]) = Fetch
  BY <1>2, <1>4
<1>6. ha.addr \in Addrs
  BY <1>3 DEF Fetching, Typed, Working
<1>7. Serves(Host) /\ ServedType(Host) = ha.type /\ ServedAddr(Host) = ha.addr
  BY <1>3 DEF Fetching, Serves, ServedType, ServedAddr
<1>8. request[Host] = <<>> /\ Awaits(Host, ha.type, ha.addr)
  BY <1>7, AtWork, RestParts, ConstantTypes
<1>9. \A x : ~ToWrite(x)
  BY <1>3, <1>8 DEF ToWrite, Fetching
<1>10. ha.type = "SNP_DATA" => ha.addr \in Loads[Host]
  BY <1>8 DEF Awaits, Writes
<1>11. Pending("birsp") = {}
  BY RestParts DEF SnoopExchange, DcohReq
<1> QED
  BY <1>1, <1>3, <1>4, <1>5, <1>6, <1>9, <1>10, <1>11

\* What the host's request for x finds in the device: the cache's block or
\* the memory's.
DataOf(x) == IF Valid(Device, x) THEN cache[Device][x].data ELSE mem[x]

LEMMA DcohReqRest ==
  ASSUME LoadsApart, Typed, Rest, DcohReq
  PROVE  /\ Rest' /\ Pending("birsp")' = {} /\ sf' = sf \cup {ha.addr}
         /\ \E n : /\ Pending("ndr")' = {n}
                   /\ ha.type = "SNP_DATA" /\ Valid(Device, ha.addr) => n.opcode = "CMP_S"
         /\ ha.type = "SNP_DATA" => \E d : Pending("drs")' = {d} /\ d.data = DataOf(ha.addr)
<1> DEFINE packet == Head(queue["req"])
           x      == packet.addr
           type   == SnoopOfReq(packet.opcode)
           status == SnoopStatus(type, cache[Device][x].state)
           cmp    == CASE status \in {"RSP_MISS", "RSP_I"} -> "CMP_E"
                       [] status \in {"RSP_S", "RSP_M"} -> "CMP_S"
                       [] status = "RSP_E" -> "CMP"
           ndr    == [ch |-> "ndr", opcode |-> cmp, any |-> DataFollow(packet.opcode)]
           drs    == [ch |-> "drs", data |-> ReadData(status, x)]
<1>1. /\ Snoop(Device, type, x)
      /\ s2m' = s2m \o (IF packet.opcode = "MEM_RD" THEN <<ndr, drs>> ELSE <<ndr>>)
      /\ Pop("req") /\ dcoh.part = "req"
      /\ dcoh' = [dcoh EXCEPT !.part = "rwd"]
      /\ UNCHANGED <<proc, request, m2s, ha>>
  BY DEF DcohReq, DcohSends
<1>2. /\ queue["req"] # <<>> /\ packet = Fetch /\ Fetching /\ x = ha.addr /\ x \in Addrs
      /\ packet.opcode = IF ha.type = "SNP_DATA" THEN "MEM_RD" ELSE "MEM_INV"
      /\ Pending("rwd") = {} /\ Pending("ndr") = {} /\ Pending("drs") = {}
      /\ Pending("birsp") = {} /\ (\A y : ~ToWrite(y))
  BY AtRequest DEF Fetch
<1>3. cache[Device][x].state \in CacheState /\ cache[Device][x].data \in Values
  BY <1>2, ConstantTypes DEF Typed, ControllersTypeOK, CacheBlock
<1>4. packet.opcode = "MEM_RD" => cache[Device][x].state # "E"
  <2>1. cache[Device][x].state = "E" => x \in Loads[Device]
    BY <1>2, RestParts, ConstantTypes DEF ProgramOf
  <2>2. packet.opcode = "MEM_RD" => x \in Loads[Host]
    BY <1>2, AtRequest
  <2> QED
    BY <2>1, <2>2 DEF LoadsApart
<1>5. /\ packet.opcode = "MEM_RD" => status \in {"RSP_MISS", "RSP_S", "RSP_M"}
      /\ packet.opcode # "MEM_RD" => status \in {"RSP_MISS", "RSP_I"}
  <2>1. type = (IF packet.opcode = "MEM_RD" THEN "SNP_DATA" ELSE "SNP_INV")
    BY DEF SnoopOfReq
  <2>2. status = IF cache[Device][x].state = "I" THEN "RSP_MISS"
                 ELSE IF type = "SNP_INV" THEN "RSP_I"
                 ELSE IF cache[Device][x].state = "S" THEN "RSP_S"
                 ELSE IF cache[Device][x].state = "E" THEN "RSP_E" ELSE "RSP_M"
    BY <1>3, <2>1, SnoopFound
  <2> HIDE DEF status, type
  <2> QED
    BY <1>4, <2>1, <2>2
<1>20. /\ ha.type = "SNP_DATA" /\ Valid(Device, ha.addr) => status \in {"RSP_S", "RSP_M"}
       /\ ha.type = "SNP_DATA" => (status = "RSP_MISS" <=> ~Valid(Device, ha.addr))
  <2>1. ha.type = "SNP_DATA" => type = "SNP_DATA" /\ packet.opcode = "MEM_RD"
    BY <1>2 DEF SnoopOfReq
  <2>2. type \in {"SNP_DATA", "SNP_INV"}
    BY DEF SnoopOfReq
  <2>3. status = "RSP_MISS" <=> cache[Device][x].state = "I"
    BY <1>3, <2>2, SnoopFound
  <2>4. Valid(Device, ha.addr) <=> cache[Device][x].state # "I"
    BY <1>2 DEF Valid
  <2> HIDE DEF status, type
  <2> QED
    BY <1>5, <2>1, <2>3, <2>4
<1>6. cmp \in IF ha.type = "SNP_DATA" THEN {"CMP_S", "CMP_E"} ELSE {"CMP_E"}
  BY <1>2, <1>5
<1>7. ReadData(status, x) \in Values
  BY <1>2, <1>3 DEF ReadData, Typed
<1>8. ndr.any = (ha.type = "SNP_DATA") /\ ndr.opcode = cmp /\ ndr.ch = "ndr"
  BY <1>2 DEF DataFollow
<1>9. PICK n \in S2MNDR, d \in S2MDRS : n = ndr /\ d = drs
  <2>1. ndr \in S2MNDR
    <3>1. cmp \in {"CMP", "CMP_S", "CMP_E"}
      BY <1>5
    <3>2. DataFollow(packet.opcode) \in BOOLEAN
      BY DEF DataFollow
    <3> HIDE DEF cmp, packet
    <3> QED
      BY <3>1, <3>2 DEF S2MNDR
  <2>2. drs \in S2MDRS
    BY <1>7 DEF S2MDRS
  <2> QED
    BY <2>1, <2>2
<1>10. Grant(n) /\ n.ch = "ndr"
  BY <1>6, <1>8, <1>9 DEF Grant
<1>18. /\ sf' = sf \cup {ha.addr}
       /\ ha.type = "SNP_DATA" /\ Valid(Device, ha.addr) => n.opcode = "CMP_S"
  <2>1. cmp # "CMP"
    BY <1>5
  <2>2. sf' = FilterAfterReq(cmp, x)
    BY DEF DcohReq
  <2>3. sf' = sf \cup {ha.addr}
    BY <1>2, <2>1, <2>2 DEF FilterAfterReq
  <2>5. ha.type = "SNP_DATA" /\ Valid(Device, ha.addr) => cmp = "CMP_S"
    BY <1>20
  <2> QED
    BY <1>8, <1>9, <2>3, <2>5
<1>19. ha.type = "SNP_DATA" => d.data = DataOf(ha.addr)
  <2> SUFFICES ASSUME ha.type = "SNP_DATA" PROVE d.data = DataOf(ha.addr)
    OBVIOUS
  <2>1. status = "RSP_MISS" <=> ~Valid(Device, ha.addr)
    BY <1>20
  <2>2. d.data = ReadData(status, x)
    BY <1>9
  <2> QED
    BY <1>2, <2>1, <2>2 DEF ReadData, DataOf
<1> HIDE DEF packet, x, type, status, cmp, ndr, drs
<1>11. /\ Ordered' /\ Pending("req")' = {} /\ Pending("ndr")' = {n}
       /\ Pending("rwd")' = {} /\ Pending("birsp")' = {} /\ Pending("bisnp")' = Pending("bisnp")
       /\ IF ha.type = "SNP_DATA" THEN Pending("drs")' = {d} ELSE Pending("drs")' = {}
  <2>1. CASE ha.type = "SNP_DATA"
    <3>1. s2m' = s2m \o <<n, d>>
      BY <1>1, <1>2, <1>9, <2>1
    <3>2. Ordered' /\ ExchangesData(n, d)
      BY <1>1, <1>2, <3>1, RestParts, DcohAnswersData
    <3> QED
      BY <1>2, <2>1, <3>2, ChannelNames DEF ExchangesData, Up, Down
  <2>2. CASE ha.type # "SNP_DATA"
    <3>1. s2m' = s2m \o <<n>>
      BY <1>1, <1>2, <1>9, <2>2
    <3>2. Ordered' /\ Exchanges("req", n)
      <4>1. n \in S2M /\ "req" \in DOMAIN Channel /\ Pending(n.ch) = {} /\ n.ch # "req"
        BY <1>2, <1>10, ChannelNames DEF S2M, Down
      <4> QED
        BY <1>1, <1>2, <3>1, <4>1, RestParts, DcohAnswers
    <3> QED
      BY <1>2, <1>10, <2>2, <3>2, ChannelNames DEF Exchanges, Up, Down
  <2> QED
    BY <2>1, <2>2
<1>12. ServesSame(Device) /\ dcoh'.state = dcoh.state /\ dcoh'.packet = dcoh.packet /\ dcoh'.part = "rwd"
  BY <1>1, RestParts, ConstantTypes DEF ServesSame, Serves, ServedType, ServedAddr, DcohType
<1>13. ProgramOf(Device)' /\ Untouched(Host)
  BY <1>1, <1>2, <1>12, RestParts, ProgramSnooped, ConstantTypes
<1>14. Exchange'
  <2>1. Fetching' /\ ~Writing' /\ ha' = ha /\ Grant(n)'
    BY <1>1, <1>2, <1>10 DEF Fetching, Writing, Grant
  <2>2. ha'.state = "WAIT"
    BY <2>1 DEF Fetching
  <2> QED
    BY <1>9, <1>11, <2>1, <2>2 DEF Exchange
<1>15. SnoopExchange'
  <2>1. /\ Pending("birsp") = {} /\ Pending("birsp")' = {}
        /\ Pending("bisnp")' = Pending("bisnp")
    BY <1>2, <1>11
  <2>2. Snooping' = Snooping /\ ha' = ha
    BY <1>1, <1>13, HostStill
  <2> QED
    BY <1>12, <2>1, <2>2, RestParts DEF SnoopExchange
<1>16. NoSecondSnoop'
  BY <1>1, <1>2, <1>13, HostStill DEF NoSecondSnoop
<1>17. DcohShape'
  BY <1>12, RestParts DEF DcohShape
<1> QED
  BY <1>1, <1>11, <1>13, <1>14, <1>15, <1>16, <1>17, <1>18,
     <1>19, HostStill, RestWhole

LEMMA DcohRwDRest ==
  ASSUME Typed, Rest, DcohRwD
  PROVE  Rest' /\ Pending("birsp")' = Pending("birsp")
<1>1. dcoh' = [dcoh EXCEPT !.part = "own"] /\ UNCHANGED <<proc, request, m2s, ha>>
  BY DEF DcohRwD
<1>2. /\ dcoh'.state = dcoh.state /\ dcoh'.packet = dcoh.packet /\ dcoh'.part = "own"
      /\ ServesSame(Device) /\ DcohShape'
  BY <1>1, RestParts, ConstantTypes
     DEF ServesSame, Serves, ServedType, ServedAddr, DcohType, DcohShape
<1>3. CASE queue["rwd"] # <<>>
  <2> DEFINE packet == Head(queue["rwd"])
  <2>1. /\ Snoop(Device, "SNP_INV", packet.addr) /\ sf' = sf \ {packet.addr}
        /\ s2m' = s2m \o <<Completion>> /\ Pop("rwd")
    BY <1>3 DEF DcohRwD, DcohSends, Completion
  <2>2. Pending("rwd") = {packet} /\ "rwd" \in DOMAIN Channel
    BY <1>3, RestParts, InQueue, ChannelNames DEF Down
  <2> HIDE DEF packet
  <2>3. Writing
    BY <2>2, RestParts DEF Exchange, Writing
  <2>4. /\ Pending("req") = {} /\ Pending("drs") = {} /\ Pending("ndr") = {}
        /\ packet.addr = ha.addr
    <3>1. /\ Pending("req") = {} /\ Pending("drs") = {} /\ Pending("ndr") = {}
          /\ \E w \in M2SRwD : Pending("rwd") = {w} /\ w.addr = ha.addr
      BY <2>2, <2>3, RestParts DEF Exchange
    <3> QED
      BY <2>2, <3>1
  <2>5. ha.addr \in Addrs
    BY <2>3 DEF Writing, Typed, Working
  <2>6. Completion \in S2M /\ Completion.ch = "ndr"
    BY PacketTypes DEF Completion
  <2>7. Ordered' /\ Exchanges("rwd", Completion)
    <3>1. Pending(Completion.ch) = {} /\ Completion.ch # "rwd"
      BY <2>4, <2>6
    <3> QED
      BY <1>1, <1>3, <2>1, <2>2, <2>4, <2>6, <3>1, RestParts, DcohAnswers
  <2>8. /\ Pending("req")' = {} /\ Pending("rwd")' = {} /\ Pending("ndr")' = {Completion}
        /\ Pending("drs")' = {} /\ Pending("bisnp")' = Pending("bisnp")
        /\ Pending("birsp")' = Pending("birsp")
    BY <2>4, <2>6, <2>7, ChannelNames DEF Exchanges, Up, Down
  <2>9. ProgramOf(Device)' /\ Untouched(Host)
    BY <1>1, <1>2, <2>1, <2>4, <2>5, RestParts, ProgramSnooped, ConstantTypes
  <2>10. Exchange'
    <3>1. ~Fetching' /\ Writing' /\ ha'.state = "WAIT"
      BY <1>1, <2>3, <2>9, HostStill DEF Fetching, Writing
    <3>2. Completion' = Completion
      BY DEF Completion
    <3> QED
      BY <2>8, <3>1, <3>2 DEF Exchange
  <2>11. SnoopExchange'
    <3>1. ~Fetching'
      BY <1>1, <2>3, <2>9, HostStill DEF Fetching, Writing
    <3> QED
      BY <1>1, <1>2, <2>8, <2>9, <3>1, HostStill, RestParts DEF SnoopExchange
  <2>12. NoSecondSnoop'
    <3> SUFFICES ASSUME NEW x \in Addrs, ToWrite(x), ~Valid(Host, x)
                 PROVE  /\ x \notin sf' /\ (\A p \in Pending("bisnp") : p.addr # x)
                        /\ ~(Snooping /\ ha.state = "START" /\ ha.addr = x)
      BY <1>1, <2>8, <2>9, HostStill DEF NoSecondSnoop
    <3> QED
      BY <2>1, <2>4, RestParts DEF NoSecondSnoop
  <2> QED
    BY <1>1, <1>2, <2>7, <2>8, <2>9, <2>10, <2>11, <2>12, HostStill, RestParts, RestWhole
<1>4. CASE queue["rwd"] = <<>>
  <2>1. UNCHANGED <<cache, sf, s2m, queue>>
    BY <1>4 DEF DcohRwD
  <2>2. Ordered' /\ Settled
    BY <1>1, <2>1, RestParts, StillLinks DEF links
  <2>3. Untouched(Host) /\ Untouched(Device)
    BY <1>1, <2>1 DEF Untouched
  <2>4. ProgramOf(Device)'
    BY <1>2, <2>3, RestParts, ProgramStays, ConstantTypes
  <2>5. Exchange'
    BY <1>1, <2>2, SettledSix, HostExchangeStill
  <2>6. SnoopExchange'
    BY <1>1, <1>2, <2>2, <2>3, SettledSix, HostStill, RestParts DEF SnoopExchange
  <2>7. NoSecondSnoop'
    BY <1>1, <2>1, <2>2, <2>3, SettledSix, HostStill, RestParts DEF NoSecondSnoop
  <2> QED
    BY <1>1, <1>2, <2>2, <2>3, <2>4, <2>5, <2>6, <2>7, SettledSix, HostStill, RestWhole
<1> QED
  BY <1>3, <1>4

----------------------------------------------------------------------------
(* The exchange of packets: the theorems.                                  *)

LEMMA ProtocolInit == Init => Protocol
<1> SUFFICES ASSUME Init PROVE Protocol
  OBVIOUS
<1>1. Typed
  BY TypedInit
<1>2. m2s = <<>> /\ s2m = <<>> /\ queue = [ch \in DOMAIN Channel |-> <<>>]
  BY DEF Init
<1>3. \A ch \in DOMAIN Channel : /\ Sent(m2s, ch) = {} /\ Sent(s2m, ch) = {} /\ queue[ch] = <<>>
                                 /\ DOMAIN queue[ch] = {}
  BY <1>2 DEF Sent
<1>4. \A ch \in DOMAIN Channel : Pending(ch) = {}
  BY <1>3 DEF Pending
<1>5. /\ Pending("req") = {} /\ Pending("rwd") = {} /\ Pending("birsp") = {}
      /\ Pending("ndr") = {} /\ Pending("drs") = {} /\ Pending("bisnp") = {}
  BY <1>4, ChannelNames DEF Up, Down
<1>6. Ordered
  <2>1. \A ch \in DOMAIN Channel : /\ AtMostOne(m2s, ch) /\ AtMostOne(s2m, ch) /\ Len(queue[ch]) <= 1
    <3>1. Len(<<>>) = 0 /\ \A n : n = 0 => n <= 1
      OBVIOUS
    <3>2. \A ch \in DOMAIN Channel : Len(queue[ch]) = 0
      BY <1>3, <3>1
    <3> QED
      BY <1>3, <3>1, <3>2 DEF AtMostOne
  <2>2. Before(m2s, "birsp", "req") /\ Before(s2m, "ndr", "drs")
    BY <1>2 DEF Before, Sent
  <2> QED
    BY <1>3, <2>1, <2>2, ChannelNames DEF Ordered, Orderly, Up, Down
<1>7. ha.state = "INIT" /\ ha.part = "take" /\ ~ha.sched /\ dcoh.state = "INIT"
  BY DEF Init, HaIdle
<1>8. HaShape /\ DcohShape /\ Exchange /\ SnoopExchange
  BY <1>5, <1>7 DEF HaShape, DcohShape, Exchange, SnoopExchange, Fetching, Writing, Snooping
<1>9. Programs
  <2>1. \A a \in Agents : proc[a] = Idle /\ request[a] = <<>> /\ ~Serves(a)
    BY <1>7 DEF Init, ControllersInit, Serves, Agents
  <2>2. \A a \in Agents, x \in Addrs : cache[a][x].state = "I"
    BY DEF Init, ControllersInit, Invalid
  <2> QED
    BY <2>1, <2>2 DEF Programs, ProgramOf, Paired
<1>10. NoSecondSnoop
  <2>1. \A x : ~ToWrite(x)
    BY <1>7 DEF Init, ControllersInit, ToWrite, Agents
  <2> QED
    BY <2>1 DEF NoSecondSnoop
<1> QED
  BY <1>1, <1>6, <1>8, <1>9, <1>10 DEF Protocol, Rest, Pipes

LEMMA ProtocolStep == LoadsApart /\ Protocol /\ [Next]_vars => Protocol'
<1> SUFFICES ASSUME LoadsApart, Protocol, [Next]_vars PROVE Protocol'
  OBVIOUS
<1>1. Typed /\ Rest /\ Typed'
  BY TypedStep DEF Protocol
<1>2. CASE HaStep
  BY <1>1, <1>2, HaTakeHostRest, HaTakeDeviceRest, HaHostWriteBackRest, HaHostRequestRest,
     HaBISnpRest, HaCompletionRest, HaPlainCompletionRest, NoLoneData, HaNoneRest
     DEF HaStep, HaFn, HaNdr, Protocol
<1>3. CASE DcohStep
  BY <1>1, <1>3, DcohTakeRest, DcohLocalRest, DcohOwnNoneRest, DcohBISnpRest, DcohBIRspRest,
     DcohReqRest, DcohRwDRest DEF DcohStep, DcohOwn, Protocol
<1>4. CASE HaReceive \/ DcohReceive
  BY <1>1, <1>4, ReceivesRest DEF Protocol
<1>5. CASE \E a \in Agents : Processor(a)
  BY <1>1, <1>5, ProcessorsRest DEF Protocol
<1>6. CASE UNCHANGED vars
  <2>1. UNCHANGED <<cache, proc, request, links, ha, dcoh, sf>>
    BY <1>6 DEF vars, controllers
  <2>2. Ordered' /\ Settled
    BY <1>1, <2>1, RestParts, StillLinks
  <2>3. Pipes'
    BY <1>1, <2>1, <2>2, PipesStill
  <2>4. ProgramOf(Host)' /\ ProgramOf(Device)'
    BY <1>1, <2>1, RestParts, ProgramStays, ConstantTypes
       DEF Untouched, ServesSame, Serves, ServedType, ServedAddr
  <2>5. NoSecondSnoop'
    BY <1>1, <2>1, <2>2, RestParts, SettledSix DEF NoSecondSnoop, ToWrite, Valid, Snooping
  <2> QED
    BY <1>1, <2>3, <2>4, <2>5 DEF Rest, Programs, Agents, Protocol
<1> QED
  BY <1>2, <1>3, <1>4, <1>5, <1>6 DEF Next

LEMMA ProtocolAlways == LoadsApart => (Spec => []Protocol)
<1> SUFFICES ASSUME LoadsApart PROVE Spec => []Protocol
  OBVIOUS
<1>1. Protocol /\ [Next]_vars => Protocol'
  BY ProtocolStep
<1> QED
  BY <1>1, ProtocolInit, PTL DEF Spec

\* A finite count of what is at most one.
LEMMA CountOne ==
  ASSUME NEW link, NEW ch, AtMostOne(link, ch)
  PROVE  /\ Cardinality(Sent(link, ch)) \in {0, 1}
         /\ Lacks(link, ch) => Cardinality(Sent(link, ch)) = 0
<1>1. CASE Lacks(link, ch)
  BY <1>1, FS_EmptySet DEF Lacks
<1>2. CASE ~Lacks(link, ch)
  <2>1. PICK i \in Sent(link, ch) : Sent(link, ch) = {i}
    BY <1>2 DEF Lacks, AtMostOne
  <2>2. Cardinality({i}) = 1
    BY FS_Singleton
  <2> QED
    BY <1>2, <2>1, <2>2
<1> QED
  BY <1>1, <1>2

LEMMA OneOnChannel == Typed /\ Rest => OnePacketPerChannel
<1> SUFFICES ASSUME Typed, Rest, NEW ch \in DOMAIN Channel
             PROVE  Cardinality(Sent(m2s, ch)) + Cardinality(Sent(s2m, ch)) + Len(queue[ch]) <= 1
  BY DEF OnePacketPerChannel
<1>1. /\ AtMostOne(m2s, ch) /\ AtMostOne(s2m, ch) /\ Len(queue[ch]) <= 1
      /\ queue[ch] # <<>> => Lacks(m2s, ch) /\ Lacks(s2m, ch)
  BY RestParts DEF Ordered, Orderly
<1>2. Lacks(m2s, ch) \/ Lacks(s2m, ch)
  BY SentTyped, ChannelNames DEF Typed
<1>3. Len(queue[ch]) \in {0, 1} /\ (queue[ch] = <<>> => Len(queue[ch]) = 0)
  <2>1. queue[ch] \in Seq(Channel[ch])
    BY DEF Typed, Carried
  <2>2. Len(queue[ch]) \in Nat
    BY <2>1, LenProperties
  <2>3. \A n \in Nat : n <= 1 => n \in {0, 1}
    OBVIOUS
  <2>4. Len(<<>>) = 0
    OBVIOUS
  <2> QED
    BY <1>1, <2>2, <2>3, <2>4
<1> DEFINE i == Cardinality(Sent(m2s, ch))
           j == Cardinality(Sent(s2m, ch))
           k == Len(queue[ch])
<1>4. /\ i \in {0, 1} /\ j \in {0, 1} /\ k \in {0, 1}
      /\ i = 0 \/ j = 0
      /\ k = 0 \/ (i = 0 /\ j = 0)
  BY <1>1, <1>2, <1>3, CountOne
<1> HIDE DEF i, j, k
<1>5. i + j + k <= 1
  BY <1>4
<1> QED
  BY <1>5 DEF i, j, k

\* HomeAgent and CxlMemDcoh keep one packet and match no tags: no channel ever
\* holds two, for each has one request of its own in flight and each is
\* answered once.  The programs share no line that both read.
THEOREM OneInFlight == LoadsApart => (Spec => []OnePacketPerChannel)
<1>1. Protocol => OnePacketPerChannel
  BY OneOnChannel DEF Protocol
<1> QED
  BY <1>1, ProtocolAlways, PTL

\* HomeAgent handles a completion and its data as one answer: when it is done
\* with a request no data are left for the next.
THEOREM AnswersWhole == LoadsApart => (Spec => []ResponsesWhole)
<1>1. Protocol => ResponsesWhole
  BY RestParts DEF Protocol, ResponsesWhole, Exchange
<1> QED
  BY <1>1, ProtocolAlways, PTL

\* HomeAgent's loop does not die: a scheduled back-invalidate response is sent
\* while the packet it answers is still the one in hand.
THEOREM HomeAgentAlive == LoadsApart => (Spec => []HaAlive)
<1>1. Protocol => HaAlive
  BY RestParts DEF Protocol, HaAlive, HaShape
<1> QED
  BY <1>1, ProtocolAlways, PTL

LEMMA NoWriteBackBehind == Typed /\ Rest => MissFollowsWriteBack
<1> SUFFICES ASSUME Typed, Rest, NEW x \in Addrs,
                    ha.state = "START", ha.src = Device, ha.addr = x, ~Valid(Host, x), WritingBack(x)
             PROVE  FALSE
  BY DEF MissFollowsWriteBack
<1>1. Pending("rwd") = {}
  BY RestParts DEF Exchange
<1>2. PICK i \in DOMAIN request[Host] :
        request[Host][i].addr = x /\ request[Host][i].type \in Writes
  BY <1>1 DEF WritingBack, Writes
<1>3. request[Host] # <<>> /\ i = 1
  <2>1. request[Host] \in Seq(CacheRequest)
    BY ConstantTypes DEF Typed, ControllersTypeOK
  <2>2. request[Host] # <<>>
    BY <1>2
  <2>3. Len(request[Host]) = 1
    BY <2>2, RestParts DEF ProgramOf, Paired
  <2> QED
    BY <1>2, <2>1, <2>2, <2>3
<1>4. ToWrite(x) /\ Snooping
  BY <1>2, <1>3 DEF ToWrite, Snooping
<1> QED
  BY <1>4, RestParts DEF NoSecondSnoop

\* The back-invalidate response that a miss in the host's cache sends at once
\* does not overtake the line's write-back: none waits or is under way then.
THEOREM MissIsLast == LoadsApart => (Spec => []MissFollowsWriteBack)
<1>1. Protocol => MissFollowsWriteBack
  BY NoWriteBackBehind DEF Protocol
<1> QED
  BY <1>1, ProtocolAlways, PTL

----------------------------------------------------------------------------
(* Coherence, when the lines the device's processor reads are its own.      *)

\* The device's programs read only lines that the host's do not use.
HostUses == Loads[Host] \cup Stores[Host]
DeviceReadsOwn == Loads[Device] \cap HostUses = {}

\* The host asks only for lines its programs use, and the device knows of no
\* other line in the host's cache.
Using ==
  /\ proc[Host] # Idle => proc[Host].addr \in HostUses
  /\ sf \subseteq HostUses
  /\ dcoh.state = "WAIT" => dcoh.packet.addr \in HostUses

\* The device's snoop took x out of the filter and is not yet answered.
Recalled(x) == dcoh.state = "WAIT" /\ dcoh.packet.addr = x

\* The device has granted the host the line x, and the host has yet to learn it.
GrantOf(x) == Fetching /\ ha.addr = x /\ Pending("ndr") # {}

\* What the host has, or has been granted, the device knows of.
Covered == \A x \in Addrs : Valid(Host, x) \/ GrantOf(x) => x \in sf \/ Recalled(x)

\* What the host writes back, or has given up, it no longer holds.
Gone ==
  /\ Writing => ~Valid(Host, ha.addr)
  /\ Pending("birsp") # {} => ~Valid(Host, dcoh.packet.addr)

\* What both hold, or one holds and the other is granted, is shared.
Apart ==
  /\ \A x \in Addrs : Valid(Host, x) /\ Valid(Device, x) =>
       cache[Host][x].state = "S" /\ cache[Device][x].state = "S"
  /\ \A x \in Addrs : GrantOf(x) =>
       /\ cache[Device][x].state # "M"
       /\ Valid(Device, x) => \A n \in Pending("ndr") : n.opcode = "CMP_S"

Coherent == Covered /\ Gone /\ Apart


LEMMA OwnApart == DeviceReadsOwn => LoadsApart
BY DEF DeviceReadsOwn, HostUses, LoadsApart

LEMMA GrantUsed ==
  ASSUME Typed, Rest, Using, NEW x, GrantOf(x)
  PROVE  x \in HostUses
<1>1. Serves(Host) /\ ServedType(Host) = ha.type /\ ServedAddr(Host) = x /\ ha.type \in Snoops
  BY DEF GrantOf, Fetching, Serves, ServedType, ServedAddr
<1>2. Awaits(Host, ha.type, x)
  BY <1>1, ConstantTypes, RestParts, AtWork
<1> QED
  BY <1>1, <1>2 DEF Awaits, Using, Snoops, Writes, Idle

\* The host's lines: what the invariant says of them holds for every program.
LEMMA UsingInit == Init => Using
BY ConstantTypes DEF Init, ControllersInit, Using

LEMMA UsingStill ==
  ASSUME Using, UNCHANGED <<proc, sf>>, dcoh'.state = "WAIT" => UNCHANGED dcoh
  PROVE  Using'
BY DEF Using

LEMMA UsingStep == Protocol /\ Using /\ [Next]_vars => Using'
<1> SUFFICES ASSUME Typed, Rest, Using, [Next]_vars PROVE Using'
  BY DEF Protocol
<1>1. proc \in [Agents -> {Idle} \cup Busy] /\ Host \in Agents /\ Device \in Agents /\ Host # Device
  BY ConstantTypes DEF Typed, ControllersTypeOK
<1>2. ASSUME NEW a \in Agents, NEW status, NEW data, Respond(a, status, data)
      PROVE  proc'[Host] # Idle => proc'[Host].addr \in HostUses
  <2>1. \/ proc' = [proc EXCEPT ![a] = Idle]
        \/ proc' = [proc EXCEPT ![a] = Asking(proc[a].op, proc[a].addr, proc[a].val)] /\ proc[a].pc = "flush"
    BY <1>2 DEF Respond, Ask
  <2>2. CASE a = Host
    BY <1>1, <2>1, <2>2 DEF Asking, Using, Idle
  <2>3. CASE a # Host
    BY <1>1, <2>1, <2>3 DEF Using
  <2> QED
    BY <2>2, <2>3
<1>3. ASSUME NEW a \in Agents, NEW op, NEW x, NEW v, x \in Loads[a] \cup Stores[a],
             Miss(a, op, x, v) \/ Ask(a, op, x, v)
      PROVE  proc'[Host] # Idle => proc'[Host].addr \in HostUses
  <2>1. PICK p : p.addr = x /\ proc' = [proc EXCEPT ![a] = p]
    BY <1>3 DEF Miss, Flush, Ask, Asking
  <2>2. CASE a = Host
    BY <1>1, <1>3, <2>1, <2>2 DEF HostUses
  <2>3. CASE a # Host
    BY <1>1, <2>1, <2>3 DEF Using
  <2> QED
    BY <2>2, <2>3
<1>4. CASE \E a \in Agents : Processor(a)
  <2>1. UNCHANGED <<dcoh, sf>>
    BY <1>4 DEF Processor
  <2>2. proc'[Host] # Idle => proc'[Host].addr \in HostUses
    BY <1>3, <1>4 DEF Processor, Load, Store, Using
  <2> QED
    BY <2>1, <2>2 DEF Using
<1>5. CASE HaReceive \/ DcohReceive
  BY <1>5, UsingStill DEF HaReceive, DcohReceive, controllers
<1>6. CASE HaStep
  <2>1. UNCHANGED <<dcoh, sf>>
    BY <1>6 DEF HaStep, HaTakeHost, HaTakeDevice, HaFn, HaNdr, HaDrs, HaNone
  <2>2. UNCHANGED proc \/ \E status, data : Respond(Host, status, data)
    BY <1>6 DEF HaStep, HaTakeHost, HaTakeDevice, HaFn, HaNdr, HaDrs, HaNone, HaHostWriteBack,
                HaHostRequest, HaBISnp, HaCompletion, HaPlainCompletion, controllers
  <2> QED
    BY <1>1, <1>2, <2>1, <2>2 DEF Using
<1>7. CASE DcohOwn
  <2>1. CASE DcohBISnp
    BY <2>1, RestParts DEF DcohBISnp, DcohType, Using, controllers
  <2>2. CASE DcohWriteBack \/ DcohOwnMiss \/ DcohBIRsp
    BY <1>1, <1>2, <2>2 DEF DcohWriteBack, DcohOwnMiss, DcohBIRsp, FinishDcoh, Using
  <2>3. CASE DcohTake \/ DcohOwnNone
    BY <2>3, RestParts DEF DcohTake, DcohOwnNone, DcohType, Using, controllers
  <2> QED
    BY <1>7, <2>1, <2>2, <2>3 DEF DcohOwn
<1>8. CASE DcohReq
  <2>1. Head(queue["req"]) = Fetch /\ Fetching
    BY <1>8, AtRequest
  <2>2. UNCHANGED proc /\ dcoh'.state = dcoh.state /\ dcoh'.packet = dcoh.packet
    BY <1>8, RestParts DEF DcohReq, DcohType
  <2>3. PICK cmp : sf' = FilterAfterReq(cmp, Head(queue["req"]).addr)
    BY <1>8 DEF DcohReq
  <2>4. Head(queue["req"]).addr = ha.addr
    BY <2>1 DEF Fetch
  <2>5. Serves(Host) /\ ServedType(Host) = ha.type /\ ServedAddr(Host) = ha.addr /\ ha.type \in Snoops
    BY <2>1 DEF Fetching, Serves, ServedType, ServedAddr
  <2>6. Awaits(Host, ha.type, ha.addr)
    BY <1>1, <2>5, RestParts, AtWork
  <2>7. ha.addr \in HostUses
    BY <2>5, <2>6 DEF Awaits, Using, Snoops, Writes, Idle
  <2> QED
    BY <2>2, <2>3, <2>4, <2>7 DEF Using, FilterAfterReq
<1>9. CASE DcohRwD
  BY <1>9, RestParts DEF DcohRwD, DcohType, Using
<1>10. CASE UNCHANGED vars
  BY <1>10, UsingStill DEF vars, controllers
<1> QED
  BY <1>4, <1>5, <1>6, <1>7, <1>8, <1>9, <1>10 DEF Next, DcohStep

\* The block of x in the cache of a is now in state s, no other has changed.
Restates(a, x, s) ==
  \A b \in Agents, y \in Addrs :
    cache'[b][y].state = IF b = a /\ y = x THEN s ELSE cache[b][y].state

LEMMA SnoopStates ==
  ASSUME Typed, NEW a \in Agents, NEW type, NEW x \in Addrs, Snoop(a, type, x)
  PROVE  Restates(a, x, IF type = "SNP_INV" \/ cache[a][x].state = "I" THEN "I" ELSE "S")
<1>1. cache \in [Agents -> [Addrs -> CacheBlock]]
  BY DEF Typed, ControllersTypeOK
<1> QED
  BY <1>1 DEF Snoop, Restates, Invalid

LEMMA AnswerStates ==
  ASSUME Typed, NEW a \in Agents, ProgramOf(a), Serves(a), NEW status, NEW data,
         Respond(a, status, data)
  PROVE  /\ ServedAddr(a) \in Addrs
         /\ ServedType(a) \in Writes => Restates(a, ServedAddr(a), "I")
         /\ ServedType(a) = "SNP_DATA" =>
              Restates(a, ServedAddr(a), FillState(status)) /\ ServedAddr(a) \in Loads[a]
         /\ ServedType(a) = "SNP_INV" => Restates(a, ServedAddr(a), "M")
         /\ ServedType(a) \in Writes \cup {"SNP_DATA", "SNP_INV"}
<1>1. Awaits(a, ServedType(a), ServedAddr(a))
  BY AtWork
<1>2. /\ cache \in [Agents -> [Addrs -> CacheBlock]] /\ proc \in [Agents -> {Idle} \cup Busy]
  BY DEF Typed, ControllersTypeOK
<1>3. proc[a] \in Busy
  BY <1>2 DEF Respond, Idle
<1>4. proc[a].addr \in Addrs /\ proc[a].victim \in Addrs
  BY <1>3 DEF Busy
<1>5. CASE proc[a].pc = "flush"
  <2>1. cache' = [cache EXCEPT ![a][proc[a].victim] = Invalid]
    BY <1>5 DEF Respond
  <2>2. Restates(a, proc[a].victim, "I")
    BY <1>2, <1>4, <2>1 DEF Restates, Invalid
  <2> QED
    BY <1>1, <1>4, <1>5, <2>2 DEF Awaits, Writes
<1>6. CASE proc[a].pc = "fill"
  <2>1. cache' = [cache EXCEPT ![a][proc[a].addr] =
                   [state |-> FillState(status), data |-> data]]
    BY <1>6 DEF Respond
  <2>2. Restates(a, proc[a].addr, FillState(status))
    BY <1>2, <1>4, <2>1 DEF Restates
  <2> QED
    BY <1>1, <1>4, <1>6, <2>2 DEF Awaits, Writes
<1>7. CASE proc[a].pc = "own"
  <2>1. cache' = [cache EXCEPT ![a][proc[a].addr] = [state |-> "M", data |-> proc[a].val]]
    BY <1>7 DEF Respond, Commit
  <2>2. Restates(a, proc[a].addr, "M")
    BY <1>2, <1>4, <2>1 DEF Restates
  <2> QED
    BY <1>1, <1>4, <1>7, <2>2 DEF Awaits, Writes
<1> QED
  BY <1>5, <1>6, <1>7 DEF Respond

\* A step that makes no block more valid, and grants nothing.
Drops == \A a \in Agents, x \in Addrs :
           cache'[a][x].state = cache[a][x].state \/ cache'[a][x].state = "I"

LEMMA RestatesDrops ==
  ASSUME NEW a \in Agents, NEW x \in Addrs, Restates(a, x, "I")
  PROVE  Drops /\ (\A y : y = x => cache'[a][y].state = "I")
BY DEF Restates, Drops

LEMMA CoherentDrops ==
  ASSUME Coherent, Drops,
         \A x \in Addrs : GrantOf(x)' => GrantOf(x) /\ Pending("ndr")' = Pending("ndr"),
         \A x \in Addrs : x \in sf \/ Recalled(x) =>
           x \in sf' \/ Recalled(x)' \/ (cache'[Host][x].state = "I" /\ ~GrantOf(x)'),
         Gone'
  PROVE  Coherent'
<1>1. \A a \in Agents, x \in Addrs :
        Valid(a, x)' => Valid(a, x) /\ cache'[a][x].state = cache[a][x].state
  BY DEF Drops, Valid
<1>2. Host \in Agents /\ Device \in Agents
  BY ConstantTypes
<1>3. Covered'
  <2> SUFFICES ASSUME NEW x \in Addrs, Valid(Host, x)' \/ GrantOf(x)'
               PROVE  x \in sf' \/ Recalled(x)'
    BY DEF Covered
  <2>1. Valid(Host, x) \/ GrantOf(x)
    BY <1>1, <1>2
  <2>2. x \in sf \/ Recalled(x)
    BY <2>1 DEF Coherent, Covered
  <2> QED
    BY <2>2 DEF Valid
<1>4. Apart'
  <2>1. ASSUME NEW x \in Addrs, Valid(Host, x)', Valid(Device, x)'
        PROVE  cache'[Host][x].state = "S" /\ cache'[Device][x].state = "S"
    BY <1>1, <1>2, <2>1 DEF Coherent, Apart
  <2>2. ASSUME NEW x \in Addrs, GrantOf(x)'
        PROVE  /\ cache'[Device][x].state # "M"
               /\ Valid(Device, x)' => \A n \in Pending("ndr")' : n.opcode = "CMP_S"
    <3>1. GrantOf(x) /\ Pending("ndr")' = Pending("ndr")
      BY <2>2
    <3>2. cache'[Device][x].state = cache[Device][x].state \/ cache'[Device][x].state = "I"
      BY <1>2 DEF Drops
    <3> QED
      BY <1>1, <1>2, <3>1, <3>2 DEF Coherent, Apart
  <2> QED
    BY <2>1, <2>2 DEF Apart
<1> QED
  BY <1>3, <1>4 DEF Coherent

LEMMA NeverExclusive ==
  ASSUME DeviceReadsOwn, Typed, Rest
  PROVE  \A x \in Addrs : x \in HostUses => cache[Device][x].state # "E"
BY RestParts DEF ProgramOf, DeviceReadsOwn

LEMMA CachedDrops == UNCHANGED cache => Drops
BY DEF Drops

LEMMA ProcessorsCoherent ==
  ASSUME DeviceReadsOwn, Typed, Rest, Using, Coherent, NEW a \in Agents, Processor(a)
  PROVE  Coherent'
<1>1. UNCHANGED <<links, ha, dcoh, sf>>
  BY DEF Processor
<1>2. Settled
  BY <1>1, StillLinks
<1>3. /\ \A x : GrantOf(x)' = GrantOf(x) /\ Recalled(x)' = Recalled(x)
      /\ Writing' = Writing /\ Pending("ndr")' = Pending("ndr")
      /\ Pending("birsp")' = Pending("birsp")
  BY <1>1, <1>2, SettledSix DEF GrantOf, Recalled, Fetching, Writing
<1>4. CASE UNCHANGED cache
  <2>1. Gone'
    BY <1>1, <1>3, <1>4 DEF Coherent, Gone, Valid
  <2> QED
    BY <1>1, <1>3, <1>4, <2>1, CachedDrops, CoherentDrops
<1>5. ASSUME NEW x \in Addrs, NEW v, cache[a][x].state \in {"E", "M"}, Commit(a, x, v)
      PROVE  Coherent'
  <2>1. Restates(a, x, "M")
    <3>1. cache \in [Agents -> [Addrs -> CacheBlock]]
      BY DEF Typed, ControllersTypeOK
    <3> QED
      BY <1>5, <3>1 DEF Commit, Restates
  <2>2. \A b \in Agents, y \in Addrs : Valid(b, y)' <=> Valid(b, y)
    BY <1>5, <2>1 DEF Restates, Valid
  <2>3. Host \in Agents /\ Device \in Agents
    BY ConstantTypes
  <2>4. Covered'
    BY <1>1, <1>3, <2>2, <2>3 DEF Coherent, Covered
  <2>5. Gone'
    <3>1. Writing => ha.addr \in Addrs
      BY DEF Writing, Typed, Working
    <3>2. Pending("birsp") # {} => dcoh.packet.addr \in Addrs
      BY RestParts DEF SnoopExchange, Typed, Working, CacheRequest
    <3>3. Writing => ~Valid(Host, ha.addr)'
      BY <1>1, <2>2, <2>3, <3>1 DEF Coherent, Gone, Valid
    <3>4. Pending("birsp") # {} => ~Valid(Host, dcoh.packet.addr)'
      BY <1>1, <2>2, <2>3, <3>2 DEF Coherent, Gone, Valid
    <3> QED
      BY <1>3, <3>3, <3>4 DEF Gone
  <2>6. Apart'
    <3>1. ASSUME NEW y \in Addrs, Valid(Host, y), Valid(Device, y)
          PROVE  cache'[Host][y].state = "S" /\ cache'[Device][y].state = "S"
      BY <1>5, <2>1, <2>3, <3>1 DEF Coherent, Apart, Restates
    <3>2. ASSUME NEW y \in Addrs, GrantOf(y)
          PROVE  /\ cache'[Device][y].state # "M"
                 /\ Valid(Device, y) => \A n \in Pending("ndr") : n.opcode = "CMP_S"
      BY <1>5, <2>1, <2>3, <3>2, GrantUsed, NeverExclusive DEF Coherent, Apart, Restates
    <3> QED
      BY <1>3, <2>2, <2>3, <3>1, <3>2 DEF Apart
  <2> QED
    BY <2>4, <2>5, <2>6 DEF Coherent
<1>6. ASSUME NEW x \in Addrs, Load(a, x) PROVE Coherent'
  BY <1>4, <1>6 DEF Load, Miss
<1>7. ASSUME NEW x \in Addrs, NEW v \in Values, Store(a, x, v) PROVE Coherent'
  BY <1>4, <1>5, <1>7 DEF Store, Miss
<1> QED
  BY <1>6, <1>7 DEF Processor

\* A step that touches no cache and grants nothing.
LEMMA CoherentStill ==
  ASSUME Coherent, UNCHANGED cache, Fetching' => Fetching /\ ha'.addr = ha.addr,
         Fetching' => Pending("ndr")' = Pending("ndr") \/ Pending("ndr")' = {},
         Writing' => Writing /\ ha'.addr = ha.addr,
         Pending("birsp")' # {} =>
           Pending("birsp") # {} /\ dcoh'.packet.addr = dcoh.packet.addr,
         \A x \in Addrs : x \in sf \/ Recalled(x) => x \in sf' \/ Recalled(x)'
  PROVE  Coherent'
<1>1. \A x \in Addrs : GrantOf(x)' => GrantOf(x) /\ Pending("ndr")' = Pending("ndr")
  BY DEF GrantOf
<1>2. Gone'
  BY DEF Coherent, Gone, Valid
<1> QED
  BY <1>1, <1>2, CachedDrops, CoherentDrops

LEMMA ReceivesCoherent ==
  ASSUME Typed, Rest, Coherent, HaReceive \/ DcohReceive
  PROVE  Coherent'
<1>1. Settled /\ UNCHANGED <<cache, ha, dcoh, sf>>
  BY RestParts, ReceivesKeep DEF HaReceive, DcohReceive, controllers
<1> QED
  BY <1>1, SettledSix, CoherentStill DEF Fetching, Writing, Recalled

LEMMA HaTakesCoherent ==
  ASSUME Typed, Rest, Rest', Coherent, HaTakeHost \/ HaTakeDevice
  PROVE  Coherent'
<1>1. ha'.state = "START" /\ UNCHANGED <<cache, dcoh, sf>>
  BY RestParts DEF HaTakeHost, HaTakeDevice, HaType, controllers
<1>2. Pending("birsp")' = Pending("birsp")
  <2>1. CASE HaTakeHost
    BY <2>1, StillLinks, SettledSix DEF HaTakeHost
  <2>2. CASE HaTakeDevice
    <3>1. queue["bisnp"] # <<>> /\ Pop("bisnp") /\ UNCHANGED <<m2s, s2m>>
      BY <2>2 DEF HaTakeDevice
    <3>2. Changes("bisnp", {})
      BY <3>1, RestParts, Pops, ChannelNames DEF Up
    <3> QED
      BY <3>2, ChangesSix
  <2> QED
    BY <2>1, <2>2
<1>3. ~Fetching' /\ ~Writing'
  BY <1>1 DEF Fetching, Writing
<1> QED
  BY <1>1, <1>2, <1>3, CoherentStill DEF Recalled

LEMMA HaNoneCoherent ==
  ASSUME Typed, Rest, Coherent, HaNone
  PROVE  Coherent'
<1>1. /\ ha'.state = ha.state /\ ha'.src = ha.src /\ ha'.type = ha.type /\ ha'.addr = ha.addr
      /\ UNCHANGED <<cache, links, dcoh, sf>>
  BY RestParts DEF HaNone, HaType, controllers
<1>2. Settled
  BY <1>1, StillLinks
<1> QED
  BY <1>1, <1>2, SettledSix, CoherentStill DEF Fetching, Writing, Recalled

LEMMA HaHostRequestCoherent ==
  ASSUME Typed, Rest, Coherent, HaFn, HaHostRequest
  PROVE  Coherent'
<1>1. /\ ha'.state = "WAIT" /\ ha'.src = ha.src /\ ha'.type = ha.type /\ ha'.addr = ha.addr
      /\ ha.state = "START" /\ ha.type \in Snoops /\ UNCHANGED <<cache, dcoh, sf>>
  BY RestParts DEF HaFn, HaHostRequest, HaType, Snoops, controllers
<1>2. Pending("birsp")' = Pending("birsp") /\ Pending("ndr")' = {}
  BY HaHostRequestRest
<1>3. Fetching' /\ ~Writing'
  BY <1>1, RestParts DEF HaShape, Fetching, Writing, Snoops
<1>4. \A x \in Addrs : ~GrantOf(x)'
  BY <1>2 DEF GrantOf
<1>5. Gone'
  BY <1>1, <1>2, <1>3 DEF Coherent, Gone, Valid
<1> QED
  BY <1>1, <1>4, <1>5, CachedDrops, CoherentDrops DEF Recalled

LEMMA HaHostWriteBackCoherent ==
  ASSUME Typed, Rest, Coherent, HaFn, HaHostWriteBack
  PROVE  Coherent'
<1>1. /\ ha'.state = "WAIT" /\ ha'.src = ha.src /\ ha'.type = ha.type /\ ha'.addr = ha.addr
      /\ ha.state = "START" /\ ha.type \in Writes /\ UNCHANGED <<dcoh, sf>>
      /\ Respond(Host, "OK", InitVal)
  BY RestParts DEF HaFn, HaHostWriteBack, HaType, Writes, AfterWriteBack
<1>2. Pending("birsp")' = Pending("birsp")
  BY HaHostWriteBackRest
<1>3. ha.src = Host
  BY <1>1, RestParts DEF HaShape, Writes
<1>4. Serves(Host) /\ ServedType(Host) = ha.type /\ ServedAddr(Host) = ha.addr
  BY <1>1, <1>3 DEF Serves, ServedType, ServedAddr
<1>5. ha.addr \in Addrs /\ Restates(Host, ha.addr, "I")
  BY <1>1, <1>4, RestParts, ConstantTypes, AnswerStates
<1>6. Drops /\ (\A y : y = ha.addr => cache'[Host][y].state = "I")
  BY <1>5, ConstantTypes, RestatesDrops
<1>7. \A x \in Addrs : ~GrantOf(x)'
  BY <1>1 DEF GrantOf, Fetching, Writes, Snoops
<1>8. Gone'
  <2>1. ~Valid(Host, ha.addr)'
    BY <1>1, <1>6 DEF Valid
  <2>2. Pending("birsp") # {} => dcoh.packet.addr \in Addrs
    BY RestParts DEF SnoopExchange, Typed, Working, CacheRequest
  <2>3. Pending("birsp") # {} => ~Valid(Host, dcoh.packet.addr)'
    BY <1>1, <1>6, <2>2, ConstantTypes DEF Coherent, Gone, Valid, Drops
  <2> QED
    BY <1>2, <2>1, <2>3 DEF Gone
<1> QED
  BY <1>1, <1>6, <1>7, <1>8, CoherentDrops DEF Recalled

\* Of a line the host uses the device asks for ownership.
LEMMA DeviceOwns ==
  ASSUME DeviceReadsOwn, Typed, Rest, dcoh.state # "INIT", dcoh.packet.type \in Snoops,
         dcoh.packet.addr \in HostUses
  PROVE  dcoh.packet.type = "SNP_INV" /\ dcoh.packet.addr \in Addrs
<1>1. Serves(Device) /\ ServedType(Device) = dcoh.packet.type /\ ServedAddr(Device) = dcoh.packet.addr
  BY ConstantTypes DEF Serves, ServedType, ServedAddr
<1>2. Awaits(Device, dcoh.packet.type, dcoh.packet.addr)
  BY <1>1, ConstantTypes, RestParts, AtWork
<1>3. dcoh.packet \in CacheRequest
  BY DEF Typed, Working
<1> QED
  BY <1>2, <1>3 DEF Awaits, DeviceReadsOwn, Snoops, Writes, CacheRequest

LEMMA HaBISnpCoherent ==
  ASSUME DeviceReadsOwn, Typed, Rest, Using, Coherent, HaFn, HaBISnp
  PROVE  Coherent'
<1>1. /\ ha.state = "START" /\ ha.type \in {"BISNP_DATA", "BISNP_INV"}
      /\ ha'.src = ha.src /\ ha'.addr = ha.addr /\ UNCHANGED <<dcoh, sf>>
  BY RestParts DEF HaFn, HaBISnp, HaType
<1>2. ha.src = Device /\ Snooping
  BY <1>1, RestParts DEF HaShape, RequestType, Snooping
<1>3. /\ dcoh.state = "WAIT" /\ ha.addr = dcoh.packet.addr
      /\ ha.type = BISnpOpcode(dcoh.packet.type)
  BY <1>2, RestParts DEF SnoopExchange
<1>4. ha.type = "BISNP_INV" /\ ha.addr \in Addrs
  BY <1>3, RestParts, DeviceOwns DEF Using, DcohShape, BISnpOpcode
<1>5. Snoop(Host, "SNP_INV", ha.addr)
  BY <1>4 DEF HaBISnp
<1>6. Restates(Host, ha.addr, "I")
  BY <1>4, <1>5, ConstantTypes, SnoopStates
<1>7. Drops /\ (\A y : y = ha.addr => cache'[Host][y].state = "I")
  BY <1>4, <1>6, ConstantTypes, RestatesDrops
<1>8. \A x \in Addrs : ~GrantOf(x)'
  BY <1>1, <1>2 DEF GrantOf, Fetching
<1>9. Gone'
  BY <1>1, <1>3, <1>7 DEF Gone, Valid
<1> QED
  BY <1>1, <1>7, <1>8, <1>9, CoherentDrops DEF Recalled

LEMMA HaCompletionCoherent ==
  ASSUME DeviceReadsOwn, Typed, Rest, Using, Coherent, HaNdr, HaCompletion
  PROVE  Coherent'
<1> DEFINE n == Head(queue["ndr"])
<1>1. /\ n.opcode \in {"CMP_S", "CMP_E"} /\ UNCHANGED <<dcoh, sf>> /\ ha'.state = "INIT"
      /\ \E data : Respond(Host, IF n.opcode = "CMP_S" THEN "RSP_S" ELSE "RSP_I", data)
  BY RestParts DEF HaNdr, HaCompletion, HaType
<1>2. /\ ha.state = "WAIT" /\ Pending("ndr") = {n} /\ (Fetching => Grant(n))
      /\ (Writing => n.opcode = "CMP")
  BY AtCompletion DEF HaNdr
<1>3. PICK status, data : /\ status = IF n.opcode = "CMP_S" THEN "RSP_S" ELSE "RSP_I"
                          /\ Respond(Host, status, data)
  BY <1>1
<1> HIDE DEF n
<1>4. Fetching /\ Grant(n)
  BY <1>1, <1>2 DEF Writing
<1>5. Serves(Host) /\ ServedType(Host) = ha.type /\ ServedAddr(Host) = ha.addr /\ ha.type \in Snoops
  BY <1>4 DEF Fetching, Serves, ServedType, ServedAddr
<1>6. PICK x \in Addrs : x = ha.addr
  BY <1>3, <1>5, ConstantTypes, RestParts, AnswerStates
<1>7. GrantOf(x)
  BY <1>2, <1>4, <1>6 DEF GrantOf
<1>8. PICK s : /\ Restates(Host, x, s)
               /\ s = IF ha.type = "SNP_INV" THEN "M" ELSE FillState(status)
  BY <1>3, <1>5, <1>6, ConstantTypes, RestParts, AnswerStates DEF Snoops
<1>9. Pending("birsp")' = {}
  BY <1>2, <1>4, HaCompletionRest, RestParts DEF SnoopExchange
<1>10. \A y \in Addrs : ~GrantOf(y)'
  BY <1>1 DEF GrantOf, Fetching
<1>11. Gone'
  BY <1>1, <1>9 DEF Gone, Writing
<1>12. \A a \in Agents, y \in Addrs :
         cache'[a][y].state = IF a = Host /\ y = x THEN s ELSE cache[a][y].state
  BY <1>8 DEF Restates
<1>13. Covered'
  <2> SUFFICES ASSUME NEW y \in Addrs, Valid(Host, y)'
               PROVE  y \in sf' \/ Recalled(y)'
    BY <1>10 DEF Covered
  <2>1. Valid(Host, y) \/ GrantOf(y)
    BY <1>7, <1>12, ConstantTypes DEF Valid
  <2> QED
    BY <1>1, <2>1 DEF Coherent, Covered, Recalled
<1>14. Valid(Device, x) => s = "S" /\ cache[Device][x].state = "S"
  <2> SUFFICES ASSUME Valid(Device, x) PROVE s = "S" /\ cache[Device][x].state = "S"
    OBVIOUS
  <2>1. n.opcode = "CMP_S" /\ cache[Device][x].state # "M"
    BY <1>2, <1>7 DEF Coherent, Apart
  <2>2. s = "S"
    BY <1>3, <1>4, <1>5, <1>8, <2>1 DEF Grant, FillState, Snoops
  <2>3. cache[Device][x].state \in CacheState
    BY ConstantTypes DEF Typed, ControllersTypeOK, CacheBlock
  <2> QED
    BY <1>7, <2>1, <2>2, <2>3, GrantUsed, NeverExclusive DEF CacheState, Valid
<1>15. Apart'
  <2>1. ASSUME NEW y \in Addrs, Valid(Host, y)', Valid(Device, y)'
        PROVE  cache'[Host][y].state = "S" /\ cache'[Device][y].state = "S"
    <3>1. cache'[Device][y].state = cache[Device][y].state /\ Valid(Device, y)
      BY <1>12, <2>1, ConstantTypes DEF Valid
    <3>2. CASE y = x
      BY <1>12, <1>14, <3>1, <3>2, ConstantTypes
    <3>3. CASE y # x
      BY <1>12, <2>1, <3>1, <3>3, ConstantTypes DEF Coherent, Apart, Valid
    <3> QED
      BY <3>2, <3>3
  <2> QED
    BY <1>10, <2>1 DEF Apart
<1> QED
  BY <1>11, <1>13, <1>15 DEF Coherent

LEMMA HaPlainCompletionCoherent ==
  ASSUME Typed, Rest, Coherent, HaNdr, HaPlainCompletion
  PROVE  Coherent'
<1>1. /\ ha.state = "WAIT" /\ Head(queue["ndr"]).opcode = "CMP" /\ UNCHANGED <<cache, dcoh, sf>>
      /\ (Fetching => Grant(Head(queue["ndr"])))
  BY AtCompletion DEF HaNdr, HaPlainCompletion, controllers
<1>2. Writing
  BY <1>1 DEF Writing, Grant
<1>3. ha'.state = "INIT"
  BY <1>1, RestParts DEF HaPlainCompletion, HaShape, HaType
<1>4. ~Fetching' /\ ~Writing'
  BY <1>3 DEF Fetching, Writing
<1>5. CASE ha.sched
  <2>1. Snooping
    BY <1>5, RestParts DEF HaShape, Snooping
  <2>2. ha.addr = dcoh.packet.addr
    BY <2>1, RestParts DEF SnoopExchange
  <2>3. ~Valid(Host, dcoh.packet.addr)'
    BY <1>1, <1>2, <2>2 DEF Coherent, Gone, Valid
  <2>4. Gone'
    BY <1>1, <1>4, <2>3 DEF Gone
  <2> QED
    BY <1>1, <1>4, <2>4, CachedDrops, CoherentDrops DEF GrantOf, Recalled
<1>6. CASE ~ha.sched
  BY <1>1, <1>4, <1>6, HaPlainCompletionRest, CoherentStill DEF Recalled
<1> QED
  BY <1>5, <1>6

LEMMA DcohRestsCoherent ==
  ASSUME Typed, Rest, Coherent, DcohOwn, DcohTake \/ DcohOwnNone
  PROVE  Coherent'
<1>1. UNCHANGED <<cache, links, ha, sf>>
  BY DEF DcohOwn, DcohTake, DcohOwnNone, links, controllers
<1>2. Settled
  BY <1>1, StillLinks
<1>3. /\ dcoh.state = "WAIT" => dcoh'.state = "WAIT" /\ dcoh'.packet = dcoh.packet
      /\ dcoh.state # "WAIT" => Pending("birsp") = {}
  BY RestParts DEF DcohTake, DcohOwnNone, DcohType, SnoopExchange
<1> QED
  BY <1>1, <1>2, <1>3, SettledSix, CoherentStill DEF Fetching, Writing, Recalled

\* The device has the line of its request, and the host does not have it.
LEMMA DeviceCommits ==
  ASSUME DeviceReadsOwn, Typed, Rest, Using, Coherent, NEW x \in Addrs, NEW s, Restates(Device, x, s),
         ~Valid(Host, x), ~GrantOf(x), UNCHANGED <<ha, sf>>,
         Pending("ndr")' = Pending("ndr"), Pending("birsp")' = {},
         \A y \in Addrs : Recalled(y) => Recalled(y)' \/ y = x
  PROVE  Coherent'
<1>1. \A a \in Agents, y \in Addrs :
        cache'[a][y].state = IF a = Device /\ y = x THEN s ELSE cache[a][y].state
  BY DEF Restates
<1>2. /\ \A y \in Addrs : Valid(Host, y)' = Valid(Host, y)
      /\ \A y \in Addrs : y # x => Valid(Device, y)' = Valid(Device, y)
  BY <1>1, ConstantTypes DEF Valid
<1>3. \A y : GrantOf(y)' = GrantOf(y)
  BY DEF GrantOf, Fetching
<1>4. Covered'
  BY <1>2, <1>3 DEF Coherent, Covered
<1>5. Gone'
  <2>1. Writing => ha.addr \in Addrs
    BY DEF Writing, Typed, Working
  <2>2. Writing => ~Valid(Host, ha.addr)'
    BY <1>2, <2>1 DEF Coherent, Gone, Valid
  <2> QED
    BY <2>2 DEF Gone, Writing, Fetching
<1>6. Apart'
  <2>1. ASSUME NEW y \in Addrs, Valid(Host, y)', Valid(Device, y)'
        PROVE  cache'[Host][y].state = "S" /\ cache'[Device][y].state = "S"
    BY <1>1, <1>2, <2>1, ConstantTypes DEF Coherent, Apart
  <2>2. ASSUME NEW y \in Addrs, GrantOf(y)'
        PROVE  /\ cache'[Device][y].state # "M"
               /\ Valid(Device, y)' => \A n \in Pending("ndr")' : n.opcode = "CMP_S"
    BY <1>1, <1>2, <1>3, <2>2, ConstantTypes DEF Coherent, Apart
  <2> QED
    BY <2>1, <2>2 DEF Apart
<1> QED
  BY <1>4, <1>5, <1>6 DEF Coherent

LEMMA DcohLocalCoherent ==
  ASSUME DeviceReadsOwn, Typed, Rest, Using, Coherent, DcohOwn, dcoh.state = "START",
         DcohWriteBack \/ DcohOwnMiss, UNCHANGED queue
  PROVE  Coherent'
<1>1. PICK status, data : Respond(Device, status, data)
  BY DEF DcohWriteBack, DcohOwnMiss
<1>2. UNCHANGED <<links, ha, sf>> /\ dcoh'.state = "INIT"
  BY DEF DcohOwn, DcohWriteBack, DcohOwnMiss, FinishDcoh, links
<1>3. /\ Pending("ndr")' = Pending("ndr") /\ Pending("birsp") = {} /\ Pending("birsp")' = {}
      /\ \A x : ~Recalled(x)
  BY <1>2, StillLinks, SettledSix, RestParts DEF SnoopExchange, Recalled
<1>4. Serves(Device) /\ ServedType(Device) = dcoh.packet.type /\ ServedAddr(Device) = dcoh.packet.addr
  BY ConstantTypes DEF Serves, ServedType, ServedAddr
<1>5. CASE DcohWriteBack
  <2>1. dcoh.packet.addr \in Addrs /\ Restates(Device, dcoh.packet.addr, "I")
    BY <1>1, <1>4, <1>5, ConstantTypes, RestParts, AnswerStates DEF DcohWriteBack, Writes
  <2>2. Drops
    BY <2>1, ConstantTypes, RestatesDrops
  <2>3. Gone'
    <3>1. Writing => ha.addr \in Addrs
      BY DEF Writing, Typed, Working
    <3>2. Writing => ~Valid(Host, ha.addr)'
      BY <1>2, <2>2, <3>1, ConstantTypes DEF Coherent, Gone, Valid, Drops
    <3> QED
      BY <1>2, <1>3, <3>2 DEF Gone, Writing, Fetching
  <2> QED
    BY <1>2, <1>3, <2>2, <2>3, CoherentDrops DEF GrantOf, Fetching
<1>6. CASE DcohOwnMiss
  <2>1. dcoh.packet.addr \in Addrs
    BY <1>1, <1>4, ConstantTypes, RestParts, AnswerStates
  <2>2. PICK s : Restates(Device, dcoh.packet.addr, s)
    BY <1>1, <1>4, <1>6, ConstantTypes, RestParts, AnswerStates DEF DcohOwnMiss
  <2>3. ~Valid(Host, dcoh.packet.addr) /\ ~GrantOf(dcoh.packet.addr)
    BY <1>3, <1>6, <2>1 DEF DcohOwnMiss, Coherent, Covered
  <2> QED
    BY <1>2, <1>3, <2>1, <2>2, <2>3, DeviceCommits
<1> QED
  BY <1>5, <1>6

LEMMA DcohBISnpCoherent ==
  ASSUME Typed, Rest, Coherent, DcohOwn, dcoh.state = "START", DcohBISnp, UNCHANGED queue
  PROVE  Coherent'
<1>1. /\ UNCHANGED <<cache, ha>> /\ dcoh'.state = "WAIT" /\ dcoh'.packet = dcoh.packet
      /\ sf' = IF dcoh.packet.type = "SNP_INV" THEN sf \ {dcoh.packet.addr} ELSE sf
  BY RestParts DEF DcohOwn, DcohBISnp, DcohType, controllers
<1>2. \A x \in Addrs : x \in sf \/ Recalled(x) => x \in sf' \/ Recalled(x)'
  BY <1>1 DEF Recalled
<1> QED
  BY <1>1, <1>2, DcohBISnpRest, CoherentStill DEF Fetching, Writing

LEMMA DcohBIRspCoherent ==
  ASSUME DeviceReadsOwn, Typed, Rest, Using, Coherent, DcohOwn, DcohBIRsp
  PROVE  Coherent'
<1>1. PICK status, data : Respond(Device, status, data)
  BY DEF DcohBIRsp
<1>2. UNCHANGED <<ha, sf>> /\ dcoh.state = "WAIT"
  BY DEF DcohOwn, DcohBIRsp
<1>3. Serves(Device) /\ ServedType(Device) = dcoh.packet.type /\ ServedAddr(Device) = dcoh.packet.addr
  BY <1>2, ConstantTypes DEF Serves, ServedType, ServedAddr
<1>4. dcoh.packet.type = "SNP_INV" /\ dcoh.packet.addr \in Addrs
  BY <1>2, RestParts, DeviceOwns DEF Using, DcohShape
<1>5. Restates(Device, dcoh.packet.addr, "M")
  BY <1>1, <1>3, <1>4, ConstantTypes, RestParts, AnswerStates
<1>6. /\ Pending("birsp") # {} /\ Pending("birsp")' = {} /\ Pending("ndr")' = Pending("ndr")
  BY DcohBIRspRest
<1>7. ~Valid(Host, dcoh.packet.addr) /\ ~GrantOf(dcoh.packet.addr)
  BY <1>6, RestParts DEF Coherent, Gone, SnoopExchange, GrantOf
<1> QED
  BY <1>2, <1>4, <1>5, <1>6, <1>7, DeviceCommits DEF Recalled

LEMMA DcohReqCoherent ==
  ASSUME DeviceReadsOwn, Typed, Rest, Using, Coherent, DcohReq
  PROVE  Coherent'
<1>1. /\ Head(queue["req"]) = Fetch /\ Fetching /\ ha.addr \in Addrs /\ Pending("ndr") = {}
  BY AtRequest
<1>2. PICK x \in Addrs : x = ha.addr
  BY <1>1
<1>3. PICK n : /\ Pending("birsp")' = {} /\ sf' = sf \cup {x} /\ Pending("ndr")' = {n}
               /\ ha.type = "SNP_DATA" /\ Valid(Device, x) => n.opcode = "CMP_S"
  BY <1>2, DcohReqRest, OwnApart
<1>4. /\ UNCHANGED ha /\ dcoh'.state = dcoh.state /\ dcoh'.packet = dcoh.packet
      /\ Snoop(Device, SnoopOfReq(Fetch.opcode), Fetch.addr)
  BY <1>1, RestParts DEF DcohReq, DcohType
<1>5. PICK type : /\ Snoop(Device, type, x)
                  /\ type = IF ha.type = "SNP_DATA" THEN "SNP_DATA" ELSE "SNP_INV"
  BY <1>2, <1>4 DEF Fetch, SnoopOfReq
<1>6. \A a \in Agents, y \in Addrs :
        cache'[a][y].state = IF a = Device /\ y = x
                             THEN IF type = "SNP_INV" \/ cache[Device][x].state = "I" THEN "I" ELSE "S"
                             ELSE cache[a][y].state
  BY <1>5, ConstantTypes, SnoopStates DEF Restates
<1>7. \A y : ~GrantOf(y) /\ (GrantOf(y)' => y = x) /\ Recalled(y)' = Recalled(y)
  BY <1>1, <1>2, <1>4 DEF GrantOf, Fetching, Recalled
<1>8. Covered'
  BY <1>3, <1>6, <1>7, ConstantTypes DEF Coherent, Covered, Valid
<1>9. Gone'
  BY <1>1, <1>3, <1>4 DEF Gone, Writing, Fetching
<1>10. Apart'
  <2>1. ASSUME NEW y \in Addrs, Valid(Host, y)', Valid(Device, y)'
        PROVE  cache'[Host][y].state = "S" /\ cache'[Device][y].state = "S"
    <3>1. Valid(Host, y) /\ Valid(Device, y) /\ cache'[Host][y].state = cache[Host][y].state
      BY <1>6, <2>1, ConstantTypes DEF Valid
    <3>2. cache[Host][y].state = "S" /\ cache[Device][y].state = "S"
      BY <3>1 DEF Coherent, Apart
    <3>3. cache'[Device][y].state \in {"S", "I"}
      BY <1>6, <3>2, ConstantTypes
    <3> QED
      BY <2>1, <3>1, <3>2, <3>3 DEF Valid
  <2>2. ASSUME NEW y \in Addrs, GrantOf(y)'
        PROVE  /\ cache'[Device][y].state # "M"
               /\ Valid(Device, y)' => \A m \in Pending("ndr")' : m.opcode = "CMP_S"
    <3>1. y = x
      BY <1>7, <2>2
    <3>2. cache'[Device][x].state \in {"S", "I"}
      BY <1>6, ConstantTypes
    <3>3. Valid(Device, x)' => ha.type = "SNP_DATA" /\ Valid(Device, x)
      BY <1>5, <1>6, ConstantTypes DEF Valid
    <3> QED
      BY <1>3, <3>1, <3>2, <3>3
  <2> QED
    BY <2>1, <2>2 DEF Apart
<1> QED
  BY <1>8, <1>9, <1>10 DEF Coherent

LEMMA DcohRwDCoherent ==
  ASSUME Typed, Rest, Coherent, DcohRwD
  PROVE  Coherent'
<1>1. UNCHANGED ha /\ dcoh'.state = dcoh.state /\ dcoh'.packet = dcoh.packet
  BY RestParts DEF DcohRwD, DcohType
<1>2. Pending("birsp")' = Pending("birsp")
  BY DcohRwDRest
<1>3. CASE queue["rwd"] = <<>>
  <2>1. UNCHANGED <<cache, sf, links>>
    BY <1>3 DEF DcohRwD, links
  <2> QED
    BY <1>1, <1>2, <2>1, StillLinks, SettledSix, CoherentStill DEF Fetching, Writing, Recalled
<1>4. CASE queue["rwd"] # <<>>
  <2>1. Pending("rwd") = {Head(queue["rwd"])} /\ Pending("rwd") # {}
    BY <1>4, RestParts, InQueue, ChannelNames DEF Down
  <2>2. Writing /\ ha.addr \in Addrs
    BY <2>1, RestParts DEF Exchange, Writing, Typed, Working
  <2>3. Head(queue["rwd"]).addr = ha.addr
    BY <2>1, <2>2, RestParts DEF Exchange
  <2>4. Snoop(Device, "SNP_INV", ha.addr) /\ sf' = sf \ {ha.addr}
    BY <1>4, <2>3 DEF DcohRwD
  <2>5. Restates(Device, ha.addr, "I")
    BY <2>2, <2>4, ConstantTypes, SnoopStates
  <2>6. Drops
    BY <2>2, <2>5, ConstantTypes, RestatesDrops
  <2>7. cache'[Host][ha.addr].state = "I"
    BY <2>2, <2>6, ConstantTypes DEF Coherent, Gone, Valid, Drops
  <2>8. \A x \in Addrs : ~GrantOf(x)'
    BY <1>1, <2>2 DEF GrantOf, Writing, Fetching
  <2>9. Gone'
    <3>1. Pending("birsp") # {} => dcoh.packet.addr \in Addrs
      BY RestParts DEF SnoopExchange, Typed, Working, CacheRequest
    <3>2. Pending("birsp") # {} => ~Valid(Host, dcoh.packet.addr)'
      BY <1>1, <2>6, <3>1, ConstantTypes DEF Coherent, Gone, Valid, Drops
    <3> QED
      BY <1>1, <1>2, <2>7, <3>2 DEF Gone, Valid
  <2> QED
    BY <1>1, <2>4, <2>6, <2>7, <2>8, <2>9, CoherentDrops DEF Recalled
<1> QED
  BY <1>3, <1>4

----------------------------------------------------------------------------
(* Coherence: the theorems.                                                *)

LEMMA CoherentInit == Init => Coherent
<1> SUFFICES ASSUME Init PROVE Coherent
  OBVIOUS
<1>1. \A a \in Agents, x \in Addrs : ~Valid(a, x)
  BY DEF Init, ControllersInit, Invalid, Valid
<1>2. ha.state = "INIT" /\ dcoh.state = "INIT"
  BY DEF Init, HaIdle
<1>3. Pending("birsp") = {}
  BY <1>2, ProtocolInit, RestParts DEF Protocol, SnoopExchange
<1> QED
  BY <1>1, <1>2, <1>3, ConstantTypes
     DEF Coherent, Covered, Gone, Apart, GrantOf, Fetching, Writing

LEMMA CoherentStep == DeviceReadsOwn /\ Protocol /\ Using /\ Coherent /\ [Next]_vars => Coherent'
<1> SUFFICES ASSUME DeviceReadsOwn, Protocol, Using, Coherent, [Next]_vars PROVE Coherent'
  OBVIOUS
<1>1. Typed /\ Rest /\ Rest'
  BY OwnApart, ProtocolStep DEF Protocol
<1>2. CASE HaStep
  BY <1>1, <1>2, HaTakesCoherent, HaHostWriteBackCoherent, HaHostRequestCoherent,
     HaBISnpCoherent, HaCompletionCoherent, HaPlainCompletionCoherent, NoLoneData,
     HaNoneCoherent DEF HaStep, HaFn, HaNdr
<1>3. CASE DcohStep
  BY <1>1, <1>3, DcohRestsCoherent, DcohLocalCoherent, DcohBISnpCoherent, DcohBIRspCoherent,
     DcohReqCoherent, DcohRwDCoherent DEF DcohStep, DcohOwn
<1>4. CASE HaReceive \/ DcohReceive
  BY <1>1, <1>4, ReceivesCoherent
<1>5. CASE \E a \in Agents : Processor(a)
  BY <1>1, <1>5, ProcessorsCoherent
<1>6. CASE UNCHANGED vars
  <2>1. UNCHANGED <<cache, links, ha, dcoh, sf>>
    BY <1>6 DEF vars, controllers
  <2>2. Settled
    BY <2>1, StillLinks
  <2> QED
    BY <1>1, <2>1, <2>2, SettledSix, CoherentStill DEF Fetching, Writing, Recalled
<1> QED
  BY <1>2, <1>3, <1>4, <1>5, <1>6 DEF Next

LEMMA CoherentAlways == DeviceReadsOwn => (Spec => [](Protocol /\ Using /\ Coherent))
<1> SUFFICES ASSUME DeviceReadsOwn PROVE Spec => [](Protocol /\ Using /\ Coherent)
  OBVIOUS
<1>1. Init => Protocol /\ Using /\ Coherent
  BY ProtocolInit, UsingInit, CoherentInit
<1>2. Protocol /\ Using /\ Coherent /\ [Next]_vars => (Protocol /\ Using /\ Coherent)'
  BY OwnApart, ProtocolStep, UsingStep, CoherentStep
<1> QED
  BY <1>1, <1>2, PTL DEF Spec

\* CxlMemDcoh snoops the host for a line only if _sf_host has it: a line the
\* host may use is in the filter, or the device waits for the host to give it
\* up.  Of the host's lines the device reads none, so the host is never left a
\* shared copy that the filter has lost.
THEOREM HostFilterInclusive == DeviceReadsOwn => (Spec => []SnoopFilterInclusive)
<1>1. Protocol /\ Coherent => SnoopFilterInclusive
  BY DEF Coherent, Covered, Recalled, SnoopFilterInclusive, Live
<1> QED
  BY <1>1, CoherentAlways, PTL

\* Host and device never both have a usable copy of a line that one of them
\* may write without asking.
THEOREM OneOwner == DeviceReadsOwn => (Spec => []OwnerAlone)
<1>1. Protocol /\ Coherent => OwnerAlone
  <2> SUFFICES ASSUME Coherent, NEW a \in Agents, NEW b \in Agents, NEW x \in Addrs, a # b,
                      Valid(a, x), Valid(b, x), cache[a][x].state \in {"E", "M"}
               PROVE  FALSE
    BY DEF OwnerAlone, Live
  <2>1. Valid(Host, x) /\ Valid(Device, x)
    BY DEF Agents
  <2>2. cache[Host][x].state = "S" /\ cache[Device][x].state = "S"
    BY <2>1 DEF Coherent, Apart
  <2> QED
    BY <2>2 DEF Agents
<1> QED
  BY <1>1, CoherentAlways, PTL
----------------------------------------------------------------------------
(* Data: when the host's cache has room for all lines, and the device reads *)
(* only its own, the two caches and the memory are one coherent memory.     *)

HostHolds == IsFiniteSet(Addrs) /\ Cardinality(Addrs) <= Ways[Host]

\* The host replaces nothing: what it writes is what a snoop found.
HostKeeps ==
  /\ proc[Host].pc # "flush"
  /\ ha.state = "WAIT" /\ ha.src = Host => ha.type \in Snoops

\* A line that is loaded is not there.
Missing(a) == proc[a].pc = "fill" \/ (proc[a].pc = "flush" /\ proc[a].op = "load")
Filling    == \A a \in Agents : Missing(a) => ~Valid(a, proc[a].addr)

\* What the caches hold, and the packets carry, is what was stored last.
Current == \A a \in Agents, x \in Addrs : Valid(a, x) => cache[a][x].data = latest[x]
Carrying ==
  /\ \A p \in Pending("rwd") : p.data = latest[p.addr]
  /\ Fetching => \A d \in Pending("drs") : d.data = latest[ha.addr]

\* So is what the memory has of a line that no cache holds or is about to get,
\* and that is not being written back.
Stored == \A x \in Addrs :
  \/ Valid(Host, x) \/ Valid(Device, x) \/ GrantOf(x)
  \/ \E p \in Pending("rwd") : p.addr = x
  \/ mem[x] = latest[x]

\* The device's write-back r has not reached the memory.  When the host took
\* the line meanwhile, it does no harm.
Flushes(r) ==
  /\ r.type \in Writes
  /\ \/ request[Device] # <<>> /\ request[Device][1] = r
     \/ dcoh.state = "START" /\ dcoh.packet = r
Flushing == \A r \in CacheRequest : Flushes(r) =>
  IF Valid(Device, r.addr) THEN r.data = latest[r.addr]
                           ELSE Valid(Host, r.addr) \/ GrantOf(r.addr)

Fresh == HostKeeps /\ Filling /\ Current /\ Carrying /\ Stored /\ Flushing
Facts == Typed /\ Rest /\ Using /\ Coherent /\ Fresh

\* The copies the abstract memory sees, and its steps.
CopyOf(a, x) == IF Live(a, x) THEN cache[a][x].data ELSE None
Copies       == [a \in Agents |-> [x \in Addrs |-> CopyOf(a, x)]]
Refines      == Abstract!Next \/ UNCHANGED <<latest, Copies>>

\* Only the copy of x that a has changes: to v.
Recopies(a, x, v) ==
  \A b \in Agents, y \in Addrs : CopyOf(b, y)' = IF b = a /\ y = x THEN v ELSE CopyOf(b, y)

LEMMA RecopiesCopies ==
  ASSUME NEW a \in Agents, NEW x \in Addrs, NEW v, Recopies(a, x, v)
  PROVE  Copies' = [Copies EXCEPT ![a][x] = v]
BY DEF Copies, Recopies

LEMMA RefinesForget ==
  ASSUME NEW a \in Agents, NEW x \in Addrs, Recopies(a, x, None), latest' = latest
  PROVE  Refines
<1>1. Copies' = [Copies EXCEPT ![a][x] = None]
  BY RecopiesCopies
<1>2. Abstract!Forget(a, x)
  BY <1>1 DEF Abstract!Forget, Copies, CopyOf
<1> QED
  BY <1>2 DEF Refines, Abstract!Next

LEMMA RefinesObtain ==
  ASSUME NEW a \in Agents, NEW x \in Addrs, Recopies(a, x, latest[x]), latest' = latest
  PROVE  Refines
<1>1. Copies' = [Copies EXCEPT ![a][x] = latest[x]]
  BY RecopiesCopies
<1>2. Abstract!Obtain(a, x)
  BY <1>1 DEF Abstract!Obtain, Copies, CopyOf
<1> QED
  BY <1>2 DEF Refines, Abstract!Next

LEMMA RefinesWrite ==
  ASSUME NEW a \in Agents, NEW x \in Addrs, NEW v \in Values, Recopies(a, x, v),
         \A b \in Agents : b # a => ~Valid(b, x), latest' = [latest EXCEPT ![x] = v]
  PROVE  Refines
<1>1. Copies' = [Copies EXCEPT ![a][x] = v]
  BY RecopiesCopies
<1>2. \A b \in Agents \ {a} : Copies[b][x] = None
  BY DEF Copies, CopyOf, Live
<1>3. Abstract!Write(a, x, v)
  BY <1>1, <1>2 DEF Abstract!Write, Copies, CopyOf
<1> QED
  BY <1>3 DEF Refines, Abstract!Next

LEMMA RefinesStill ==
  ASSUME \A b \in Agents, y \in Addrs : CopyOf(b, y)' = CopyOf(b, y), latest' = latest
  PROVE  Refines
BY DEF Refines, Copies

----------------------------------------------------------------------------
(* What the operations of a controller do to its blocks and copies.        *)

\* The block of x in the cache of a is now b, no other has changed.
Recaches(a, x, b) ==
  \A c \in Agents, y \in Addrs : cache'[c][y] = IF c = a /\ y = x THEN b ELSE cache[c][y]

\* The processor of a gets the line x, with v as its value, and goes on.
Takes(a, x, s, v) ==
  /\ Recaches(a, x, [state |-> s, data |-> v]) /\ s # "I"
  /\ latest' = [latest EXCEPT ![x] = v]
  /\ proc' = [proc EXCEPT ![a] = Idle] /\ proc[a].pc # "flush"

\* The processor of a has given up the line x, and goes on to ask for its own.
Evicts(a, x) ==
  /\ Recaches(a, x, Invalid) /\ latest' = latest /\ Evicting(a, x)
  /\ \E p : /\ proc' = [proc EXCEPT ![a] = p] /\ p.pc \in {"fill", "own"}
            /\ p.addr = proc[a].addr /\ (p.pc = "fill" => proc[a].op = "load")

LEMMA SnoopRecaches ==
  ASSUME Typed, NEW a \in Agents, NEW type, NEW x \in Addrs, Snoop(a, type, x)
  PROVE  Recaches(a, x, IF type = "SNP_INV" \/ cache[a][x].state = "I" THEN Invalid
                        ELSE [state |-> "S", data |-> cache[a][x].data])
<1>1. cache \in [Agents -> [Addrs -> CacheBlock]]
  BY DEF Typed, ControllersTypeOK
<1> QED
  BY <1>1 DEF Snoop, Recaches

LEMMA AnswerRecaches ==
  ASSUME Typed, NEW a \in Agents, ProgramOf(a), Serves(a), NEW status, NEW data \in Values,
         Respond(a, status, data), NEW x, x = ServedAddr(a)
  PROVE  /\ x \in Addrs
         /\ ServedType(a) \in Writes => Evicts(a, x)
         /\ ServedType(a) = "SNP_DATA" =>
              /\ (data = latest[x] => Takes(a, x, FillState(status), data))
              /\ proc[a].pc = "fill" /\ proc[a].addr = x
         /\ ServedType(a) = "SNP_INV" => \E v \in Values : Takes(a, x, "M", v)
         /\ ServedType(a) \in Writes \cup {"SNP_DATA", "SNP_INV"}
<1>1. Awaits(a, ServedType(a), x)
  BY AtWork
<1>2. /\ cache \in [Agents -> [Addrs -> CacheBlock]] /\ proc \in [Agents -> {Idle} \cup Busy]
      /\ latest \in [Addrs -> Values]
  BY DEF Typed, ControllersTypeOK
<1>3. proc[a] \in Busy
  BY <1>2 DEF Respond, Idle
<1>4. proc[a].addr \in Addrs /\ proc[a].victim \in Addrs /\ proc[a].val \in Values
      /\ proc[a].op \in {"load", "store"}
  BY <1>3 DEF Busy
<1>5. CASE proc[a].pc = "flush"
  <2>1. /\ cache' = [cache EXCEPT ![a][proc[a].victim] = Invalid] /\ latest' = latest
        /\ proc' = [proc EXCEPT ![a] = Asking(proc[a].op, proc[a].addr, proc[a].val)]
    BY <1>5 DEF Respond, Ask
  <2>2. x = proc[a].victim /\ ServedType(a) \in Writes
    BY <1>1, <1>5 DEF Awaits
  <2>3. Recaches(a, x, Invalid)
    BY <1>2, <1>4, <2>1, <2>2 DEF Recaches
  <2> DEFINE p == Asking(proc[a].op, proc[a].addr, proc[a].val)
  <2>4. /\ p.pc \in {"fill", "own"} /\ p.addr = proc[a].addr
        /\ (p.pc = "fill" => proc[a].op = "load")
    BY DEF Asking
  <2> HIDE DEF p
  <2>5. Evicts(a, x)
    <3>1. proc' = [proc EXCEPT ![a] = p]
      BY <2>1 DEF p
    <3> QED
      BY <1>5, <2>1, <2>2, <2>3, <2>4, <3>1 DEF Evicts, Evicting
  <2> QED
    BY <1>4, <2>2, <2>5 DEF Writes
<1>6. CASE proc[a].pc = "fill"
  <2>1. /\ cache' = [cache EXCEPT ![a][proc[a].addr] =
                      [state |-> FillState(status), data |-> data]]
        /\ latest' = latest /\ proc' = [proc EXCEPT ![a] = Idle]
    BY <1>6 DEF Respond
  <2>2. x = proc[a].addr /\ ServedType(a) = "SNP_DATA"
    BY <1>1, <1>6 DEF Awaits
  <2>3. Recaches(a, x, [state |-> FillState(status), data |-> data])
    BY <1>2, <1>4, <2>1, <2>2 DEF Recaches
  <2>4. FillState(status) # "I"
    BY DEF FillState
  <2>5. data = latest[x] => latest' = [latest EXCEPT ![x] = data]
    BY <1>2, <2>1
  <2> QED
    BY <1>4, <1>6, <2>1, <2>2, <2>3, <2>4, <2>5 DEF Takes, Writes
<1>7. CASE proc[a].pc = "own"
  <2>1. /\ cache' = [cache EXCEPT ![a][proc[a].addr] = [state |-> "M", data |-> proc[a].val]]
        /\ latest' = [latest EXCEPT ![proc[a].addr] = proc[a].val]
        /\ proc' = [proc EXCEPT ![a] = Idle]
    BY <1>7 DEF Respond, Commit
  <2>2. x = proc[a].addr /\ ServedType(a) = "SNP_INV"
    BY <1>1, <1>7 DEF Awaits
  <2>3. Recaches(a, x, [state |-> "M", data |-> proc[a].val])
    BY <1>2, <1>4, <2>1, <2>2 DEF Recaches
  <2> QED
    BY <1>4, <1>7, <2>1, <2>2, <2>3 DEF Takes, Writes
<1> QED
  BY <1>5, <1>6, <1>7 DEF Respond

LEMMA TakesRefines ==
  ASSUME Typed, NEW a \in Agents, NEW x \in Addrs, NEW s, NEW v \in Values, Takes(a, x, s, v),
         v = latest[x] \/ (\A b \in Agents : b # a => ~Valid(b, x))
  PROVE  Refines
<1>1. proc \in [Agents -> {Idle} \cup Busy] /\ latest \in [Addrs -> Values]
  BY DEF Typed, ControllersTypeOK
<1>2. \A c \in Agents, y \in Addrs : Evicting(c, y)' = Evicting(c, y)
  BY <1>1 DEF Takes, Evicting, Idle
<1>3. \A y \in Addrs : ~Evicting(a, y)
  BY DEF Takes, Evicting
<1>4. Recopies(a, x, v)
  <2>1. Recaches(a, x, [state |-> s, data |-> v]) /\ s # "I"
    BY DEF Takes
  <2>2. \A c \in Agents, y \in Addrs : Valid(c, y)' <=> (c = a /\ y = x) \/ Valid(c, y)
    BY <2>1 DEF Recaches, Valid
  <2>3. \A y \in Addrs : CopyOf(a, y)' = IF y = x THEN v ELSE CopyOf(a, y)
    BY <1>2, <1>3, <2>1, <2>2 DEF CopyOf, Live, Recaches
  <2>4. \A c \in Agents, y \in Addrs : c # a => CopyOf(c, y)' = CopyOf(c, y)
    BY <1>2, <2>1, <2>2 DEF CopyOf, Live, Recaches
  <2> QED
    BY <2>3, <2>4 DEF Recopies
<1>5. CASE v = latest[x]
  <2>1. latest' = latest
    BY <1>1, <1>5 DEF Takes
  <2> QED
    BY <1>4, <1>5, <2>1, RefinesObtain
<1>6. CASE \A b \in Agents : b # a => ~Valid(b, x)
  BY <1>4, <1>6, RefinesWrite DEF Takes
<1> QED
  BY <1>5, <1>6

LEMMA EvictsRefines ==
  ASSUME Typed, NEW a \in Agents, NEW x \in Addrs, Evicts(a, x)
  PROVE  Refines
<1>1. proc \in [Agents -> {Idle} \cup Busy]
  BY DEF Typed, ControllersTypeOK
<1>2. \A c \in Agents, y \in Addrs : Evicting(c, y)' = IF c = a THEN FALSE ELSE Evicting(c, y)
  BY <1>1 DEF Evicts, Evicting
<1>3. \A y \in Addrs : Evicting(a, y) => y = x
  BY DEF Evicts, Evicting
<1>4. \A c \in Agents, y \in Addrs : Valid(c, y)' <=> ~(c = a /\ y = x) /\ Valid(c, y)
  BY DEF Evicts, Recaches, Valid, Invalid
<1>5. \A c \in Agents, y \in Addrs : CopyOf(c, y)' = CopyOf(c, y)
  BY <1>2, <1>3, <1>4 DEF CopyOf, Live, Recaches, Evicts
<1> QED
  BY <1>5, RefinesStill DEF Evicts

LEMMA SnoopRefines ==
  ASSUME Typed, NEW a \in Agents, NEW type, NEW x \in Addrs, Snoop(a, type, x),
         UNCHANGED <<proc, latest>>
  PROVE  Refines
<1>1. \A c \in Agents, y \in Addrs : Evicting(c, y)' = Evicting(c, y)
  BY DEF Evicting
<1> DEFINE b == IF type = "SNP_INV" \/ cache[a][x].state = "I" THEN Invalid
                ELSE [state |-> "S", data |-> cache[a][x].data]
<1>2. Recaches(a, x, b)
  BY SnoopRecaches
<1>3. \A c \in Agents, y \in Addrs : Valid(c, y)' = IF c = a /\ y = x THEN b.state # "I" ELSE Valid(c, y)
  BY <1>2 DEF Recaches, Valid
<1>4. CASE type = "SNP_INV" \/ cache[a][x].state = "I"
  <2>1. Recopies(a, x, None)
    BY <1>1, <1>2, <1>3, <1>4 DEF Recopies, CopyOf, Live, Recaches, Invalid
  <2> QED
    BY <2>1, RefinesForget
<1>5. CASE ~(type = "SNP_INV" \/ cache[a][x].state = "I")
  <2>1. \A c \in Agents, y \in Addrs : CopyOf(c, y)' = CopyOf(c, y)
    BY <1>1, <1>2, <1>3, <1>5 DEF CopyOf, Live, Recaches, Valid
  <2> QED
    BY <2>1, RefinesStill
<1> QED
  BY <1>4, <1>5

----------------------------------------------------------------------------
(* What the steps do to the data.                                          *)

LEMMA FactsParts ==
  ASSUME Facts
  PROVE  /\ Typed /\ Rest /\ Using /\ Coherent
         /\ HostKeeps /\ Filling /\ Current /\ Carrying /\ Stored /\ Flushing
BY DEF Facts, Fresh

LEMMA FactsTypes ==
  ASSUME Facts
  PROVE  /\ cache \in [Agents -> [Addrs -> CacheBlock]] /\ proc \in [Agents -> {Idle} \cup Busy]
         /\ latest \in [Addrs -> Values] /\ mem \in [Addrs -> Values]
BY DEF Facts, Typed, ControllersTypeOK

\* The host asks for lines, and nothing else.
LEMMA HostAsks ==
  ASSUME Facts
  PROVE  /\ ha.state # "INIT" /\ ha.src = Host => ha.type \in Snoops
         /\ request[Host] # <<>> => request[Host][1].type \in Snoops
<1>1. HostKeeps /\ ProgramOf(Host) /\ HaShape
  BY FactsParts, RestParts
<1>2. ASSUME ha.state # "INIT", ha.src = Host, ha.state # "WAIT"
      PROVE  ha.type \in Snoops
  <2>1. Serves(Host) /\ ServedType(Host) = ha.type
    BY <1>2 DEF Serves, ServedType
  <2>2. Awaits(Host, ha.type, ServedAddr(Host))
    BY <1>1, <2>1, AtWork, ConstantTypes
  <2> QED
    BY <1>1, <2>2 DEF Awaits, HostKeeps, Snoops
<1>3. request[Host] # <<>> => request[Host][1].type \in Snoops
  BY <1>1 DEF ProgramOf, Paired, Awaits, HostKeeps, Snoops
<1> QED
  BY <1>1, <1>2, <1>3 DEF HostKeeps

\* A write is of what the device's snoop found.
LEMMA WriteSnooped ==
  ASSUME Facts, Pending("rwd") # {}
  PROVE  /\ ha.state = "WAIT" /\ ha.src = Device /\ Writing /\ dcoh.state = "WAIT"
         /\ ha.addr = dcoh.packet.addr /\ Pending("birsp") = {}
         /\ \A p \in Pending("rwd") : p.addr = ha.addr
<1>1. /\ Exchange /\ SnoopExchange /\ HaShape
  BY FactsParts, RestParts
<1>2. ha.state = "WAIT" /\ ~Fetching
  BY <1>1 DEF Exchange
<1>3. ha.src = Device
  BY <1>1, <1>2, HostAsks DEF HaShape, Fetching
<1>4. Snooping /\ Writing
  BY <1>2, <1>3 DEF Snooping, Writing
<1> QED
  BY <1>1, <1>2, <1>3, <1>4 DEF Exchange, SnoopExchange

\* Data on their way come with a grant.
LEMMA DataGranted ==
  ASSUME Facts, Fetching, Pending("drs") # {}
  PROVE  GrantOf(ha.addr)
BY FactsParts, RestParts DEF Exchange, GrantOf

\* While the device flushes, it asks for nothing else.
LEMMA FlushAlone ==
  ASSUME Facts, NEW r, Flushes(r)
  PROVE  proc[Device].pc = "flush" /\ dcoh.state # "WAIT"
<1>1. ProgramOf(Device) /\ DcohShape
  BY FactsParts, RestParts
<1>2. CASE request[Device] # <<>> /\ request[Device][1] = r
  <2>1. ~Serves(Device) /\ Awaits(Device, r.type, r.addr)
    BY <1>1, <1>2 DEF ProgramOf, Paired
  <2> QED
    BY <2>1, ConstantTypes DEF Flushes, Awaits, Serves, Writes
<1>3. CASE dcoh.state = "START" /\ dcoh.packet = r
  <2>1. Serves(Device) /\ ServedType(Device) = r.type
    BY <1>3, ConstantTypes DEF Serves, ServedType
  <2>2. Awaits(Device, r.type, ServedAddr(Device))
    BY <1>1, <2>1, AtWork, ConstantTypes
  <2> QED
    BY <1>3, <2>2 DEF Flushes, Awaits, Writes
<1> QED
  BY <1>2, <1>3 DEF Flushes

\* A step that touches neither cache nor memory.
LEMMA QuietFresh ==
  ASSUME Facts, UNCHANGED <<cache, proc, latest, mem>>, HostKeeps',
         Pending("rwd")' = Pending("rwd"),
         Fetching' => \/ Pending("drs")' = {}
                      \/ Pending("drs")' = Pending("drs") /\ Fetching /\ ha'.addr = ha.addr,
         \A x \in Addrs : GrantOf(x) => GrantOf(x)',
         \A r : Flushes(r)' => Flushes(r)
  PROVE  Fresh' /\ Refines
<1>1. Filling /\ Current /\ Carrying /\ Stored /\ Flushing
  BY FactsParts
<1>2. \A a, x : Valid(a, x)' = Valid(a, x) /\ CopyOf(a, x)' = CopyOf(a, x)
  BY DEF Valid, CopyOf, Live, Evicting
<1>3. Filling' /\ Current'
  BY <1>1 DEF Filling, Missing, Current, Valid
<1>4. Carrying'
  BY <1>1 DEF Carrying
<1>5. Stored'
  BY <1>1, <1>2 DEF Stored
<1>6. Flushing'
  BY <1>1, <1>2, ConstantTypes DEF Flushing, CacheRequest
<1> QED
  BY <1>2, <1>3, <1>4, <1>5, <1>6, RefinesStill DEF Fresh

\* The processor of a gets the line x, with its last value or with a new one.
LEMMA TakesFresh ==
  ASSUME Facts, NEW a \in Agents, NEW x \in Addrs, NEW s, NEW v \in Values, Takes(a, x, s, v),
         HostKeeps', UNCHANGED mem, Pending("rwd")' = Pending("rwd"),
         Fetching' => \/ Pending("drs")' = {}
                      \/ Pending("drs")' = Pending("drs") /\ Fetching /\ ha'.addr = ha.addr,
         v = latest[x] \/ /\ \A b \in Agents : b # a => ~Valid(b, x)
                          /\ \A p \in Pending("rwd") : p.addr # x
                          /\ Fetching' /\ Pending("drs")' # {} => ha.addr # x,
         \A y \in Addrs : GrantOf(y) => GrantOf(y)' \/ (a = Host /\ y = x),
         \A r : Flushes(r)' => Flushes(r) /\ a = Host
  PROVE  Fresh' /\ Refines
<1>1. Filling /\ Current /\ Carrying /\ Stored /\ Flushing
  BY FactsParts
<1>2. /\ cache \in [Agents -> [Addrs -> CacheBlock]] /\ proc \in [Agents -> {Idle} \cup Busy]
      /\ latest \in [Addrs -> Values]
  BY FactsTypes
<1>3. \A c \in Agents, y \in Addrs :
        cache'[c][y] = IF c = a /\ y = x THEN [state |-> s, data |-> v] ELSE cache[c][y]
  BY DEF Takes, Recaches
<1>4. \A y \in Addrs : latest'[y] = IF y = x THEN v ELSE latest[y]
  BY <1>2 DEF Takes
<1>5. \A c \in Agents, y \in Addrs : Valid(c, y)' <=> (c = a /\ y = x) \/ Valid(c, y)
  BY <1>3 DEF Takes, Valid
<1>6. Filling'
  <2> SUFFICES ASSUME NEW c \in Agents, Missing(c)'
               PROVE  ~Valid(c, proc[c].addr)'
    BY <1>2 DEF Filling, Takes, Valid, Missing, Idle
  <2>1. c # a /\ proc'[c] = proc[c]
    BY <1>2 DEF Takes, Missing, Idle
  <2>2. Missing(c) /\ proc[c].addr \in Addrs
    BY <1>2, <2>1 DEF Missing, Idle, Busy
  <2> QED
    BY <1>1, <1>5, <2>1, <2>2 DEF Filling
<1>7. Current'
  <2> SUFFICES ASSUME NEW c \in Agents, NEW y \in Addrs, Valid(c, y)'
               PROVE  cache'[c][y].data = latest'[y]
    BY DEF Current
  <2>1. CASE c = a /\ y = x
    BY <1>3, <1>4, <2>1
  <2>2. CASE ~(c = a /\ y = x)
    BY <1>1, <1>3, <1>4, <1>5, <2>2 DEF Current
  <2> QED
    BY <2>1, <2>2
<1>8. Carrying'
  <2>1. ASSUME NEW p \in Pending("rwd") PROVE p.data = latest'[p.addr]
    <3>1. p.data = latest[p.addr]
      BY <1>1 DEF Carrying
    <3>2. p.addr \in Addrs
      BY <2>1, WriteSnooped DEF Writing, Facts, Typed, Working
    <3> QED
      BY <1>4, <3>1, <3>2
  <2>2. ASSUME Fetching', NEW d \in Pending("drs")' PROVE d.data = latest'[ha'.addr]
    <3>1. /\ Pending("drs")' = Pending("drs") /\ Fetching /\ ha'.addr = ha.addr
      BY <2>2
    <3>2. ha.addr \in Addrs
      BY <3>1 DEF Fetching, Facts, Typed, Working
    <3>3. d.data = latest[ha.addr]
      BY <1>1, <2>2, <3>1 DEF Carrying
    <3>4. ha.addr = x => v = latest[x]
      BY <2>2
    <3> QED
      BY <1>4, <3>1, <3>2, <3>3, <3>4
  <2> QED
    BY <2>1, <2>2 DEF Carrying
<1>9. Stored'
  <2> SUFFICES ASSUME NEW y \in Addrs, ~Valid(Host, y)', ~Valid(Device, y)', ~GrantOf(y)',
                      \A p \in Pending("rwd") : p.addr # y
               PROVE  mem[y] = latest'[y]
    BY DEF Stored
  <2>1. y # x
    BY <1>5 DEF Agents
  <2>2. ~Valid(Host, y) /\ ~Valid(Device, y) /\ ~GrantOf(y)
    BY <1>5, <2>1, ConstantTypes
  <2> QED
    BY <1>1, <1>4, <2>1, <2>2 DEF Stored
<1>10. Flushing'
  <2> SUFFICES ASSUME NEW r \in CacheRequest, Flushes(r), a = Host
               PROVE  IF Valid(Device, r.addr)' THEN r.data = latest'[r.addr]
                      ELSE Valid(Host, r.addr)' \/ GrantOf(r.addr)'
    BY DEF Flushing
  <2>1. r.addr \in Addrs
    BY DEF CacheRequest
  <2>2. Valid(Device, r.addr)' <=> Valid(Device, r.addr)
    BY <1>5, <2>1, ConstantTypes
  <2>3. CASE Valid(Device, r.addr)
    <3>1. r.data = latest[r.addr] /\ (r.addr = x => v = latest[x])
      BY <1>1, <2>3, ConstantTypes DEF Flushing
    <3> QED
      BY <1>4, <2>1, <2>2, <2>3, <3>1
  <2>4. CASE ~Valid(Device, r.addr)
    <3>1. Valid(Host, r.addr) \/ GrantOf(r.addr)
      BY <1>1, <2>4 DEF Flushing
    <3> QED
      BY <1>5, <2>1, <2>2, <2>4, <3>1, ConstantTypes
  <2> QED
    BY <2>3, <2>4
<1> QED
  BY <1>6, <1>7, <1>8, <1>9, <1>10, TakesRefines, FactsParts DEF Fresh

LEMMA RestNext ==
  ASSUME Rest'
  PROVE  Exchange' /\ SnoopExchange'
BY DEF Rest, Pipes

LEMMA StillFresh ==
  ASSUME Facts, UNCHANGED <<cache, proc, request, latest, ha, dcoh, mem>>, Settled
  PROVE  Fresh' /\ Refines
<1>1. HostKeeps'
  BY FactsParts DEF HostKeeps
<1>2. /\ Pending("rwd")' = Pending("rwd") /\ Pending("drs")' = Pending("drs")
      /\ \A x : GrantOf(x)' = GrantOf(x)
      /\ Fetching' = Fetching /\ ha'.addr = ha.addr
  BY SettledSix DEF GrantOf, Fetching
<1>3. \A r : Flushes(r)' => Flushes(r)
  BY DEF Flushes
<1> QED
  BY <1>1, <1>2, <1>3, QuietFresh

LEMMA ReceivesFresh ==
  ASSUME Facts, HaReceive \/ DcohReceive
  PROVE  Fresh' /\ Refines
<1>1. Settled
  BY FactsParts, RestParts, ReceivesKeep
<1> QED
  BY <1>1, StillFresh DEF HaReceive, DcohReceive, controllers

LEMMA HaTakesFresh ==
  ASSUME Facts, HaTakeHost \/ HaTakeDevice
  PROVE  Fresh' /\ Refines
<1>1. /\ Typed /\ Rest /\ HostKeeps /\ ha \in HaType
  BY FactsParts, RestParts
<1>2. /\ ha.state = "INIT" /\ ha'.state = "START" /\ UNCHANGED <<cache, proc, latest, dcoh, mem>>
      /\ request'[Device] = request[Device]
  <2>1. request \in [Agents -> Seq(CacheRequest)]
    BY <1>1 DEF Typed, ControllersTypeOK
  <2> QED
    BY <1>1, <2>1, ConstantTypes DEF HaTakeHost, HaTakeDevice, HaType, controllers
<1>3. Pending("rwd")' = Pending("rwd")
  <2>1. CASE HaTakeHost
    BY <2>1, StillLinks, SettledSix DEF HaTakeHost
  <2>2. CASE HaTakeDevice
    <3>1. queue["bisnp"] # <<>> /\ Pop("bisnp") /\ UNCHANGED <<m2s, s2m>>
      BY <2>2 DEF HaTakeDevice
    <3>2. Changes("bisnp", {})
      BY <1>1, <3>1, RestParts, Pops, ChannelNames DEF Up
    <3> QED
      BY <3>2, ChangesSix
  <2> QED
    BY <2>1, <2>2
<1>4. HostKeeps'
  BY <1>1, <1>2 DEF HostKeeps
<1>5. ~Fetching' /\ \A x : ~GrantOf(x)
  BY <1>2 DEF Fetching, GrantOf
<1>6. \A r : Flushes(r)' => Flushes(r)
  BY <1>2 DEF Flushes
<1> QED
  BY <1>2, <1>3, <1>4, <1>5, <1>6, QuietFresh

LEMMA HaHostRequestFresh ==
  ASSUME Facts, Rest', HaFn, HaHostRequest
  PROVE  Fresh' /\ Refines
<1>1. /\ Typed /\ Rest /\ HostKeeps /\ ha \in HaType /\ HaShape /\ Exchange
  BY FactsParts, RestParts
<1>2. /\ ha'.state = "WAIT" /\ ha'.src = ha.src /\ ha'.type = ha.type
      /\ ha.state = "START" /\ ha.type \in Snoops
      /\ UNCHANGED <<cache, proc, request, latest, dcoh, mem>>
  BY <1>1 DEF HaFn, HaHostRequest, HaType, Snoops, controllers
<1>3. Fetching'
  BY <1>1, <1>2 DEF HaShape, Fetching, Snoops
<1>4. Pending("ndr")' = {}
  BY <1>1, HaHostRequestRest
<1>5. Pending("rwd") = {} /\ Pending("rwd")' = {} /\ Pending("drs")' = {}
  BY <1>1, <1>2, <1>3, <1>4, RestNext DEF Exchange
<1>6. HostKeeps'
  BY <1>1, <1>2 DEF HostKeeps
<1>7. \A x : ~GrantOf(x)
  BY <1>2 DEF Fetching, GrantOf
<1>8. \A r : Flushes(r)' => Flushes(r)
  BY <1>2 DEF Flushes
<1> QED
  BY <1>2, <1>5, <1>6, <1>7, <1>8, QuietFresh

LEMMA HaPlainCompletionFresh ==
  ASSUME Facts, Rest', HaNdr, HaPlainCompletion
  PROVE  Fresh' /\ Refines
<1>1. /\ Typed /\ Rest /\ HostKeeps /\ ha \in HaType /\ HaShape
  BY FactsParts, RestParts
<1>2. /\ ha.state = "WAIT" /\ Head(queue["ndr"]).opcode = "CMP" /\ Pending("rwd") = {}
      /\ (Fetching => Grant(Head(queue["ndr"])))
      /\ UNCHANGED <<cache, proc, request, latest, dcoh, mem>>
  BY <1>1, AtCompletion DEF HaNdr, HaPlainCompletion, controllers
<1>3. \A x : ~GrantOf(x)
  BY <1>2 DEF GrantOf, Grant
<1>4. ha'.state = "INIT"
  BY <1>1, <1>2 DEF HaPlainCompletion, HaShape, HaType
<1>5. Pending("rwd")' = {} /\ ~Fetching'
  BY <1>4, RestNext DEF Exchange, Fetching
<1>6. HostKeeps'
  BY <1>1, <1>2, <1>4 DEF HostKeeps
<1>7. \A r : Flushes(r)' => Flushes(r)
  BY <1>2 DEF Flushes
<1> QED
  BY <1>2, <1>3, <1>5, <1>6, <1>7, QuietFresh

LEMMA HaNoneFresh ==
  ASSUME Facts, HaNone
  PROVE  Fresh' /\ Refines
<1>1. /\ Typed /\ Rest /\ HostKeeps /\ ha \in HaType
  BY FactsParts, RestParts
<1>2. /\ ha'.state = ha.state /\ ha'.src = ha.src /\ ha'.type = ha.type /\ ha'.addr = ha.addr
      /\ UNCHANGED <<cache, proc, request, latest, links, dcoh, mem>>
  BY <1>1 DEF HaNone, HaType, controllers
<1>3. /\ Pending("rwd")' = Pending("rwd") /\ Pending("drs")' = Pending("drs")
      /\ Pending("ndr")' = Pending("ndr")
  BY <1>2, StillLinks, SettledSix
<1>4. HostKeeps'
  BY <1>1, <1>2 DEF HostKeeps
<1>5. Fetching' = Fetching /\ (\A x : GrantOf(x)' = GrantOf(x))
  BY <1>2, <1>3 DEF GrantOf, Fetching
<1>6. \A r : Flushes(r)' => Flushes(r)
  BY <1>2 DEF Flushes
<1> QED
  BY <1>2, <1>3, <1>4, <1>5, <1>6, QuietFresh

LEMMA DcohTakeFresh ==
  ASSUME Facts, DcohOwn, DcohTake
  PROVE  Fresh' /\ Refines
<1>1. /\ Typed /\ Rest /\ HostKeeps /\ ProgramOf(Device)
  BY FactsParts, RestParts
<1>2. /\ UNCHANGED <<cache, proc, latest, links, ha, mem>> /\ request[Device] # <<>>
      /\ dcoh' = [part |-> AfterOwn, state |-> "START", packet |-> Head(request[Device])]
      /\ request' = [request EXCEPT ![Device] = Tail(@)]
  BY DEF DcohOwn, DcohTake, links
<1>3. request'[Device] = <<>> /\ Head(request[Device]) = request[Device][1]
  <2>1. request \in [Agents -> Seq(CacheRequest)]
    BY <1>1 DEF Typed, ControllersTypeOK
  <2>2. request[Device] \in Seq(CacheRequest) /\ Len(request[Device]) <= 1
    BY <1>1, <1>2, <2>1, ConstantTypes DEF ProgramOf, Paired
  <2>3. Tail(request[Device]) = <<>>
    BY <1>2, <2>2, Single
  <2> QED
    BY <1>2, <2>1, <2>2, <2>3, ConstantTypes
<1>4. HostKeeps'
  BY <1>1, <1>2 DEF HostKeeps
<1>5. /\ Pending("rwd")' = Pending("rwd") /\ Pending("drs")' = Pending("drs")
      /\ Pending("ndr")' = Pending("ndr")
  BY <1>2, StillLinks, SettledSix
<1>6. Fetching' = Fetching /\ (\A x : GrantOf(x)' = GrantOf(x))
  BY <1>2, <1>5 DEF GrantOf, Fetching
<1>7. \A r : Flushes(r)' => Flushes(r)
  BY <1>2, <1>3 DEF Flushes
<1> QED
  BY <1>2, <1>4, <1>5, <1>6, <1>7, QuietFresh

LEMMA DcohWaitsFresh ==
  ASSUME Facts, DcohOwn, DcohOwnNone \/ (dcoh.state = "START" /\ DcohBISnp /\ UNCHANGED queue)
  PROVE  Fresh' /\ Refines
<1>1. /\ Typed /\ Rest /\ HostKeeps /\ dcoh \in DcohType /\ SnoopExchange
  BY FactsParts, RestParts
<1>2. /\ UNCHANGED <<cache, proc, request, latest, ha, mem>> /\ dcoh'.packet = dcoh.packet
      /\ dcoh'.state \in {dcoh.state, "WAIT"}
  BY <1>1 DEF DcohOwn, DcohOwnNone, DcohBISnp, DcohType, controllers
<1>3. /\ Pending("rwd")' = Pending("rwd") /\ Pending("drs")' = Pending("drs")
      /\ Pending("ndr")' = Pending("ndr")
  <2>1. CASE DcohOwnNone
    BY <2>1, StillLinks, SettledSix DEF DcohOwn, DcohOwnNone, links
  <2>2. CASE dcoh.state = "START" /\ DcohBISnp /\ UNCHANGED queue
    <3>1. PICK p \in S2M : p.ch = "bisnp" /\ s2m' = s2m \o <<p>>
      <4>1. dcoh.packet.addr \in Addrs
        BY <1>1, <2>2 DEF Typed, Working, CacheRequest
      <4> QED
        BY <2>2, <4>1, PacketTypes DEF DcohBISnp, DcohSends, BISnpOpcode
    <3>2. Pending("bisnp") = {}
      BY <1>1, <2>2 DEF SnoopExchange
    <3>3. Changes("bisnp", {p})
      BY <1>1, <2>2, <3>1, <3>2, RestParts, DcohSendsOne DEF DcohOwn
    <3> QED
      BY <3>3, ChangesSix
  <2> QED
    BY <2>1, <2>2
<1>4. HostKeeps'
  BY <1>1, <1>2 DEF HostKeeps
<1>5. Fetching' = Fetching /\ (\A x : GrantOf(x)' = GrantOf(x))
  BY <1>2, <1>3 DEF GrantOf, Fetching
<1>6. \A r : Flushes(r)' => Flushes(r)
  BY <1>2 DEF Flushes
<1> QED
  BY <1>2, <1>3, <1>4, <1>5, <1>6, QuietFresh

\* A snoop, that the agent's processor knows nothing of.
LEMMA SnoopKeeps ==
  ASSUME Facts, NEW a \in Agents, NEW type, NEW x \in Addrs, Snoop(a, type, x),
         UNCHANGED <<proc, latest>>
  PROVE  /\ Filling' /\ Current' /\ Refines
         /\ \A c \in Agents, y \in Addrs :
              Valid(c, y)' <=> Valid(c, y) /\ ~(c = a /\ y = x /\ type = "SNP_INV")
<1>1. Typed /\ Filling /\ Current
  BY FactsParts
<1>2. \A c \in Agents, y \in Addrs :
        cache'[c][y] = IF c = a /\ y = x
                       THEN IF type = "SNP_INV" \/ cache[a][x].state = "I" THEN Invalid
                            ELSE [state |-> "S", data |-> cache[a][x].data]
                       ELSE cache[c][y]
  BY <1>1, SnoopRecaches DEF Recaches
<1>3. \A c \in Agents, y \in Addrs :
        Valid(c, y)' <=> Valid(c, y) /\ ~(c = a /\ y = x /\ type = "SNP_INV")
  BY <1>2 DEF Valid, Invalid
<1>4. Filling'
  <2> SUFFICES ASSUME NEW c \in Agents, Missing(c)
               PROVE  ~Valid(c, proc[c].addr)'
    BY DEF Filling, Missing, Valid
  <2>1. proc[c].addr \in Addrs
    BY FactsTypes DEF Missing, Idle, Busy
  <2> QED
    BY <1>1, <1>3, <2>1 DEF Filling
<1>5. Current'
  <2> SUFFICES ASSUME NEW c \in Agents, NEW y \in Addrs, Valid(c, y)'
               PROVE  cache'[c][y].data = latest[y]
    BY DEF Current
  <2>1. Valid(c, y) /\ cache'[c][y].data = cache[c][y].data
    BY <1>2, <1>3 DEF Valid, Invalid
  <2> QED
    BY <1>1, <2>1 DEF Current
<1> QED
  BY <1>1, <1>3, <1>4, <1>5, SnoopRefines

LEMMA HaBISnpFresh ==
  ASSUME DeviceReadsOwn, Facts, Rest', HaFn, HaBISnp
  PROVE  Fresh' /\ Refines
<1>1. /\ Typed /\ Rest /\ Using /\ HostKeeps /\ Stored /\ Current /\ ha \in HaType
      /\ HaShape /\ SnoopExchange /\ Exchange /\ DcohShape
  BY FactsParts, RestParts
<1>2. /\ ha.state = "START" /\ ha.type \in {"BISNP_DATA", "BISNP_INV"}
      /\ ha'.src = ha.src /\ ha'.addr = ha.addr
      /\ UNCHANGED <<proc, request, latest, s2m, queue, dcoh, mem>>
  BY <1>1 DEF HaFn, HaBISnp, HaType
<1>3. ha.src = Device /\ Snooping
  BY <1>1, <1>2 DEF HaShape, RequestType, Snooping
<1>4. /\ dcoh.state = "WAIT" /\ ha.addr = dcoh.packet.addr
      /\ ha.type = BISnpOpcode(dcoh.packet.type)
  BY <1>1, <1>3 DEF SnoopExchange
<1>5. ha.type = "BISNP_INV" /\ ha.addr \in Addrs
  BY <1>1, <1>4, DeviceOwns DEF Using, DcohShape, BISnpOpcode
<1>6. PICK x \in Addrs : x = ha.addr
  BY <1>5
<1>7. Snoop(Host, "SNP_INV", x)
  BY <1>5, <1>6 DEF HaBISnp
<1>8. /\ Filling' /\ Current' /\ Refines
      /\ \A c \in Agents, y \in Addrs : Valid(c, y)' <=> Valid(c, y) /\ ~(c = Host /\ y = x)
  BY <1>2, <1>7, ConstantTypes, SnoopKeeps
<1>9. ~Fetching' /\ (\A y : ~GrantOf(y)) /\ Pending("rwd") = {}
  BY <1>1, <1>2, <1>3, ConstantTypes DEF Fetching, GrantOf, Exchange
<1>10. HostKeeps'
  BY <1>1, <1>2, <1>3, ConstantTypes DEF HostKeeps
<1>11. \A r : ~Flushes(r)'
  BY <1>2, <1>4, FlushAlone DEF Flushes
<1>12. CASE Valid(Host, x)
  <2>1. PICK w \in M2S : /\ w.ch = "rwd" /\ w.addr = x /\ w.data = cache[Host][x].data
                         /\ m2s' = Append(m2s, w)
    <3>1. cache[Host][x].data \in Values
      BY FactsTypes, ConstantTypes DEF CacheBlock
    <3>2. SnoopStatus("SNP_INV", cache[Host][x].state) # "RSP_MISS"
      BY <1>12 DEF SnoopStatus, Valid
    <3> QED
      BY <1>5, <1>6, <3>1, <3>2, PacketTypes DEF HaBISnp, HaSend
  <2>2. Changes("rwd", {w})
    BY <1>1, <1>2, <1>9, <2>1, RestParts, HaSends
  <2>3. Pending("rwd")' = {w}
    BY <2>2, ChangesSix
  <2>4. w.data = latest'[w.addr]
    BY <1>1, <1>2, <1>12, <2>1, ConstantTypes DEF Current
  <2>5. Carrying'
    BY <1>9, <2>3, <2>4 DEF Carrying
  <2>6. Stored'
    <3> SUFFICES ASSUME NEW y \in Addrs, ~Valid(Host, y)', ~Valid(Device, y)', y # x
                 PROVE  mem[y] = latest[y]
      BY <1>2, <2>1, <2>3 DEF Stored
    <3> QED
      BY <1>1, <1>8, <1>9, ConstantTypes DEF Stored
  <2> QED
    BY <1>8, <1>10, <1>11, <2>5, <2>6 DEF Fresh, Flushing
<1>13. CASE ~Valid(Host, x)
  <2>1. ha'.state = "INIT"
    <3>1. SnoopStatus("SNP_INV", cache[Host][x].state) = "RSP_MISS"
      BY <1>13 DEF SnoopStatus, Valid
    <3> QED
      BY <1>1, <1>5, <1>6, <3>1 DEF HaBISnp, HaType
  <2>2. Pending("rwd")' = {}
    BY <2>1, RestNext DEF Exchange
  <2>3. Carrying'
    BY <1>9, <2>2 DEF Carrying
  <2>4. Stored'
    <3> SUFFICES ASSUME NEW y \in Addrs, ~Valid(Host, y)', ~Valid(Device, y)'
                 PROVE  mem[y] = latest[y]
      BY <1>2 DEF Stored
    <3> QED
      BY <1>1, <1>8, <1>9, <1>13, ConstantTypes DEF Stored
  <2> QED
    BY <1>8, <1>10, <1>11, <2>3, <2>4 DEF Fresh, Flushing
<1> QED
  BY <1>12, <1>13

LEMMA HaCompletionFresh ==
  ASSUME Facts, Rest', HaNdr, HaCompletion
  PROVE  Fresh' /\ Refines
<1>1. /\ Typed /\ Rest /\ Coherent /\ Carrying /\ ha \in HaType /\ ProgramOf(Host) /\ Ordered
  BY FactsParts, RestParts
<1>2. PICK n, status, data :
        /\ n = Head(queue["ndr"]) /\ n.opcode \in {"CMP_S", "CMP_E"}
        /\ data \in Values /\ Respond(Host, status, data)
        /\ n.any => queue["drs"] # <<>> /\ data = Head(queue["drs"]).data
  <2>1. queue["drs"] # <<>> => Head(queue["drs"]).data \in Values
    BY <1>1, InQueue, ChannelNames DEF Up, Channel, S2MDRS
  <2> QED
    BY <2>1 DEF HaCompletion
<1>3. UNCHANGED <<dcoh, mem>> /\ ha'.state = "INIT"
  BY <1>1 DEF HaNdr, HaCompletion, HaType
<1>4. /\ ha.state = "WAIT" /\ Pending("ndr") = {n} /\ Fetching /\ Grant(n) /\ Pending("rwd") = {}
  BY <1>1, <1>2, AtCompletion DEF HaNdr, Writing
<1>5. Serves(Host) /\ ServedType(Host) = ha.type /\ ServedAddr(Host) = ha.addr /\ ha.type \in Snoops
  BY <1>4 DEF Fetching, Serves, ServedType, ServedAddr
<1>6. ~Serves(Host)' /\ ~Fetching' /\ Pending("rwd")' = {}
  BY <1>3, RestNext DEF Serves, Fetching, Exchange
<1>7. request'[Device] = request[Device]
  BY <1>1, <1>2, <1>5, <1>6, ConstantTypes, ProgramAnswered DEF Untouched
<1>8. \A r : Flushes(r)' => Flushes(r)
  BY <1>3, <1>7 DEF Flushes
<1>9. PICK x \in Addrs : x = ha.addr
  BY <1>1, <1>4 DEF Typed, Working
<1>10. GrantOf(x) /\ (\A y : GrantOf(y) => y = x)
  BY <1>4, <1>9 DEF GrantOf
<1>11. PICK s \in CacheState, v \in Values :
         /\ Takes(Host, x, s, v)
         /\ v = latest[x] \/ (\A b \in Agents : b # Host => ~Valid(b, x))
  <2>1. CASE ha.type = "SNP_DATA"
    <3>1. Pending("drs") = {Head(queue["drs"])} /\ data = Head(queue["drs"]).data
      BY <1>1, <1>2, <1>4, <2>1, InQueue, ChannelNames DEF Grant, Up
    <3>2. data = latest[x]
      BY <1>1, <1>4, <1>9, <3>1 DEF Carrying
    <3>3. Takes(Host, x, FillState(status), data)
      BY <1>1, <1>2, <1>5, <1>9, <2>1, <3>2, ConstantTypes, AnswerRecaches
    <3> QED
      BY <1>2, <3>2, <3>3, ConstantTypes
  <2>2. CASE ha.type = "SNP_INV"
    <3>1. ~Valid(Device, x)
      BY <1>1, <1>4, <1>10, <2>2 DEF Grant, Coherent, Apart
    <3>2. \E v \in Values : Takes(Host, x, "M", v)
      BY <1>1, <1>2, <1>5, <1>9, <2>2, ConstantTypes, AnswerRecaches
    <3> QED
      BY <3>1, <3>2 DEF Agents, CacheState
  <2> QED
    BY <1>5, <2>1, <2>2 DEF Snoops
<1>12. HostKeeps'
  BY <1>3, <1>11, FactsTypes, ConstantTypes DEF HostKeeps, Takes, Idle
<1> QED
  BY <1>3, <1>4, <1>6, <1>8, <1>10, <1>11, <1>12, ConstantTypes, TakesFresh

LEMMA DcohWriteBackFresh ==
  ASSUME Facts, DcohOwn, dcoh.state = "START", DcohWriteBack, UNCHANGED queue
  PROVE  Fresh' /\ Refines
<1>1. /\ Typed /\ Rest /\ HostKeeps /\ Filling /\ Current /\ Carrying /\ Stored /\ Flushing
      /\ ProgramOf(Device)
  BY FactsParts, RestParts
<1>2. PICK r \in CacheRequest : r = dcoh.packet
  BY <1>1 DEF Typed, Working
<1>3. /\ r.type \in Writes /\ mem' = [mem EXCEPT ![r.addr] = r.data]
      /\ Respond(Device, "OK", InitVal) /\ UNCHANGED <<links, ha>> /\ dcoh'.state = "INIT"
  BY <1>2 DEF DcohOwn, DcohWriteBack, FinishDcoh, Writes, links
<1>4. PICK x \in Addrs : x = r.addr
  BY DEF CacheRequest
<1>5. Serves(Device) /\ ServedType(Device) = r.type /\ ServedAddr(Device) = x /\ ~Serves(Device)'
  BY <1>2, <1>3, <1>4, ConstantTypes DEF Serves, ServedType, ServedAddr
<1>6. Evicts(Device, x)
  BY <1>1, <1>3, <1>5, ConstantTypes, AnswerRecaches
<1>7. \A q : ~Flushes(q)'
  <2>1. request'[Device] # <<>> => request'[Device][1].type \in Snoops
    BY <1>1, <1>3, <1>5, ConstantTypes, ProgramAnswered
  <2> QED
    BY <1>3, <2>1 DEF Flushes, Writes, Snoops
<1>8. /\ latest' = latest /\ proc'[Host] = proc[Host]
      /\ proc'[Device].addr = proc[Device].addr
      /\ Missing(Device)' => Missing(Device)
  BY <1>6, FactsTypes, ConstantTypes DEF Evicts, Evicting, Missing
<1>9. \A c \in Agents, y \in Addrs :
        /\ Valid(c, y)' <=> Valid(c, y) /\ ~(c = Device /\ y = x)
        /\ Valid(c, y)' => cache'[c][y] = cache[c][y]
  BY <1>6 DEF Evicts, Recaches, Valid, Invalid
<1>10. /\ Pending("rwd") = {} /\ Pending("rwd")' = {} /\ Pending("drs")' = Pending("drs")
       /\ Fetching' = Fetching /\ (\A y : GrantOf(y)' = GrantOf(y))
  BY <1>3, WriteSnooped, StillLinks, SettledSix DEF GrantOf, Fetching
<1>11. HostKeeps'
  BY <1>1, <1>3, <1>8 DEF HostKeeps
<1>12. Filling'
  <2> SUFFICES ASSUME NEW c \in Agents, Missing(c)', NEW y, y = proc'[c].addr
               PROVE  ~Valid(c, y)'
    BY DEF Filling, Valid
  <2>1. Missing(c) /\ y = proc[c].addr /\ y \in Addrs
    BY <1>8, FactsTypes DEF Missing, Agents, Idle, Busy
  <2> QED
    BY <1>1, <1>9, <2>1 DEF Filling
<1>13. Current'
  BY <1>1, <1>8, <1>9 DEF Current
<1>14. Carrying'
  BY <1>1, <1>3, <1>8, <1>10 DEF Carrying
<1>15. Stored'
  <2> SUFFICES ASSUME NEW y \in Addrs, ~Valid(Host, y)', ~Valid(Device, y)', ~GrantOf(y)
               PROVE  mem'[y] = latest[y]
    BY <1>8, <1>10 DEF Stored
  <2>1. ~Valid(Host, y)
    BY <1>9, ConstantTypes
  <2>2. CASE y = x
    <3>1. Flushes(r)
      BY <1>2, <1>3 DEF Flushes
    <3>2. r.data = latest[x]
      BY <1>1, <1>4, <2>1, <2>2, <3>1 DEF Flushing
    <3> QED
      BY <1>3, <1>4, <2>2, <3>2, FactsTypes
  <2>3. CASE y # x
    <3>1. mem'[y] = mem[y]
      BY <1>3, <1>4, <2>3, FactsTypes
    <3> QED
      BY <1>1, <1>9, <1>10, <2>1, <2>3, <3>1, ConstantTypes DEF Stored
  <2> QED
    BY <2>2, <2>3
<1> QED
  BY <1>1, <1>6, <1>7, <1>11, <1>12, <1>13, <1>14, <1>15, ConstantTypes, EvictsRefines
     DEF Fresh, Flushing

\* The device's request is answered, and the host cannot be hurt.
LEMMA DeviceTakesFresh ==
  ASSUME Facts, NEW x \in Addrs, NEW s, NEW v \in Values, Takes(Device, x, s, v),
         UNCHANGED <<ha, mem>>, Pending("rwd") = {}, Pending("rwd")' = {},
         Pending("ndr")' = Pending("ndr"), Pending("drs")' = Pending("drs"),
         v = latest[x] \/ (~Valid(Host, x) /\ ~GrantOf(x)), \A r : ~Flushes(r)'
  PROVE  Fresh' /\ Refines
<1>1. HostKeeps'
  BY FactsParts, FactsTypes, ConstantTypes DEF HostKeeps, Takes
<1>2. Fetching' = Fetching /\ (\A y : GrantOf(y)' = GrantOf(y))
  BY DEF GrantOf, Fetching
<1>3. v = latest[x] \/ /\ \A b \in Agents : b # Device => ~Valid(b, x)
                       /\ Fetching' /\ Pending("drs")' # {} => ha.addr # x
  BY <1>2, DataGranted DEF Agents
<1> QED
  BY <1>1, <1>2, <1>3, ConstantTypes, TakesFresh

LEMMA DcohOwnMissFresh ==
  ASSUME Facts, DcohOwn, dcoh.state = "START", DcohOwnMiss, UNCHANGED queue
  PROVE  Fresh' /\ Refines
<1>1. /\ Typed /\ Rest /\ Coherent /\ Filling /\ Stored /\ ProgramOf(Device)
  BY FactsParts, RestParts
<1>2. PICK data \in Values :
        /\ data = IF dcoh.packet.type = "SNP_DATA" THEN mem[dcoh.packet.addr] ELSE InitVal
        /\ Respond(Device, "RSP_I", data)
  <2>1. dcoh.packet.addr \in Addrs
    BY <1>1 DEF Typed, Working, CacheRequest
  <2> QED
    BY <2>1, FactsTypes DEF DcohOwnMiss
<1>3. /\ dcoh.packet.type \in Snoops /\ dcoh.packet.addr \notin sf
      /\ UNCHANGED <<links, ha, mem>> /\ dcoh'.state = "INIT"
  BY DEF DcohOwn, DcohOwnMiss, FinishDcoh, Snoops, links
<1>4. /\ Serves(Device) /\ ServedType(Device) = dcoh.packet.type
      /\ ServedAddr(Device) = dcoh.packet.addr /\ ~Serves(Device)'
  BY <1>3, ConstantTypes DEF Serves, ServedType, ServedAddr
<1>5. PICK x \in Addrs : x = dcoh.packet.addr
  BY <1>1 DEF Typed, Working, CacheRequest
<1>6. ~Valid(Host, x) /\ ~GrantOf(x)
  BY <1>1, <1>3, <1>5 DEF Coherent, Covered, Recalled
<1>7. /\ Pending("rwd") = {} /\ Pending("rwd")' = {} /\ Pending("drs")' = Pending("drs")
      /\ Pending("ndr")' = Pending("ndr")
  BY <1>3, WriteSnooped, StillLinks, SettledSix
<1>8. \A r : ~Flushes(r)'
  <2>1. request'[Device] # <<>> => request'[Device][1].type \in Snoops
    BY <1>1, <1>2, <1>4, ConstantTypes, ProgramAnswered
  <2> QED
    BY <1>3, <2>1 DEF Flushes, Writes, Snoops
<1>9. CASE dcoh.packet.type = "SNP_DATA"
  <2>1. proc[Device].pc = "fill" /\ proc[Device].addr = x
    BY <1>1, <1>2, <1>4, <1>5, <1>9, ConstantTypes, AnswerRecaches
  <2>2. ~Valid(Device, x)
    BY <1>1, <2>1, ConstantTypes DEF Filling, Missing
  <2>3. data = latest[x]
    BY <1>1, <1>2, <1>5, <1>6, <1>7, <1>9, <2>2 DEF Stored
  <2>4. Takes(Device, x, FillState("RSP_I"), data)
    BY <1>1, <1>2, <1>4, <1>5, <1>9, <2>3, ConstantTypes, AnswerRecaches
  <2> QED
    BY <1>3, <1>7, <1>8, <2>3, <2>4, DeviceTakesFresh
<1>10. CASE dcoh.packet.type = "SNP_INV"
  <2>1. PICK v \in Values : Takes(Device, x, "M", v)
    BY <1>1, <1>2, <1>4, <1>5, <1>10, ConstantTypes, AnswerRecaches
  <2> QED
    BY <1>3, <1>6, <1>7, <1>8, <2>1, DeviceTakesFresh
<1> QED
  BY <1>3, <1>9, <1>10 DEF Snoops

LEMMA DcohBIRspFresh ==
  ASSUME DeviceReadsOwn, Facts, DcohOwn, DcohBIRsp
  PROVE  Fresh' /\ Refines
<1>1. /\ Typed /\ Rest /\ Using /\ Coherent /\ ProgramOf(Device) /\ Ordered
      /\ DcohShape /\ SnoopExchange
  BY FactsParts, RestParts
<1>2. UNCHANGED <<ha, mem>> /\ dcoh.state = "WAIT" /\ dcoh'.state = "INIT"
  BY DEF DcohOwn, DcohBIRsp, FinishDcoh
<1>3. dcoh.packet.type = "SNP_INV" /\ dcoh.packet.addr \in Addrs
  BY <1>1, <1>2, DeviceOwns DEF Using, DcohShape
<1>4. PICK x \in Addrs : x = dcoh.packet.addr
  BY <1>3
<1>5. PICK status \in ResponseStatus, data \in Values : Respond(Device, status, data)
  BY <1>3, FactsTypes DEF DcohBIRsp, ResponseStatus
<1>6. /\ Serves(Device) /\ ServedType(Device) = "SNP_INV" /\ ServedAddr(Device) = x
      /\ ~Serves(Device)'
  BY <1>2, <1>3, <1>4, ConstantTypes DEF Serves, ServedType, ServedAddr
<1>7. PICK v \in Values : Takes(Device, x, "M", v)
  BY <1>1, <1>5, <1>6, ConstantTypes, AnswerRecaches
<1>8. Pending("birsp") # {} /\ Changes("birsp", {})
  BY <1>1, InQueue, Pops, ChannelNames DEF DcohOwn, DcohBIRsp, Down
<1>9. /\ Pending("rwd") = {} /\ Pending("rwd")' = {} /\ Pending("drs")' = Pending("drs")
      /\ Pending("ndr")' = Pending("ndr")
  BY <1>8, ChangesSix, WriteSnooped
<1>10. ~Valid(Host, x) /\ ~GrantOf(x)
  BY <1>1, <1>4, <1>8 DEF Coherent, Gone, SnoopExchange, GrantOf
<1>11. \A r : ~Flushes(r)'
  <2>1. request'[Device] # <<>> => request'[Device][1].type \in Snoops
    BY <1>1, <1>5, <1>6, ConstantTypes, ProgramAnswered
  <2> QED
    BY <1>2, <2>1 DEF Flushes, Writes, Snoops
<1> QED
  BY <1>2, <1>7, <1>9, <1>10, <1>11, DeviceTakesFresh

LEMMA DcohReqFresh ==
  ASSUME DeviceReadsOwn, Facts, Rest', DcohReq
  PROVE  Fresh' /\ Refines
<1>1. /\ Typed /\ Rest /\ HostKeeps /\ Filling /\ Current /\ Stored /\ Flushing
      /\ ProgramOf(Host) /\ dcoh \in DcohType
  BY FactsParts, RestParts
<1>2. /\ Head(queue["req"]) = Fetch /\ Fetching /\ Pending("ndr") = {} /\ Pending("rwd") = {}
      /\ ha.addr \in Addrs
  BY <1>1, AtRequest
<1>3. PICK x \in Addrs : x = ha.addr
  BY <1>2
<1>4. /\ UNCHANGED <<proc, request, latest, ha, mem>>
      /\ dcoh'.state = dcoh.state /\ dcoh'.packet = dcoh.packet
      /\ Snoop(Device, SnoopOfReq(Fetch.opcode), Fetch.addr) /\ Fetch.addr = x
  BY <1>1, <1>2, <1>3 DEF DcohReq, DcohType, Fetch
<1>5. PICK type : Snoop(Device, type, x)
  BY <1>4
<1>6. /\ Filling' /\ Current' /\ Refines
      /\ \A c \in Agents, y \in Addrs :
           Valid(c, y)' <=> Valid(c, y) /\ ~(c = Device /\ y = x /\ type = "SNP_INV")
  BY <1>4, <1>5, ConstantTypes, SnoopKeeps
<1>7. /\ Pending("ndr")' # {}
      /\ ha.type = "SNP_DATA" => \E d : Pending("drs")' = {d} /\ d.data = DataOf(x)
  BY <1>1, <1>3, DcohReqRest, OwnApart
<1>8. /\ Fetching' /\ GrantOf(x)' /\ (\A y : ~GrantOf(y))
      /\ Pending("rwd")' = {} /\ (ha.type # "SNP_DATA" => Pending("drs")' = {})
  BY <1>2, <1>3, <1>4, <1>7, RestNext DEF GrantOf, Fetching, Exchange
<1>9. HostKeeps'
  BY <1>1, <1>4 DEF HostKeeps
<1>10. ha.type = "SNP_DATA" => DataOf(x) = latest[x]
  <2> SUFFICES ASSUME ha.type = "SNP_DATA" PROVE DataOf(x) = latest[x]
    OBVIOUS
  <2>1. Serves(Host) /\ ServedType(Host) = ha.type /\ ServedAddr(Host) = x
    BY <1>2, <1>3 DEF Fetching, Serves, ServedType, ServedAddr
  <2>2. Missing(Host) /\ proc[Host].addr = x
    BY <1>1, <2>1, AtWork, ConstantTypes DEF Awaits, Missing, Writes
  <2>3. ~Valid(Host, x)
    BY <1>1, <2>2, ConstantTypes DEF Filling
  <2>4. ~Valid(Device, x) => mem[x] = latest[x]
    BY <1>1, <1>2, <1>8, <2>3 DEF Stored
  <2> QED
    BY <1>1, <2>4, ConstantTypes DEF DataOf, Current
<1>11. Carrying'
  BY <1>3, <1>4, <1>7, <1>8, <1>10 DEF Carrying
<1>12. Stored'
  <2> SUFFICES ASSUME NEW y \in Addrs, ~Valid(Host, y)', ~Valid(Device, y)', y # x
               PROVE  mem[y] = latest[y]
    BY <1>4, <1>8 DEF Stored
  <2> QED
    BY <1>1, <1>2, <1>6, <1>8, ConstantTypes DEF Stored
<1>13. Flushing'
  <2> SUFFICES ASSUME NEW r \in CacheRequest, Flushes(r)
               PROVE  IF Valid(Device, r.addr)' THEN r.data = latest[r.addr]
                      ELSE Valid(Host, r.addr)' \/ GrantOf(r.addr)'
    BY <1>4 DEF Flushing, Flushes
  <2>1. PICK y \in Addrs : y = r.addr
    BY DEF CacheRequest
  <2>2. CASE Valid(Device, y)
    <3>1. r.data = latest[y]
      BY <1>1, <2>1, <2>2 DEF Flushing
    <3>2. Valid(Device, y)' \/ y = x
      BY <1>6, <2>2, ConstantTypes
    <3> QED
      BY <1>8, <2>1, <3>1, <3>2
  <2>3. CASE ~Valid(Device, y)
    <3>1. Valid(Host, y)
      BY <1>1, <1>8, <2>1, <2>3 DEF Flushing
    <3> QED
      BY <1>6, <2>1, <2>3, <3>1, ConstantTypes
  <2> QED
    BY <2>2, <2>3
<1> QED
  BY <1>6, <1>9, <1>11, <1>12, <1>13 DEF Fresh

LEMMA DcohRwDFresh ==
  ASSUME Facts, DcohRwD
  PROVE  Fresh' /\ Refines
<1>1. /\ Typed /\ Rest /\ HostKeeps /\ Carrying /\ Stored /\ Ordered /\ Exchange
      /\ dcoh \in DcohType
  BY FactsParts, RestParts
<1>2. /\ UNCHANGED <<proc, request, latest, ha, m2s>>
      /\ dcoh'.state = dcoh.state /\ dcoh'.packet = dcoh.packet
  BY <1>1 DEF DcohRwD, DcohType
<1>3. HostKeeps'
  BY <1>1, <1>2 DEF HostKeeps
<1>4. CASE queue["rwd"] = <<>>
  <2>1. UNCHANGED <<cache, mem, links>>
    BY <1>4 DEF DcohRwD, links
  <2>2. /\ Pending("rwd")' = Pending("rwd") /\ Pending("drs")' = Pending("drs")
        /\ \A x : GrantOf(x)' = GrantOf(x)
        /\ Fetching' = Fetching /\ ha'.addr = ha.addr
    BY <1>2, <2>1, StillLinks, SettledSix DEF GrantOf, Fetching
  <2>3. \A r : Flushes(r)' => Flushes(r)
    BY <1>2 DEF Flushes
  <2> QED
    BY <1>2, <1>3, <2>1, <2>2, <2>3, QuietFresh
<1>5. CASE queue["rwd"] # <<>>
  <2>1. PICK w : w = Head(queue["rwd"]) /\ Pending("rwd") = {w} /\ Pending("rwd") # {}
    BY <1>1, <1>5, InQueue, ChannelNames DEF Down
  <2>2. /\ Writing /\ dcoh.state = "WAIT" /\ w.addr = ha.addr
    BY <2>1, WriteSnooped
  <2>3. PICK x \in Addrs : x = ha.addr
    BY <1>1, <2>2 DEF Writing, Typed, Working
  <2>4. w.data = latest[x]
    BY <1>1, <2>1, <2>2, <2>3 DEF Carrying
  <2>5. /\ Snoop(Device, "SNP_INV", x) /\ mem' = [mem EXCEPT ![x] = latest[x]]
    BY <1>5, <2>1, <2>2, <2>3, <2>4 DEF DcohRwD
  <2>6. /\ Filling' /\ Current' /\ Refines
        /\ \A c \in Agents, y \in Addrs : Valid(c, y)' <=> Valid(c, y) /\ ~(c = Device /\ y = x)
    BY <1>2, <2>5, ConstantTypes, SnoopKeeps
  <2>7. Pending("rwd")' = {}
    <3>1. PICK p \in S2M : p.ch = "ndr" /\ s2m' = s2m \o <<p>>
      BY <1>5, PacketTypes DEF DcohRwD, DcohSends
    <3>2. Pending("ndr") = {} /\ Pending("drs") = {}
      BY <1>1, <2>1, <2>2 DEF Exchange
    <3>3. Exchanges("rwd", p)
      BY <1>1, <1>2, <1>5, <3>1, <3>2, DcohAnswers, ChannelNames DEF DcohRwD, Down
    <3> QED
      BY <3>3, ChannelNames DEF Exchanges, Down
  <2>8. ~Fetching' /\ (\A y : ~GrantOf(y))
    BY <1>2, <2>2 DEF Fetching, Writing, GrantOf
  <2>9. Carrying'
    BY <2>7, <2>8 DEF Carrying
  <2>10. Stored'
    <3> SUFFICES ASSUME NEW y \in Addrs, ~Valid(Host, y)', ~Valid(Device, y)'
                 PROVE  mem'[y] = latest[y]
      BY <1>2 DEF Stored
    <3>1. CASE y = x
      BY <2>5, <3>1, FactsTypes
    <3>2. CASE y # x
      BY <1>1, <2>1, <2>2, <2>3, <2>5, <2>6, <2>8, <3>2, FactsTypes, ConstantTypes DEF Stored
    <3> QED
      BY <3>1, <3>2
  <2>11. \A r : ~Flushes(r)'
    BY <1>2, <2>2, FlushAlone DEF Flushes
  <2> QED
    BY <1>3, <2>6, <2>9, <2>10, <2>11 DEF Fresh, Flushing
<1> QED
  BY <1>4, <1>5

----------------------------------------------------------------------------
(* What the processors do to the data.                                     *)

LEMMA RestsIdle ==
  ASSUME Facts, NEW a \in Agents, proc[a] = Idle
  PROVE  request[a] = <<>> /\ ~Serves(a)
<1>1. ProgramOf(a)
  BY FactsParts, RestParts DEF Agents
<1> QED
  BY <1>1 DEF ProgramOf, Paired, Awaits, Idle

\* A processor begins to wait: it asks for a line, or flushes one first.
LEMMA BeginsFresh ==
  ASSUME Facts, NEW a \in Agents, NEW p, proc' = [proc EXCEPT ![a] = p],
         UNCHANGED <<cache, latest, links, ha, dcoh, mem>>, HostKeeps', Flushing',
         p.pc = "fill" \/ (p.pc = "flush" /\ p.op = "load") => ~Valid(a, p.addr)
  PROVE  Fresh'
<1>1. Filling /\ Current /\ Carrying /\ Stored
  BY FactsParts
<1>2. /\ Pending("rwd")' = Pending("rwd") /\ Pending("drs")' = Pending("drs")
      /\ \A x : GrantOf(x)' = GrantOf(x)
      /\ Fetching' = Fetching
  BY StillLinks, SettledSix DEF GrantOf, Fetching
<1>3. Filling'
  <2> SUFFICES ASSUME NEW c \in Agents, Missing(c)', NEW y, y = proc'[c].addr
               PROVE  ~Valid(c, y)
    BY DEF Filling, Valid
  <2>1. CASE c = a
    BY <2>1, FactsTypes DEF Missing
  <2>2. CASE c # a
    BY <1>1, <2>2, FactsTypes DEF Missing, Filling
  <2> QED
    BY <2>1, <2>2
<1>4. Current' /\ Carrying' /\ Stored'
  BY <1>1, <1>2 DEF Current, Carrying, Stored, Valid
<1> QED
  BY <1>3, <1>4 DEF Fresh

LEMMA AskFresh ==
  ASSUME Facts, NEW a \in Agents, NEW op \in {"load", "store"}, NEW x, NEW v, Ask(a, op, x, v),
         proc[a] = Idle, op = "load" => ~Valid(a, x),
         UNCHANGED <<cache, latest, links, ha, dcoh, mem>>
  PROVE  Fresh' /\ Refines
<1>1. HostKeeps /\ Flushing
  BY FactsParts
<1>2. PICK p : /\ proc' = [proc EXCEPT ![a] = p] /\ p.pc \in {"fill", "own"}
               /\ p.addr = x /\ (p.pc = "fill" => op = "load")
  <2>1. PICK p : p = Asking(op, x, v)
    OBVIOUS
  <2>2. p.pc \in {"fill", "own"} /\ p.addr = x /\ (p.pc = "fill" => op = "load")
    BY <2>1 DEF Asking
  <2> QED
    BY <2>1, <2>2 DEF Ask
<1>3. HostKeeps'
  BY <1>1, <1>2, FactsTypes, ConstantTypes DEF HostKeeps
<1>4. \A r : Flushes(r)' => Flushes(r)
  <2>1. request \in [Agents -> Seq(CacheRequest)]
    BY DEF Facts, Typed, ControllersTypeOK
  <2>2. request'[a] = <<AskRequest(op, x)>> /\ AskRequest(op, x).type \in Snoops
    BY <2>1, RestsIdle, FirstPut DEF Ask, AskRequest, Snoops
  <2>3. a # Device => request'[Device] = request[Device]
    BY <2>1, ConstantTypes DEF Ask
  <2>4. request'[Device] # <<>> => \/ request'[Device] = request[Device]
                                  \/ request'[Device][1].type \in Snoops
    BY <2>2, <2>3
  <2> QED
    BY <2>4 DEF Flushes, Writes, Snoops
<1>5. \A y : GrantOf(y)' = GrantOf(y)
  BY StillLinks, SettledSix DEF GrantOf, Fetching
<1>6. Flushing'
  BY <1>1, <1>4, <1>5 DEF Flushing, Valid
<1>7. \A c \in Agents, y \in Addrs : CopyOf(c, y)' = CopyOf(c, y)
  BY <1>2, FactsTypes DEF CopyOf, Live, Valid, Evicting, Idle
<1> QED
  BY <1>2, <1>3, <1>6, <1>7, BeginsFresh, RefinesStill

LEMMA HostNeverFlushes ==
  ASSUME HostHolds, NEW x \in Addrs, ~Valid(Host, x)
  PROVE  FreeBlock(Host)
<1> DEFINE S == {z \in Addrs : Valid(Host, z)}
<1>1. S \subseteq Addrs /\ S # Addrs
  OBVIOUS
<1>2. IsFiniteSet(Addrs) /\ Cardinality(Addrs) <= Ways[Host]
  BY DEF HostHolds
<1>3. IsFiniteSet(S) /\ Cardinality(S) < Cardinality(Addrs)
  BY <1>1, <1>2, FS_Subset, FS_CardinalityType
<1>4. Cardinality(S) \in Nat /\ Cardinality(Addrs) \in Nat /\ Ways[Host] \in Nat
  BY <1>2, <1>3, FS_CardinalityType, ConstantTypes
<1> HIDE DEF S
<1>5. Cardinality(S) < Ways[Host]
  BY <1>2, <1>3, <1>4
<1> QED
  BY <1>5 DEF FreeBlock, S

LEMMA FlushFresh ==
  ASSUME Facts, NEW op \in {"load", "store"}, NEW x, NEW v, Flush(Device, op, x, v),
         proc[Device] = Idle, ~Valid(Device, x),
         UNCHANGED <<cache, latest, links, ha, dcoh, mem>>
  PROVE  Fresh' /\ Refines
<1>1. HostKeeps /\ Flushing /\ Current
  BY FactsParts
<1>2. PICK y \in Addrs : /\ Valid(Device, y)
        /\ proc' = [proc EXCEPT ![Device] = [pc |-> "flush", op |-> op, addr |-> x,
                                             val |-> v, victim |-> y]]
        /\ request' = [request EXCEPT ![Device] =
             Append(@, [type |-> WriteBackType(cache[Device][y].state),
                        addr |-> y, data |-> cache[Device][y].data])]
  BY DEF Flush
<1>3. PICK p : /\ proc' = [proc EXCEPT ![Device] = p] /\ p.pc = "flush" /\ p.addr = x
               /\ p.victim = y
  <2>1. PICK p : p = [pc |-> "flush", op |-> op, addr |-> x, val |-> v, victim |-> y]
    OBVIOUS
  <2>2. p.pc = "flush" /\ p.addr = x /\ p.victim = y
    BY <2>1
  <2> QED
    BY <1>2, <2>1, <2>2
<1>4. PICK q : /\ request' = [request EXCEPT ![Device] = Append(@, q)]
               /\ q.addr = y /\ q.data = cache[Device][y].data
  <2>1. PICK q : q = [type |-> WriteBackType(cache[Device][y].state),
                      addr |-> y, data |-> cache[Device][y].data]
    OBVIOUS
  <2>2. q.addr = y /\ q.data = cache[Device][y].data
    BY <2>1
  <2> QED
    BY <1>2, <2>1, <2>2
<1>5. request'[Device] = <<q>> /\ <<q>>[1] = q
  <2>1. request \in [Agents -> Seq(CacheRequest)]
    BY DEF Facts, Typed, ControllersTypeOK
  <2> QED
    BY <1>4, <2>1, RestsIdle, FirstPut, ConstantTypes
<1>6. HostKeeps'
  BY <1>1, <1>3, FactsTypes, ConstantTypes DEF HostKeeps
<1>7. \A r : Flushes(r)' => r = q
  BY <1>5, RestsIdle, ConstantTypes DEF Flushes, Serves
<1>8. q.data = latest[q.addr]
  BY <1>1, <1>2, <1>4, ConstantTypes DEF Current
<1>9. Flushing'
  BY <1>2, <1>4, <1>7, <1>8 DEF Flushing, Valid
<1>10. Recopies(Device, y, None)
  <2>1. /\ \A c \in Agents, z \in Addrs : Valid(c, z)' = Valid(c, z)
        /\ \A z \in Addrs : ~Evicting(Device, z) /\ (Evicting(Device, z)' <=> z = y)
        /\ \A c \in Agents, z \in Addrs : c # Device => Evicting(c, z)' = Evicting(c, z)
    BY <1>3, FactsTypes, ConstantTypes DEF Valid, Evicting, Idle
  <2> QED
    BY <2>1, ConstantTypes DEF Recopies, CopyOf, Live
<1> QED
  BY <1>2, <1>3, <1>6, <1>9, <1>10, BeginsFresh, RefinesForget, ConstantTypes

LEMMA HitFresh ==
  ASSUME DeviceReadsOwn, Facts, NEW a \in Agents, NEW x \in Addrs, NEW v \in Values,
         cache[a][x].state \in {"E", "M"}, Commit(a, x, v), proc[a] = Idle,
         UNCHANGED <<proc, request, links, ha, dcoh, mem>>
  PROVE  Fresh' /\ Refines
<1>1. /\ Typed /\ Rest /\ Using /\ Coherent /\ HostKeeps /\ ProgramOf(Host) /\ ProgramOf(Device)
  BY FactsParts, RestParts
<1>2. Takes(a, x, "M", v)
  <2>1. Recaches(a, x, [state |-> "M", data |-> v])
    BY FactsTypes DEF Commit, Recaches
  <2>2. proc' = [proc EXCEPT ![a] = Idle] /\ proc[a].pc # "flush"
    BY FactsTypes DEF Idle
  <2> QED
    BY <2>1, <2>2 DEF Takes, Commit
<1>3. HostKeeps'
  BY <1>1 DEF HostKeeps
<1>4. /\ Pending("rwd")' = Pending("rwd") /\ Pending("drs")' = Pending("drs")
      /\ \A y : GrantOf(y)' = GrantOf(y)
      /\ Fetching' = Fetching
  BY StillLinks, SettledSix DEF GrantOf, Fetching
<1>5. \A b \in Agents : b # a => ~Valid(b, x)
  BY <1>1 DEF Coherent, Apart, Agents, Valid
<1>6. \A p \in Pending("rwd") : p.addr # x
  <2> SUFFICES ASSUME NEW p \in Pending("rwd"), p.addr = x PROVE FALSE
    OBVIOUS
  <2>1. Writing /\ ha.addr = x /\ dcoh.state = "WAIT"
    BY WriteSnooped
  <2>2. ~Valid(Host, x)
    BY <1>1, <2>1 DEF Coherent, Gone
  <2>3. a = Device
    BY <2>2 DEF Agents, Valid
  <2> QED
    BY <2>1, <2>3, RestsIdle, ConstantTypes DEF Serves
<1>7. Fetching /\ Pending("drs") # {} => ha.addr # x
  <2> SUFFICES ASSUME Fetching, Pending("drs") # {}, ha.addr = x PROVE FALSE
    OBVIOUS
  <2>1. a = Device
    BY RestsIdle DEF Agents, Serves, Fetching
  <2>2. GrantOf(x)
    BY DataGranted
  <2>3. cache[Device][x].state # "E"
    BY <1>1, <2>2, GrantUsed, NeverExclusive
  <2> QED
    BY <1>1, <2>1, <2>2, <2>3 DEF Coherent, Apart
<1>8. \A r : Flushes(r)' => Flushes(r) /\ a = Host
  <2>1. \A r : Flushes(r)' => Flushes(r)
    BY DEF Flushes
  <2>2. (\E r : Flushes(r)) => a # Device
    BY FlushAlone DEF Idle
  <2> QED
    BY <2>1, <2>2 DEF Agents
<1> QED
  BY <1>2, <1>3, <1>4, <1>5, <1>6, <1>7, <1>8, TakesFresh

LEMMA ProcessorsFresh ==
  ASSUME DeviceReadsOwn, HostHolds, Facts, NEW a \in Agents, Processor(a)
  PROVE  Fresh' /\ Refines
<1>1. UNCHANGED <<links, ha, dcoh, mem>>
  BY DEF Processor
<1>2. ASSUME NEW op \in {"load", "store"}, NEW x \in Addrs, NEW v, Miss(a, op, x, v),
             proc[a] = Idle
      PROVE  Fresh' /\ Refines
  <2>1. ~Valid(a, x) /\ UNCHANGED <<cache, latest>>
    BY <1>2 DEF Miss
  <2>2. CASE Ask(a, op, x, v)
    BY <1>1, <1>2, <2>1, <2>2, AskFresh
  <2>3. CASE ~FreeBlock(a) /\ Flush(a, op, x, v)
    <3>1. a = Device
      BY <2>1, <2>3, HostNeverFlushes DEF Agents
    <3> QED
      BY <1>1, <1>2, <2>1, <2>3, <3>1, FlushFresh
  <2> QED
    BY <1>2, <2>2, <2>3 DEF Miss
<1>3. ASSUME NEW x \in Addrs, Load(a, x) PROVE Fresh' /\ Refines
  BY <1>2, <1>3 DEF Load
<1>4. ASSUME NEW x \in Addrs, NEW v \in Values, Store(a, x, v) PROVE Fresh' /\ Refines
  <2>1. CASE Miss(a, "store", x, v)
    BY <1>2, <1>4, <2>1 DEF Store
  <2>2. CASE Ask(a, "store", x, v) /\ UNCHANGED <<cache, latest>>
    BY <1>1, <1>4, <2>2, AskFresh DEF Store
  <2>3. CASE /\ cache[a][x].state \in {"E", "M"} /\ Commit(a, x, v)
             /\ UNCHANGED <<proc, request>>
    BY <1>1, <1>4, <2>3, HitFresh DEF Store
  <2> QED
    BY <1>4, <2>1, <2>2, <2>3 DEF Store
<1> QED
  BY <1>3, <1>4 DEF Processor

----------------------------------------------------------------------------
(* Coherence of the data: the theorem.                                     *)

LEMMA FactsInit == Init => Facts
<1> SUFFICES ASSUME Init PROVE Facts
  OBVIOUS
<1>1. Protocol /\ Using /\ Coherent
  BY ProtocolInit, UsingInit, CoherentInit
<1>2. Typed /\ Rest /\ Exchange
  BY <1>1, RestParts DEF Protocol
<1>3. \A a \in Agents : proc[a] = Idle /\ request[a] = <<>> /\ \A x \in Addrs : ~Valid(a, x)
  BY DEF Init, ControllersInit, Invalid, Valid
<1>4. ha.state = "INIT" /\ dcoh.state = "INIT"
  BY DEF Init, HaIdle
<1>5. \A x \in Addrs : mem[x] = latest[x]
  BY DEF Init, ControllersInit
<1>6. HostKeeps /\ Filling /\ Current
  BY <1>3, <1>4, ConstantTypes DEF HostKeeps, Filling, Missing, Current, Idle
<1>7. Carrying
  BY <1>2, <1>4 DEF Exchange, Carrying, Fetching
<1>8. Stored
  BY <1>5 DEF Stored
<1>9. Flushing
  BY <1>3, <1>4, ConstantTypes DEF Flushing, Flushes
<1> QED
  BY <1>1, <1>2, <1>6, <1>7, <1>8, <1>9 DEF Facts, Fresh

LEMMA FactsStep == DeviceReadsOwn /\ HostHolds /\ Facts /\ [Next]_vars => Facts' /\ Refines
<1> SUFFICES ASSUME DeviceReadsOwn, HostHolds, Facts, [Next]_vars PROVE Facts' /\ Refines
  OBVIOUS
<1>1. Protocol /\ Using /\ Coherent /\ Typed /\ Rest
  BY FactsParts DEF Protocol
<1>2. Typed' /\ Rest' /\ Using' /\ Coherent'
  BY <1>1, OwnApart, ProtocolStep, UsingStep, CoherentStep DEF Protocol
<1>3. CASE HaStep
  <2>1. ~HaHostWriteBack \/ ~HaFn
    <3> SUFFICES ASSUME HaFn, HaHostWriteBack PROVE FALSE
      OBVIOUS
    <3>1. ha.state = "START" /\ ha.type \in Writes
      BY DEF HaFn, HaHostWriteBack, Writes
    <3>2. ha.src = Host
      BY <1>1, <3>1, RestParts DEF HaShape, Writes
    <3> QED
      BY <3>1, <3>2, HostAsks DEF Writes, Snoops
  <2> QED
    BY <1>1, <1>2, <1>3, <2>1, HaTakesFresh, HaHostRequestFresh, HaBISnpFresh,
       HaCompletionFresh, HaPlainCompletionFresh, NoLoneData, HaNoneFresh
       DEF HaStep, HaFn, HaNdr, Facts
<1>4. CASE DcohStep
  BY <1>2, <1>4, DcohTakeFresh, DcohWaitsFresh, DcohWriteBackFresh, DcohOwnMissFresh,
     DcohBIRspFresh, DcohReqFresh, DcohRwDFresh DEF DcohStep, DcohOwn, Facts
<1>5. CASE HaReceive \/ DcohReceive
  BY <1>2, <1>5, ReceivesFresh DEF Facts
<1>6. CASE \E a \in Agents : Processor(a)
  BY <1>2, <1>6, ProcessorsFresh DEF Facts
<1>7. CASE UNCHANGED vars
  BY <1>2, <1>7, StillLinks, StillFresh DEF vars, controllers, Facts
<1> QED
  BY <1>3, <1>4, <1>5, <1>6, <1>7 DEF Next

\* Host and device see one memory: a copy that either may use is the last
\* value that was stored in its line, and no other copy is in use when one of
\* them writes.  (The device's reads are of its own lines, and the host's cache
\* has room for all.)
THEOREM OneMemory == DeviceReadsOwn /\ HostHolds => (Spec => CoherentMemory)
<1> SUFFICES ASSUME DeviceReadsOwn, HostHolds PROVE Spec => CoherentMemory
  OBVIOUS
<1>1. Init => Abstract!Init
  BY DEF Init, ControllersInit, Abstract!Init, Live, Valid, Invalid
<1>2. Facts /\ [Next]_vars => Facts' /\ Refines
  BY FactsStep
<1>3. Refines => [Abstract!Next]_<<latest, Copies>>
  BY DEF Refines
<1> QED
  BY <1>1, <1>2, <1>3, FactsInit, PTL DEF Spec, CoherentMemory, Abstract!Spec, Copies, CopyOf

=============================================================================
