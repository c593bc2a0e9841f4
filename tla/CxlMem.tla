------------------------------- MODULE CxlMem -------------------------------
(***************************************************************************)
(* Coherence of a CXL Type 2 device's memory (HDM-DB) over CXL.mem: the    *)
(* host's CacheController and HomeAgent, the device's CxlMemDcoh with its  *)
(* snoop filter, its memory and its CacheController.                       *)
(*                                                                         *)
(* HomeAgent and CxlMemDcoh are polling loops.  A turn that only finds     *)
(* nothing to do is no step; in a turn that does more than one thing, the  *)
(* part it has come to is kept.  Accesses to the device's memory do not    *)
(* suspend (FileAccessor), and a cache lookup made for a coherence agent   *)
(* is part of the step that asks for it: after it the line is shared or    *)
(* invalid, and only a step of that agent can change this.  The HDM        *)
(* decoder maps lines of host addresses to lines of device addresses one   *)
(* to one, so one set names both.                                          *)
(***************************************************************************)
EXTENDS Naturals, Sequences, FiniteSets

CONSTANTS
  Host, Device,  \* the two cache controllers
  Addrs,         \* the cache line addresses that map to the modelled set
  Values,        \* contents of a line
  InitVal,       \* what memory, blocks and data-less packets hold at first
  Ways,          \* per agent, cache_num_assoc
  Loads,         \* per agent, the addresses its processor reads
  Stores,        \* per agent, the addresses its processor writes
  None           \* Python's None

Agents == {Host, Device}

ASSUME CxlMemAssumption ==
  /\ Host # Device
  /\ InitVal \in Values
  /\ Ways \in [Agents -> Nat]
  /\ Loads \in [Agents -> SUBSET Addrs]
  /\ Stores \in [Agents -> SUBSET Addrs]

VARIABLES
  cache,    \* per agent, CacheController._cache: the block of each address
  proc,     \* per agent, the suspended load or store of its processor
  request,  \* per agent, the request queue of cache_to_coh_agent_fifo
  ha,       \* HomeAgent: _cur_state, _fc_host_run and the part of its loop
  dcoh,     \* CxlMemDcoh: _cur_state and the part of its loop
  m2s, s2m, \* packets on their way to the device, to the host
  queue,    \* per channel, the _cxl_channel queue of its receiver
  sf,       \* CxlMemDcoh._sf_host
  mem,      \* the device's memory
  latest    \* history: per line, the value of the last store that took effect

INSTANCE CacheController

----------------------------------------------------------------------------
M2SReq   == [ch : {"req"}, opcode : {"MEM_RD", "MEM_INV"}, addr : Addrs]
M2SRwD   == [ch : {"rwd"}, addr : Addrs, data : Values]
M2SBIRsp == [ch : {"birsp"}, opcode : {"BIRSP_S", "BIRSP_I"}]
S2MNDR   == [ch : {"ndr"}, opcode : {"CMP", "CMP_S", "CMP_E"}, any : BOOLEAN]
S2MDRS   == [ch : {"drs"}, data : Values]
S2MBISnp == [ch : {"bisnp"}, opcode : {"BISNP_DATA", "BISNP_INV"}, addr : Addrs]

Channel == [req |-> M2SReq, rwd |-> M2SRwD, birsp |-> M2SBIRsp,
            ndr |-> S2MNDR, drs |-> S2MDRS, bisnp |-> S2MBISnp]

controllers == <<cache, proc, request, latest>>
links       == <<m2s, s2m, queue>>
vars        == <<controllers, links, ha, dcoh, sf, mem>>

\* The packet of an agent at rest is not read again.
HaIdle(fcHost) ==
  [part |-> "take", state |-> "INIT", src |-> None, type |-> None, addr |-> None,
   data |-> InitVal, rsp |-> "BIRSP_I", sched |-> FALSE, fcHost |-> fcHost]

Init ==
  /\ ControllersInit
  /\ ha = HaIdle(FALSE)
  /\ dcoh = [part |-> "own", state |-> "INIT", packet |-> None]
  /\ m2s = <<>> /\ s2m = <<>>
  /\ queue = [ch \in DOMAIN Channel |-> <<>>]
  /\ sf = {}
  /\ mem = [x \in Addrs |-> InitVal]

Pop(ch) == queue' = [queue EXCEPT ![ch] = Tail(@)]

----------------------------------------------------------------------------
(* HomeAgent: the main loop takes host requests and back-invalidate snoops *)
(* in turn.  A turn with a current packet runs its handler, then takes one *)
(* NDR, then one DRS; only the handler of a snoop suspends on the way.     *)

\* _process_downstream_target_to_host_packets
HaReceive ==
  /\ s2m # <<>>
  /\ queue' = [queue EXCEPT ![Head(s2m).ch] = Append(@, Head(s2m))]
  /\ s2m' = Tail(s2m)
  /\ UNCHANGED <<controllers, m2s, ha, dcoh, sf, mem>>

HaTakeHost ==
  /\ ha.state = "INIT" /\ ha.part = "take"
  /\ request[Host] # <<>>
  /\ ha.fcHost => queue["bisnp"] = <<>>
  /\ LET r == Head(request[Host]) IN
       ha' = [ha EXCEPT !.state = "START", !.src = Host, !.type = r.type,
                        !.addr = r.addr, !.data = r.data, !.fcHost = TRUE]
  /\ request' = [request EXCEPT ![Host] = Tail(@)]
  /\ UNCHANGED <<cache, proc, latest, links, dcoh, sf, mem>>

HaTakeDevice ==
  /\ ha.state = "INIT" /\ ha.part = "take"
  /\ queue["bisnp"] # <<>>
  /\ ~ha.fcHost => request[Host] = <<>>
  /\ LET r == Head(queue["bisnp"]) IN
       ha' = [ha EXCEPT !.state = "START", !.src = Device, !.type = r.opcode,
                        !.addr = r.addr, !.fcHost = FALSE]
  /\ Pop("bisnp")
  /\ UNCHANGED <<controllers, m2s, s2m, dcoh, sf, mem>>

HaSend(packet) == m2s' = Append(m2s, packet)

\* _process_upstream_host_to_target_packets: a write-back is answered at once,
\* and the loop waits for its completion.
\* (Mutant: it does not wait.)
AfterWriteBackReady == "INIT"
AfterWriteBack == "WAIT"

HaHostWriteBack ==
  /\ ha.type \in {"WRITE_BACK", "WRITE_BACK_CLEAN"}
  /\ Respond(Host, "OK", InitVal)
  /\ HaSend([ch |-> "rwd", addr |-> ha.addr, data |-> ha.data])
  /\ ha' = [ha EXCEPT !.state = AfterWriteBack, !.part = "ndr"]

HaHostRequest ==
  /\ ha.type \in {"SNP_DATA", "SNP_INV"}
  /\ HaSend([ch |-> "req", opcode |-> IF ha.type = "SNP_DATA" THEN "MEM_RD" ELSE "MEM_INV",
             addr |-> ha.addr])
  /\ ha' = [ha EXCEPT !.state = "WAIT", !.part = "ndr"]
  /\ UNCHANGED controllers

\* _process_cxl_s2m_bisnp_packet: on a miss the answer goes at once, on a hit
\* the data go first and the answer when their write has completed.
HaBISnp ==
  /\ ha.type \in {"BISNP_DATA", "BISNP_INV"}
  /\ LET type   == IF ha.type = "BISNP_DATA" THEN "SNP_DATA" ELSE "SNP_INV"
         block  == cache[Host][ha.addr]
         status == SnoopStatus(type, block.state) IN
       /\ Snoop(Host, type, ha.addr)
       /\ \/ /\ status = "RSP_MISS"
             /\ HaSend([ch |-> "birsp", opcode |-> "BIRSP_I"])
             /\ ha' = [ha EXCEPT !.state = "INIT", !.part = "ndr"]
          \/ /\ status # "RSP_MISS"
             /\ HaSend([ch |-> "rwd", addr |-> ha.addr, data |-> block.data])
             /\ ha' = [ha EXCEPT !.state = "WAIT", !.part = "ndr", !.sched = TRUE,
                                 !.rsp = IF status = "RSP_S" THEN "BIRSP_S" ELSE "BIRSP_I"]
  /\ UNCHANGED <<proc, request, latest>>

HaFn ==
  /\ ha.state = "START" /\ ha.part = "take"
  /\ HaHostWriteBack \/ HaHostRequest \/ HaBISnp
  /\ UNCHANGED <<s2m, queue, dcoh, sf, mem>>

\* Where a turn is after its NDR: it handles a DRS that is there at once.
AfterNdr(drs) == IF drs = <<>> THEN "take" ELSE "drs"

\* birsp_sched once a plain completion has been handled.
\* (Mutant: it is not reset.)
SchedAfterStays == ha.sched
SchedAfter == FALSE

\* _process_cxl_s2m_rsp_packet.  A completion that says where the line goes
\* answers the host; if it promises data, the loop spins until they are here.
HaCompletion ==
  LET ndr == Head(queue["ndr"])
      drs == queue["drs"]
      status == IF ndr.opcode = "CMP_S" THEN "RSP_S" ELSE "RSP_I" IN
  /\ ndr.opcode \in {"CMP_S", "CMP_E"}
  /\ \/ /\ ndr.any /\ drs # <<>>
        /\ Respond(Host, status, Head(drs).data)
        /\ queue' = [queue EXCEPT !["ndr"] = Tail(@), !["drs"] = Tail(@)]
        /\ ha' = [ha EXCEPT !.state = "INIT", !.part = AfterNdr(Tail(drs))]
     \/ /\ ~ndr.any
        /\ Respond(Host, status, InitVal)
        /\ Pop("ndr")
        /\ ha' = [ha EXCEPT !.state = "INIT", !.part = AfterNdr(drs)]
  /\ UNCHANGED m2s

\* A plain completion is of a write: the answer to the snoop that made the
\* host write goes out.  (The loop dies when its packet is not that snoop.)
HaPlainCompletion ==
  /\ Head(queue["ndr"]).opcode = "CMP"
  /\ \/ /\ ha.sched /\ ha.src = Device
        /\ HaSend([ch |-> "birsp", opcode |-> ha.rsp])
        /\ ha' = [ha EXCEPT !.state = "INIT", !.part = AfterNdr(queue["drs"]),
                            !.sched = SchedAfter]
     \/ /\ ha.sched /\ ha.src # Device
        /\ ha' = [ha EXCEPT !.part = "FAILED"]
        /\ UNCHANGED m2s
     \/ /\ ~ha.sched
        /\ ha' = [ha EXCEPT !.state = "INIT", !.part = AfterNdr(queue["drs"])]
        /\ UNCHANGED m2s
  /\ Pop("ndr")
  /\ UNCHANGED controllers

\* A later turn of a waiting packet has nothing to do before its NDR.
AtNdr == ha.part = "ndr" \/ (ha.part = "take" /\ ha.state = "WAIT")

HaNdr ==
  /\ AtNdr
  /\ queue["ndr"] # <<>>
  /\ HaCompletion \/ HaPlainCompletion
  /\ UNCHANGED <<s2m, dcoh, sf, mem>>

\* _process_cxl_s2m_drs_packet
HaDrs ==
  /\ ha.part = "drs" \/ (AtNdr /\ queue["ndr"] = <<>>)
  /\ queue["drs"] # <<>>
  /\ Respond(Host, "OK", Head(queue["drs"]).data)
  /\ Pop("drs")
  /\ ha' = [ha EXCEPT !.state = "INIT", !.part = "take"]
  /\ UNCHANGED <<m2s, s2m, dcoh, sf, mem>>

\* The turn of a handler ends with no packet to take.
HaNone ==
  /\ ha.part = "ndr"
  /\ queue["ndr"] = <<>> /\ queue["drs"] = <<>>
  /\ ha' = [ha EXCEPT !.part = "take"]
  /\ UNCHANGED <<controllers, links, dcoh, sf, mem>>

\* _home_agent_coherency_main_loop
HaStep == HaTakeHost \/ HaTakeDevice \/ HaFn \/ HaNdr \/ HaDrs \/ HaNone

----------------------------------------------------------------------------
(* CxlMemDcoh: a turn of the main loop takes or advances the device's own  *)
(* request, takes its back-invalidate response, then one M2S request, then *)
(* one M2S write, whatever the state of the device's own request.  It      *)
(* suspends only for the cache lookups of the last two.                    *)

\* _process_host_to_target
DcohReceive ==
  /\ m2s # <<>>
  /\ queue' = [queue EXCEPT ![Head(m2s).ch] = Append(@, Head(m2s))]
  /\ m2s' = Tail(m2s)
  /\ UNCHANGED <<controllers, s2m, ha, dcoh, sf, mem>>

DcohSends(packets) == s2m' = s2m \o packets

\* Where a turn is after the device's own request.
\* (Mutant: a device that waits for its own request serves no other.)
AfterOwnBlocked == CASE dcoh.state = "WAIT" -> "own"
                     [] dcoh.state # "WAIT" /\ queue["req"] # <<>> -> "req"
                     [] dcoh.state # "WAIT" /\ queue["req"] = <<>> /\ queue["rwd"] # <<>> -> "rwd"
                     [] OTHER -> "own"
AfterOwn == CASE queue["req"] # <<>> -> "req"
              [] queue["req"] = <<>> /\ queue["rwd"] # <<>> -> "rwd"
              [] OTHER -> "own"

DcohTake ==
  /\ dcoh.state = "INIT"
  /\ request[Device] # <<>>
  /\ dcoh' = [part |-> AfterOwn, state |-> "START", packet |-> Head(request[Device])]
  /\ request' = [request EXCEPT ![Device] = Tail(@)]
  /\ UNCHANGED <<cache, proc, latest, queue, s2m, sf, mem>>

\* Nothing to take or to advance.
DcohOwnNone ==
  /\ \/ dcoh.state = "INIT" /\ request[Device] = <<>>
     \/ dcoh.state = "WAIT" /\ queue["birsp"] = <<>>
  /\ AfterOwn # "own"
  /\ dcoh' = [dcoh EXCEPT !.part = AfterOwn]
  /\ UNCHANGED <<controllers, queue, s2m, sf, mem>>

FinishDcoh == dcoh' = [part |-> AfterOwn, state |-> "INIT", packet |-> None]

\* _process_cache_to_dcoh
DcohWriteBack ==
  /\ dcoh.packet.type \in {"WRITE_BACK", "WRITE_BACK_CLEAN"}
  /\ mem' = [mem EXCEPT ![dcoh.packet.addr] = dcoh.packet.data]
  /\ Respond(Device, "OK", InitVal)
  /\ FinishDcoh
  /\ UNCHANGED <<s2m, sf>>

DcohOwnMiss ==
  /\ dcoh.packet.type \in {"SNP_DATA", "SNP_INV"} /\ dcoh.packet.addr \notin sf
  /\ Respond(Device, "RSP_I",
             IF dcoh.packet.type = "SNP_DATA" THEN mem[dcoh.packet.addr] ELSE InitVal)
  /\ FinishDcoh
  /\ UNCHANGED <<s2m, sf, mem>>

\* (Mutant: the request type is sent as it is.)
BISnpOpcodeUntranslated(type) == type
BISnpOpcode(type) == IF type = "SNP_DATA" THEN "BISNP_DATA" ELSE "BISNP_INV"

DcohBISnp ==
  /\ dcoh.packet.type \in {"SNP_DATA", "SNP_INV"} /\ dcoh.packet.addr \in sf
  /\ DcohSends(<<[ch |-> "bisnp", addr |-> dcoh.packet.addr,
                  opcode |-> BISnpOpcode(dcoh.packet.type)]>>)
  /\ sf' = IF dcoh.packet.type = "SNP_INV" THEN sf \ {dcoh.packet.addr} ELSE sf
  /\ dcoh' = [dcoh EXCEPT !.state = "WAIT", !.part = AfterOwn]
  /\ UNCHANGED <<controllers, mem>>

\* _process_cxl_m2s_birsp_packet
DcohBIRsp ==
  /\ dcoh.state = "WAIT"
  /\ queue["birsp"] # <<>>
  /\ Respond(Device, IF Head(queue["birsp"]).opcode = "BIRSP_S" THEN "RSP_S" ELSE "RSP_I",
             mem[dcoh.packet.addr])
  /\ Pop("birsp")
  /\ FinishDcoh
  /\ UNCHANGED <<s2m, sf, mem>>

DcohOwn ==
  /\ dcoh.part = "own"
  /\ \/ DcohTake \/ DcohOwnNone \/ DcohBIRsp
     \/ /\ dcoh.state = "START"
        /\ DcohWriteBack \/ DcohOwnMiss \/ DcohBISnp
        /\ UNCHANGED queue
  /\ UNCHANGED <<m2s, ha>>

\* _process_cxl_m2s_req_packet.  The completion names the state the host gets
\* the line in, and the host enters the snoop filter with it; a clean hit is
\* the exception: a plain completion, and the host does not enter.
\* (Mutant: only a host that shares the line enters.)
FilterAfterReqShared(cmp, x) == IF cmp = "CMP_S" THEN sf \cup {x} ELSE sf
FilterAfterReq(cmp, x) == IF cmp = "CMP" THEN sf ELSE sf \cup {x}

\* (Mutant: a dirty hit is read from memory as well.)
ReadDataStale(status, x) == mem[x]
ReadData(status, x) == IF status = "RSP_MISS" THEN mem[x] ELSE cache[Device][x].data

\* The snoop a request makes in the device's cache.
\* (Mutant: an ownership request leaves the device its copy.)
SnoopOfReqShared(opcode) == "SNP_DATA"
SnoopOfReq(opcode) == IF opcode = "MEM_RD" THEN "SNP_DATA" ELSE "SNP_INV"

\* meta_value ANY tells that data follow the completion.
\* (Mutant: it is left at its default.)
DataFollowUnsaid(opcode) == FALSE
DataFollow(opcode) == opcode = "MEM_RD"

DcohReq ==
  /\ dcoh.part = "req"
  /\ LET packet == Head(queue["req"])
         x      == packet.addr
         type   == SnoopOfReq(packet.opcode)
         status == SnoopStatus(type, cache[Device][x].state)
         cmp    == CASE status \in {"RSP_MISS", "RSP_I"} -> "CMP_E"
                     [] status \in {"RSP_S", "RSP_M"} -> "CMP_S"
                     [] status = "RSP_E" -> "CMP"
         ndr    == [ch |-> "ndr", opcode |-> cmp, any |-> DataFollow(packet.opcode)]
         drs    == [ch |-> "drs", data |-> ReadData(status, x)] IN
       /\ Snoop(Device, type, x)
       /\ sf' = FilterAfterReq(cmp, x)
       /\ DcohSends(IF packet.opcode = "MEM_RD" THEN <<ndr, drs>> ELSE <<ndr>>)
  /\ Pop("req")
  /\ dcoh' = [dcoh EXCEPT !.part = "rwd"]
  /\ UNCHANGED <<proc, request, latest, m2s, ha, mem>>

\* _process_cxl_m2s_rwd_packet of a flush: the device's copy and the host's
\* entry in the snoop filter go.
DcohRwD ==
  /\ dcoh.part = "rwd"
  /\ \/ /\ queue["rwd"] # <<>>
        /\ LET packet == Head(queue["rwd"]) IN
             /\ Snoop(Device, "SNP_INV", packet.addr)
             /\ sf' = sf \ {packet.addr}
             /\ mem' = [mem EXCEPT ![packet.addr] = packet.data]
        /\ DcohSends(<<[ch |-> "ndr", opcode |-> "CMP", any |-> FALSE]>>)
        /\ Pop("rwd")
     \/ queue["rwd"] = <<>> /\ UNCHANGED <<cache, sf, mem, s2m, queue>>
  /\ dcoh' = [dcoh EXCEPT !.part = "own"]
  /\ UNCHANGED <<proc, request, latest, m2s, ha>>

\* _cxl_mem_dcoh_main_loop
DcohStep == DcohOwn \/ DcohReq \/ DcohRwD

----------------------------------------------------------------------------

Processor(a) ==
  \/ \E x \in Addrs : Load(a, x) /\ UNCHANGED <<links, ha, dcoh, sf, mem>>
  \/ \E x \in Addrs, v \in Values : Store(a, x, v) /\ UNCHANGED <<links, ha, dcoh, sf, mem>>

Next == \/ \E a \in Agents : Processor(a)
        \/ HaReceive \/ HaStep
        \/ DcohReceive \/ DcohStep

\* Every loop is a task of the event loop that yields with sleep(0) and polls
\* again: none that can go on is passed over for ever.
Fairness == WF_vars(HaReceive) /\ WF_vars(HaStep) /\ WF_vars(DcohReceive) /\ WF_vars(DcohStep)

Spec == Init /\ [][Next]_vars /\ Fairness

----------------------------------------------------------------------------
(* Properties.                                                             *)

\* What the loops keep and the packets, requests and blocks they exchange;
\* each channel carries only its own packets, with a translated opcode.
TypeOK ==
  /\ ControllersTypeOK
  /\ ha \in [part : {"take", "ndr", "drs", "FAILED"}, state : {"INIT", "START", "WAIT"},
             src : Agents \cup {None},
             type : RequestType \cup {"BISNP_DATA", "BISNP_INV", None},
             addr : Addrs \cup {None}, data : Values, rsp : {"BIRSP_S", "BIRSP_I"},
             sched : BOOLEAN, fcHost : BOOLEAN]
  /\ dcoh \in [part : {"own", "req", "rwd"}, state : {"INIT", "START", "WAIT"},
               packet : CacheRequest \cup {None}]
  /\ m2s \in Seq(M2SReq \cup M2SRwD \cup M2SBIRsp)
  /\ s2m \in Seq(S2MNDR \cup S2MDRS \cup S2MBISnp)
  /\ DOMAIN queue = DOMAIN Channel
  /\ \A ch \in DOMAIN queue : queue[ch] \in Seq(Channel[ch])
  /\ sf \subseteq Addrs
  /\ mem \in [Addrs -> Values]

\* Packets of a channel that are on a link, and that are sent and not yet handled.
Sent(link, ch) == {i \in DOMAIN link : link[i].ch = ch}
Pending(ch) == {m2s[i] : i \in Sent(m2s, ch)} \cup {s2m[i] : i \in Sent(s2m, ch)}
                 \cup {queue[ch][i] : i \in DOMAIN queue[ch]}

\* No channel ever holds two packets: HomeAgent and CxlMemDcoh each have at
\* most one request of theirs in flight, and each is answered once.  (Their
\* handlers keep one packet and match no tags.)
OnePacketPerChannel ==
  \A ch \in DOMAIN Channel :
    Cardinality(Sent(m2s, ch)) + Cardinality(Sent(s2m, ch)) + Len(queue[ch]) <= 1

\* "HDM-DB: DRS immediately following NDR as part of one response": no data
\* are left behind when HomeAgent is done with the request they answer.
ResponsesWhole == ha.state = "INIT" => Pending("drs") = {}

\* The completion that sends a scheduled back-invalidate response finds the
\* snoop it answers, so HomeAgent's loop does not die of another packet.
HaAlive == ha.part # "FAILED"

\* A line the host may use is in the device's snoop filter, but for the time
\* in which the device, having dropped it, waits for the host to give it up.
SnoopFilterInclusive ==
  \A x \in Addrs : Live(Host, x) =>
    x \in sf \/ (dcoh.state = "WAIT" /\ dcoh.packet.addr = x)

\* A line that one cache may write without asking is not usable in the other.
OwnerAlone ==
  \A a, b \in Agents, x \in Addrs :
    a # b /\ Live(a, x) /\ cache[a][x].state \in {"E", "M"} => ~Live(b, x)

\* A write-back of x is on its way to the device.
WritingBack(x) ==
  \/ \E i \in DOMAIN request[Host] :
       request[Host][i].addr = x /\ request[Host][i].type \in {"WRITE_BACK", "WRITE_BACK_CLEAN"}
  \/ \E p \in Pending("rwd") : p.addr = x

\* When a back-invalidate snoop misses in the host's cache, the response that
\* goes at once cannot overtake the line's write-back: the device reads the
\* line from its memory when the response comes.
MissFollowsWriteBack ==
  \A x \in Addrs :
    /\ ha.state = "START" /\ ha.src = Device /\ ha.addr = x
    /\ ~Valid(Host, x)
    => ~WritingBack(x)

\* Host and device see one memory (refinement): a usable copy is the last
\* value stored in its line.
Abstract == INSTANCE CoherentMemory WITH
  store <- latest,
  copy <- [a \in Agents |-> [x \in Addrs |->
             IF Live(a, x) THEN cache[a][x].data ELSE None]]
CoherentMemory == Abstract!Spec

\* Every load and store ends.
Completes == \A a \in Agents : proc[a].pc # "idle" ~> proc[a].pc = "idle"

=============================================================================
