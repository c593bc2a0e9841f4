------------------------------ MODULE CxlCache ------------------------------
(***************************************************************************)
(* Coherence of host memory (DRAM) over CXL.cache: the CacheController of  *)
(* the host and of every CXL Type 1 device, the host's                     *)
(* CacheCoherencyBridge with its snoop filters, and the CxlCacheDcoh of    *)
(* each device.                                                            *)
(*                                                                         *)
(* The program is a set of asyncio coroutines.  An action is what a        *)
(* coroutine does between two points at which it can really be suspended:  *)
(* a put on an unbounded Queue never suspends, and the task waiting on a   *)
(* response Queue runs before the task that answered it reaches its next   *)
(* loop turn, so an answer and what its receiver does with it are one      *)
(* step.  A cache lookup made for a coherence agent, and a memory access   *)
(* of the bridge (whose requests one task serves in order), are part of    *)
(* the step that asks for them.                                            *)
(***************************************************************************)
EXTENDS Naturals, Sequences, FiniteSets, SequencesExt

CONSTANTS
  Host,          \* the host's cache controller
  NumDevices,    \* set_cache_coh_dev_count: Type 1 devices below the bridge
  Addrs,         \* the cache line addresses that map to the modelled set
  Values,        \* contents of a line
  InitVal,       \* what memory, blocks and data-less packets hold at first
  HostWays,      \* cache_num_assoc of the host's cache
  DeviceWays,    \* cache_num_assoc of a device's cache
  Loads,         \* per agent, the addresses its processor reads
  Stores,        \* per agent, the addresses its processor writes
  None           \* Python's None

Devices == 0 .. (NumDevices - 1)
Agents  == {Host} \cup Devices
Ways    == [a \in Agents |-> IF a = Host THEN HostWays ELSE DeviceWays]

ASSUME CxlCacheAssumption ==
  /\ NumDevices \in Nat
  /\ Host \notin Devices
  /\ InitVal \in Values
  /\ HostWays \in Nat /\ DeviceWays \in Nat
  /\ Loads \in [Agents -> SUBSET Addrs]
  /\ Stores \in [Agents -> SUBSET Addrs]

VARIABLES
  cache,    \* per agent, CacheController._cache: the block of each address
  proc,     \* per agent, the suspended load or store of its processor
  request,  \* per agent, the request queue of cache_to_coh_{agent,bridge}_fifo
  dcoh,     \* per device, CxlCacheDcoh._cur_state: state and packet
  up,       \* per device, its D2H packets that the bridge has not yet read
  down,     \* per device, the H2D packets its DCOH has not yet consumed
  d2hReq, d2hRsp, d2hData,   \* CacheCoherencyBridge._cxl_channel
  bridge,   \* CacheCoherencyBridge._cur_state, and the main loop's _fc_host_run
  sf,       \* per device, the snoop filter _sf_device[cache_id]
  mem,      \* host memory
  latest    \* history: the value of the last store that took effect

INSTANCE CacheController

----------------------------------------------------------------------------
(* Packets exchanged about lines.                                          *)

\* The opcode of the D2H request a DCOH makes of a controller's request.
D2HOpcode == [WRITE_BACK       |-> "DIRTY_EVICT",
              WRITE_BACK_CLEAN |-> "CLEAN_EVICT_NO_DATA",
              SNP_DATA         |-> "RD_SHARED",
              SNP_INV          |-> "RD_OWN_NO_DATA"]
D2HReqOpcode == {"DIRTY_EVICT", "CLEAN_EVICT_NO_DATA", "RD_SHARED", "RD_OWN_NO_DATA"}
D2HRspOpcode == {"RSP_I_HIT_I", "RSP_I_HIT_SE", "RSP_S_HIT_SE", "RSP_S_FWD_M"}

D2HReq  == [ch : {"req"},  dev : Devices, opcode : D2HReqOpcode, addr : Addrs]
D2HRsp  == [ch : {"rsp"},  opcode : D2HRspOpcode]
D2HData == [ch : {"data"}, data : Values]

\* A GO of state SHARED and the data packet put right behind it on the same
\* FIFO are one message: the DCOH waits for the second once it has the first.
H2DReq == [ch : {"req"}, opcode : {"SNP_DATA", "SNP_INV"}, addr : Addrs]
H2DRsp == [ch : {"rsp"}, opcode : {"GO_E", "GO_I", "GO_S", "GO_WRITE_PULL"}, data : Values]

CohState == {"INIT", "START", "WAIT", "DONE"}

controllers == <<cache, proc, request, latest>>
links       == <<up, down>>
channels    == <<d2hReq, d2hRsp, d2hData>>
protocol    == <<dcoh, links, channels, bridge, sf, mem>>
vars        == <<controllers, protocol>>

BridgeIdle(fcHost) ==
  [state |-> "INIT", src |-> None, type |-> None, addr |-> None, data |-> InitVal,
   rsp |-> "RSP_I", list |-> {}, fcHost |-> fcHost]

Init ==
  /\ ControllersInit
  /\ dcoh = [d \in Devices |-> [state |-> "INIT", packet |-> None]]
  /\ up = [d \in Devices |-> <<>>]
  /\ down = [d \in Devices |-> <<>>]
  /\ d2hReq = <<>> /\ d2hRsp = <<>> /\ d2hData = <<>>
  /\ bridge = BridgeIdle(FALSE)
  /\ sf = [d \in Devices |-> {}]
  /\ mem = [x \in Addrs |-> InitVal]

----------------------------------------------------------------------------
(* CacheCoherencyBridge: the main loop takes host and device requests in   *)
(* turn and carries each to its end before the next.                       *)

\* _process_downstream_target_to_host_packets
BridgeReceive(d) ==
  /\ up[d] # <<>>
  /\ LET packet == Head(up[d]) IN
       /\ d2hReq'  = IF packet.ch = "req"  THEN Append(d2hReq, packet)  ELSE d2hReq
       /\ d2hRsp'  = IF packet.ch = "rsp"  THEN Append(d2hRsp, packet)  ELSE d2hRsp
       /\ d2hData' = IF packet.ch = "data" THEN Append(d2hData, packet) ELSE d2hData
  /\ up' = [up EXCEPT ![d] = Tail(@)]
  /\ UNCHANGED <<controllers, dcoh, down, bridge, sf, mem>>

BridgeTakeHost ==
  /\ bridge.state = "INIT"
  /\ request[Host] # <<>>
  /\ bridge.fcHost => d2hReq = <<>>
  /\ LET r == Head(request[Host]) IN
       bridge' = [bridge EXCEPT !.state = "START", !.src = Host, !.type = r.type,
                                !.addr = r.addr, !.data = r.data, !.fcHost = TRUE]
  /\ request' = [request EXCEPT ![Host] = Tail(@)]
  /\ UNCHANGED <<cache, proc, latest, dcoh, links, channels, sf, mem>>

BridgeTakeDevice ==
  /\ bridge.state = "INIT"
  /\ d2hReq # <<>>
  /\ ~bridge.fcHost => request[Host] = <<>>
  /\ LET r == Head(d2hReq) IN
       bridge' = [bridge EXCEPT !.state = "START", !.src = r.dev, !.type = r.opcode,
                                !.addr = r.addr, !.fcHost = FALSE]
  /\ d2hReq' = Tail(d2hReq)
  /\ UNCHANGED <<controllers, dcoh, links, d2hRsp, d2hData, sf, mem>>

\* _snoop_filter_find_cache_list
Sharers(x, src) == {d \in Devices \ {src} : x \in sf[d]}

\* The bridge asks the devices of the list and waits for them.
BridgeSnoop(opcode, list, rsp) ==
  /\ down' = [d \in Devices |->
                IF d \in list
                  THEN Append(down[d], [ch |-> "req", opcode |-> opcode, addr |-> bridge.addr])
                  ELSE down[d]]
  /\ bridge' = [bridge EXCEPT !.state = "WAIT", !.list = list, !.rsp = rsp]

FinishBridge == bridge' = BridgeIdle(bridge.fcHost)

\* _process_upstream_host_to_target_packets, state START: WRITE_BACK(_CLEAN)
HostWriteBack ==
  /\ bridge.state = "START" /\ bridge.type \in {"WRITE_BACK", "WRITE_BACK_CLEAN"}
  /\ mem' = IF bridge.type = "WRITE_BACK"
              THEN [mem EXCEPT ![bridge.addr] = bridge.data] ELSE mem
  /\ Respond(Host, "OK", InitVal)
  /\ FinishBridge
  /\ UNCHANGED <<dcoh, links, channels, sf>>

\* ... SNP_DATA and SNP_INV of a line no device holds, and SNP_DATA of a line
\* two devices or more hold: memory is current.
HostFromMemory ==
  /\ bridge.state = "START" /\ bridge.type \in {"SNP_DATA", "SNP_INV"}
  /\ LET list == Sharers(bridge.addr, Host) IN
       \/ list = {}
       \/ bridge.type = "SNP_DATA" /\ Cardinality(list) > 1
  /\ Respond(Host, IF bridge.type = "SNP_INV" THEN "RSP_I" ELSE "RSP_S", mem[bridge.addr])
  /\ FinishBridge
  /\ UNCHANGED <<dcoh, links, channels, sf, mem>>

\* ... SNP_INV of a line devices hold, SNP_DATA of a line one device holds.
HostSnoopDevices ==
  /\ bridge.state = "START" /\ bridge.type \in {"SNP_DATA", "SNP_INV"}
  /\ LET list == Sharers(bridge.addr, Host) IN
       /\ list # {}
       /\ bridge.type = "SNP_DATA" => Cardinality(list) = 1
       /\ BridgeSnoop(bridge.type, list, IF bridge.type = "SNP_DATA" THEN "OK" ELSE bridge.rsp)
  /\ UNCHANGED <<controllers, dcoh, up, channels, sf, mem>>

\* ... state DONE: the devices have answered.
HostDone ==
  /\ bridge.state = "DONE" /\ bridge.src = Host
  /\ \/ /\ bridge.rsp \in {"RSP_I", "RSP_S"}
        /\ Respond(Host, bridge.rsp, mem[bridge.addr])
        /\ UNCHANGED d2hData
     \/ /\ bridge.rsp = "RSP_M" /\ d2hData # <<>>
        /\ Respond(Host, "RSP_M", Head(d2hData).data)
        /\ d2hData' = Tail(d2hData)
  /\ FinishBridge
  /\ UNCHANGED <<dcoh, links, d2hReq, d2hRsp, sf, mem>>

\* (Mutant: a copy kept shared leaves the answer as it was.)
AnswerAfterNoShared(opcode, old) ==
  CASE opcode \in {"RSP_I_HIT_I", "RSP_I_HIT_SE"} -> "RSP_I"
    [] opcode = "RSP_S_HIT_SE" -> old
    [] opcode = "RSP_S_FWD_M" -> "RSP_M"

\* What a device's answer to a snoop makes of the bridge's own answer.
AnswerAfter(opcode, old) ==
  CASE opcode \in {"RSP_I_HIT_I", "RSP_I_HIT_SE"} -> "RSP_I"
    [] opcode = "RSP_S_HIT_SE" -> "RSP_S"
    [] opcode = "RSP_S_FWD_M" -> "RSP_M"

\* _process_cxl_d2h_rsp_packet.  The id popped is the last of the list,
\* whichever device has answered.
BridgeResponse ==
  /\ bridge.state = "WAIT"
  /\ d2hRsp # <<>>
  /\ LET opcode == Head(d2hRsp).opcode IN
     \E last \in bridge.list :
       /\ \A d \in bridge.list : d <= last
       /\ LET left == bridge.list \ {last}
              inv  == opcode \in {"RSP_I_HIT_I", "RSP_I_HIT_SE"} IN
            /\ bridge' =
                 [bridge EXCEPT
                    !.list = left,
                    !.rsp = AnswerAfter(opcode, @),
                    !.state = IF left = {} \/ opcode = "RSP_S_FWD_M" THEN "DONE" ELSE "WAIT"]
            /\ sf' = IF inv THEN [sf EXCEPT ![last] = @ \ {bridge.addr}] ELSE sf
  /\ d2hRsp' = Tail(d2hRsp)
  /\ UNCHANGED <<controllers, dcoh, links, d2hReq, d2hData, mem>>

\* _sf_update_process with SF_DEVICE_IN.
\* (Mutant: the device is not entered in its snoop filter.)
EnterNone(d) == UNCHANGED sf
Enter(d) == sf' = [sf EXCEPT ![d] = @ \cup {bridge.addr}]

\* (Mutant: the host keeps its copy.)
KeepHost == UNCHANGED cache
InvalidateHost == Snoop(Host, "SNP_INV", bridge.addr)

\* _process_cxl_d2h_req_packet: RD_OWN_NO_DATA.  Once no other device holds
\* the line the host's copy is invalidated and the device gets the line.
GrantOwn(d) ==
  /\ InvalidateHost
  /\ down' = [down EXCEPT ![d] = Append(@, [ch |-> "rsp", opcode |-> "GO_E", data |-> InitVal])]
  /\ Enter(d)
  /\ FinishBridge
  /\ UNCHANGED <<proc, request, latest, dcoh, up, channels, mem>>

DeviceOwn ==
  /\ bridge.type = "RD_OWN_NO_DATA"
  /\ LET list == Sharers(bridge.addr, bridge.src) IN
       \/ /\ bridge.state = "START" /\ list # {}
          /\ BridgeSnoop("SNP_INV", list, bridge.rsp)
          /\ UNCHANGED <<controllers, dcoh, up, channels, sf, mem>>
       \/ /\ bridge.state = "START" /\ list = {}
          /\ GrantOwn(bridge.src)
       \/ /\ bridge.state = "DONE"
          /\ GrantOwn(bridge.src)

\* RD_SHARED: the data come from the one other device that holds the line if
\* it had modified it, else from the host's cache, else from memory.
GrantShared(d, data) ==
  /\ down' = [down EXCEPT ![d] = Append(@, [ch |-> "rsp", opcode |-> "GO_S", data |-> data])]
  /\ Enter(d)
  /\ FinishBridge
  /\ UNCHANGED <<proc, request, latest, dcoh, up, d2hReq, d2hRsp, mem>>

HostData(x) == IF Valid(Host, x) THEN cache[Host][x].data ELSE mem[x]

GrantFromHost(d) ==
  /\ Snoop(Host, "SNP_DATA", bridge.addr)
  /\ GrantShared(d, HostData(bridge.addr))
  /\ UNCHANGED d2hData

DeviceRead ==
  /\ bridge.type = "RD_SHARED"
  /\ LET list == Sharers(bridge.addr, bridge.src) IN
       \/ /\ bridge.state = "START" /\ Cardinality(list) = 1
          /\ BridgeSnoop("SNP_DATA", list, "OK")
          /\ UNCHANGED <<controllers, dcoh, up, channels, sf, mem>>
       \/ /\ bridge.state = "START" /\ Cardinality(list) # 1
          /\ GrantFromHost(bridge.src)
       \/ /\ bridge.state = "DONE" /\ bridge.rsp # "RSP_M"
          /\ GrantFromHost(bridge.src)
       \/ /\ bridge.state = "DONE" /\ bridge.rsp = "RSP_M" /\ d2hData # <<>>
          /\ GrantShared(bridge.src, Head(d2hData).data)
          /\ d2hData' = Tail(d2hData)
          /\ UNCHANGED cache

\* CLEAN_EVICT_NO_DATA and DIRTY_EVICT: a GO, then in the next turn (for the
\* second, once the data are in) the line leaves the snoop filter.
DeviceEvict ==
  /\ bridge.type \in {"CLEAN_EVICT_NO_DATA", "DIRTY_EVICT"}
  /\ \/ /\ bridge.state = "START"
        /\ down' = [down EXCEPT ![bridge.src] =
                      Append(@, [ch |-> "rsp", data |-> InitVal, opcode |->
                                 IF bridge.type = "DIRTY_EVICT" THEN "GO_WRITE_PULL" ELSE "GO_I"])]
        /\ bridge' = [bridge EXCEPT !.state = "DONE"]
        /\ UNCHANGED <<d2hData, sf, mem>>
     \/ /\ bridge.state = "DONE"
        /\ \/ bridge.type = "CLEAN_EVICT_NO_DATA" /\ UNCHANGED <<d2hData, mem>>
           \/ /\ bridge.type = "DIRTY_EVICT" /\ d2hData # <<>>
              /\ mem' = [mem EXCEPT ![bridge.addr] = Head(d2hData).data]
              /\ d2hData' = Tail(d2hData)
        /\ sf' = [sf EXCEPT ![bridge.src] = @ \ {bridge.addr}]
        /\ FinishBridge
        /\ UNCHANGED down
  /\ UNCHANGED <<controllers, dcoh, up, d2hReq, d2hRsp>>

\* _cache_coherency_bridege_main_loop
BridgeStep == \/ BridgeTakeHost \/ BridgeTakeDevice \/ BridgeResponse
              \/ HostWriteBack \/ HostFromMemory \/ HostSnoopDevices \/ HostDone
              \/ DeviceOwn \/ DeviceRead \/ DeviceEvict

----------------------------------------------------------------------------
(* CxlCacheDcoh.  Its link is a FIFO that the receiving task splits into   *)
(* one queue per channel: the loop can consume any packet that is the      *)
(* first of its channel, a response before a snoop.                        *)

FirstOf(q, i, ch) == q[i].ch = ch /\ \A j \in 1 .. (i - 1) : q[j].ch # ch

\* The loop fetches a request of the cache when it has none.
DcohTake(d) ==
  /\ dcoh[d].state = "INIT"
  /\ request[d] # <<>>
  /\ dcoh' = [dcoh EXCEPT ![d] = [state |-> "START", packet |-> Head(request[d])]]
  /\ request' = [request EXCEPT ![d] = Tail(@)]
  /\ UNCHANGED <<cache, proc, latest, links, channels, bridge, sf, mem>>

\* _process_cache_to_dcoh
DcohSend(d) ==
  /\ dcoh[d].state = "START"
  /\ up' = [up EXCEPT ![d] =
              Append(@, [ch |-> "req", dev |-> d, opcode |-> D2HOpcode[dcoh[d].packet.type],
                         addr |-> dcoh[d].packet.addr])]
  /\ dcoh' = [dcoh EXCEPT ![d].state = "WAIT"]
  /\ UNCHANGED <<controllers, down, channels, bridge, sf, mem>>

\* (Mutant: the answered request stays the current one.)
FinishDcohNot(d) == UNCHANGED dcoh
FinishDcoh(d) == dcoh' = [dcoh EXCEPT ![d] = [state |-> "INIT", packet |-> None]]

\* _process_cxl_h2d_rsp_packet
DcohResponse(d) ==
  /\ dcoh[d].state = "WAIT"
  /\ \E i \in DOMAIN down[d] : LET packet == down[d][i] IN
       /\ FirstOf(down[d], i, "rsp")
       /\ down' = [down EXCEPT ![d] = RemoveAt(@, i)]
       /\ \/ /\ packet.opcode \in {"GO_E", "GO_I"}
             /\ Respond(d, "RSP_I", InitVal)
             /\ UNCHANGED up
          \/ /\ packet.opcode = "GO_S"
             /\ Respond(d, "RSP_S", packet.data)
             /\ UNCHANGED up
          \/ /\ packet.opcode = "GO_WRITE_PULL"
             /\ up' = [up EXCEPT ![d] = Append(@, [ch |-> "data", data |-> dcoh[d].packet.data])]
             /\ Respond(d, "OK", InitVal)
  /\ FinishDcoh(d)
  /\ UNCHANGED <<channels, bridge, sf, mem>>

\* _process_cxl_h2d_req_packet
\* (Mutant: the controller's status is sent as the opcode.)
SnoopOpcodeUntranslated(status) == status
SnoopOpcode(status) ==
  CASE status = "RSP_MISS" -> "RSP_I_HIT_I"
    [] status = "RSP_I" -> "RSP_I_HIT_SE"
    [] status \in {"RSP_E", "RSP_S"} -> "RSP_S_HIT_SE"
    [] status = "RSP_M" -> "RSP_S_FWD_M"

SnoopReply(opcode, data) ==
  <<[ch |-> "rsp", opcode |-> opcode]>> \o
  (IF opcode = "RSP_S_FWD_M" THEN <<[ch |-> "data", data |-> data]>> ELSE <<>>)

AnswerSnoop(d, opcode, x) ==
  LET block  == cache[d][x]
      status == SnoopStatus(opcode, block.state) IN
    /\ Snoop(d, opcode, x)
    /\ up' = [up EXCEPT ![d] = @ \o SnoopReply(SnoopOpcode(status), block.data)]

\* The device's own request concerns the line the host snoops.
SameLine(d, x) == dcoh[d].state # "INIT" /\ dcoh[d].packet.addr = x

\* The loop's last part runs whatever the state of its own request.
\* (Mutant: only when it has none.)
ServesSnoopsIdle(d) == dcoh[d].state = "INIT"
ServesSnoops(d) == dcoh[d].state # "FAILED"

\* A host snoop for the line of the device's own request must find that
\* request a write-back (the loop dies of an AssertionError otherwise), and an
\* invalidation is then answered without a look at the cache.
DcohSnoop(d) ==
  /\ ServesSnoops(d)
  /\ down[d] # <<>> /\ Head(down[d]).ch = "req"
  /\ LET packet == Head(down[d])
         writingBack == dcoh[d].packet.type \in {"WRITE_BACK", "WRITE_BACK_CLEAN"} IN
       /\ down' = [down EXCEPT ![d] = Tail(@)]
       /\ \/ /\ SameLine(d, packet.addr) /\ ~writingBack
             /\ dcoh' = [dcoh EXCEPT ![d].state = "FAILED"]
             /\ UNCHANGED <<cache, up>>
          \/ /\ SameLine(d, packet.addr) /\ writingBack /\ packet.opcode = "SNP_INV"
             /\ up' = [up EXCEPT ![d] = Append(@, [ch |-> "rsp", opcode |-> "RSP_I_HIT_I"])]
             /\ UNCHANGED <<cache, dcoh>>
          \/ /\ SameLine(d, packet.addr) => writingBack /\ packet.opcode = "SNP_DATA"
             /\ AnswerSnoop(d, packet.opcode, packet.addr)
             /\ UNCHANGED dcoh
  /\ UNCHANGED <<proc, request, latest, channels, bridge, sf, mem>>

\* _cxl_cache_dcoh_main_loop
DcohStep(d) == DcohTake(d) \/ DcohSend(d) \/ DcohResponse(d) \/ DcohSnoop(d)

----------------------------------------------------------------------------

Next ==
  \/ \E a \in Agents, x \in Addrs : Load(a, x) /\ UNCHANGED protocol
  \/ \E a \in Agents, x \in Addrs, v \in Values : Store(a, x, v) /\ UNCHANGED protocol
  \/ \E d \in Devices : BridgeReceive(d)
  \/ BridgeStep
  \/ \E d \in Devices : DcohStep(d)

\* Every loop is a task of the event loop that yields with sleep(0) and polls
\* again: none that can go on is passed over for ever.
Fairness == /\ WF_vars(BridgeStep)
            /\ \A d \in Devices : WF_vars(BridgeReceive(d)) /\ WF_vars(DcohStep(d))

Spec == Init /\ [][Next]_vars /\ Fairness

----------------------------------------------------------------------------
(* Properties.                                                             *)

(* Every variable holds what the code can hold in it.                      *)
TypeOK ==
  /\ ControllersTypeOK
  /\ dcoh \in [Devices -> [state : {"INIT", "START", "WAIT", "FAILED"},
                           packet : CacheRequest \cup {None}]]
  /\ up \in [Devices -> Seq(D2HReq \cup D2HRsp \cup D2HData)]
  /\ down \in [Devices -> Seq(H2DReq \cup H2DRsp)]
  /\ d2hReq \in Seq(D2HReq) /\ d2hRsp \in Seq(D2HRsp) /\ d2hData \in Seq(D2HData)
  /\ bridge \in [state : CohState, src : Agents \cup {None},
                 type : RequestType \cup D2HReqOpcode \cup {None},
                 addr : Addrs \cup {None}, data : Values, rsp : ResponseStatus,
                 list : SUBSET Devices, fcHost : BOOLEAN]
  /\ sf \in [Devices -> SUBSET Addrs]
  /\ mem \in [Addrs -> Values]
  /\ \A d \in Devices : dcoh[d].state # "INIT" => dcoh[d].packet \in CacheRequest
  /\ bridge.state # "INIT" =>
       /\ bridge.addr \in Addrs
       /\ \/ bridge.src = Host /\ bridge.type \in RequestType
          \/ bridge.src \in Devices /\ bridge.type \in D2HReqOpcode

\* The request of agent a that its coherence agent is working on.
Served(a) ==
  IF a = Host THEN bridge.state # "INIT" /\ bridge.src = Host ELSE dcoh[a].state # "INIT"
ServedRequest(a) == IF a = Host THEN bridge ELSE dcoh[a].packet

\* The suspended load or store of a waits for the answer to r.
Awaits(a, r) ==
  \/ proc[a].pc = "flush" /\ r.addr = proc[a].victim
                          /\ r.type \in {"WRITE_BACK", "WRITE_BACK_CLEAN"}
  \/ proc[a].pc = "fill"  /\ r.addr = proc[a].addr /\ r.type = "SNP_DATA"
  \/ proc[a].pc = "own"   /\ r.addr = proc[a].addr /\ r.type = "SNP_INV"

\* Agent a is idle with nothing asked, or its one request is queued, or served.
Paired(a) ==
  \/ proc[a] = Idle /\ request[a] = <<>> /\ ~Served(a)
  \/ Len(request[a]) = 1 /\ ~Served(a) /\ Awaits(a, request[a][1])
  \/ request[a] = <<>> /\ Served(a) /\ Awaits(a, ServedRequest(a))

(* Responses carry no tag: a controller takes the next one of its queue for *)
(* the answer to its request.  It is, for there is exactly one request of a *)
(* suspended load or store, either still queued or being served, and none   *)
(* otherwise (CacheController, CacheFifoPair).                              *)
RequestsPaired == \A a \in Agents : Paired(a)

(* A line a device holds is in the device's snoop filter, except while the *)
(* bridge is half-way through a request for that line: a line missing from *)
(* it would never be snooped again (CacheCoherencyBridge._sf_device).      *)
SnoopFilterInclusive ==
  \A d \in Devices, x \in Addrs :
    Live(d, x) /\ ~(bridge.state \in {"WAIT", "DONE"} /\ bridge.addr = x) => x \in sf[d]

(* While a device holds a modified line no other cache holds it.           *)
DeviceOwnsAlone ==
  \A d \in Devices, x \in Addrs :
    Live(d, x) /\ cache[d][x].state = "M" => \A a \in Agents \ {d} : ~Live(a, x)

(* The caches with their protocol implement one coherent memory: a copy a  *)
(* cache may use is what was last stored to the line, and a store takes    *)
(* effect when no other cache has a copy it may use.                       *)
Abstract == INSTANCE CoherentMemory WITH
  store <- latest,
  copy <- [a \in Agents |-> [x \in Addrs |->
             IF Live(a, x) THEN cache[a][x].data ELSE None]]
CoherentMemory == Abstract!Spec

(* A block flushed as clean holds what memory holds: the bridge drops the  *)
(* data of a WRITE_BACK_CLEAN.                                             *)
CleanMeansMemoryCurrent ==
  bridge.state = "START" /\ bridge.type = "WRITE_BACK_CLEAN" => bridge.data = mem[bridge.addr]

(* No DCOH dies: its main loop asserts that a host snoop that meets the    *)
(* device's own request for the same line meets a write-back.              *)
DcohAlive == \A d \in Devices : dcoh[d].state # "FAILED"

(* The bridge never reaches its "Unsupported for now" assert 0, and an     *)
(* invalidation is only ever answered RSP_I, as the store that asked for   *)
(* it asserts.                                                             *)
AnswersSupported ==
  bridge.state = "DONE" /\ bridge.src = Host =>
    /\ bridge.rsp \in {"RSP_I", "RSP_S", "RSP_M"}
    /\ bridge.type = "SNP_INV" => bridge.rsp = "RSP_I"

(* A load or store that misses completes, unless a DCOH has died.          *)
Completes ==
  \A a \in Agents :
    proc[a].pc # "idle" ~> (proc[a].pc = "idle" \/ \E d \in Devices : dcoh[d].state = "FAILED")

=============================================================================
