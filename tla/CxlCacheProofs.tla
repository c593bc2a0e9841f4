--------------------------- MODULE CxlCacheProofs ---------------------------
(***************************************************************************)
(* Proofs about CxlCache, for any number of devices, lines, values and     *)
(* ways.                                                                   *)
(***************************************************************************)
EXTENDS CxlCache, SequenceTheorems, TLAPS

USE CxlCacheAssumption

----------------------------------------------------------------------------
(* Types: what the operations of a controller and the helpers keep.        *)

LEMMA ConstantTypes ==
  /\ Invalid \in CacheBlock
  /\ Idle \notin Busy
  /\ Devices \subseteq Agents /\ Host \in Agents
  /\ \A s : WriteBackType(s) \in RequestType
  /\ \A s : FillState(s) \in CacheState
BY DEF Invalid, CacheBlock, CacheState, Idle, Busy, Agents, WriteBackType, RequestType, FillState

\* A request put by Ask, and the wait it starts, are well formed.
LEMMA AskType ==
  ASSUME ControllersTypeOK, NEW a \in Agents, NEW op \in {"load", "store"},
         NEW x \in Addrs, NEW v \in Values, Ask(a, op, x, v)
  PROVE  /\ proc' \in [Agents -> {Idle} \cup Busy]
         /\ request' \in [Agents -> Seq(CacheRequest)]
<1>1. Asking(op, x, v) \in Busy
  BY DEF Asking, Busy
<1>2. AskRequest(op, x) \in CacheRequest
  BY DEF AskRequest, CacheRequest, RequestType
<1>3. Append(request[a], AskRequest(op, x)) \in Seq(CacheRequest)
  BY <1>2, AppendProperties DEF ControllersTypeOK
<1> QED BY <1>1, <1>3 DEF Ask, ControllersTypeOK

LEMMA FlushType ==
  ASSUME ControllersTypeOK, NEW a \in Agents, NEW op \in {"load", "store"},
         NEW x \in Addrs, NEW v \in Values, Flush(a, op, x, v)
  PROVE  /\ proc' \in [Agents -> {Idle} \cup Busy]
         /\ request' \in [Agents -> Seq(CacheRequest)]
<1>1. PICK y \in Addrs :
        /\ proc' = [proc EXCEPT ![a] = [pc |-> "flush", op |-> op, addr |-> x,
                                        val |-> v, victim |-> y]]
        /\ request' = [request EXCEPT ![a] =
                         Append(@, [type |-> WriteBackType(cache[a][y].state),
                                    addr |-> y, data |-> cache[a][y].data])]
  BY DEF Flush
<1>2. [pc |-> "flush", op |-> op, addr |-> x, val |-> v, victim |-> y] \in Busy
  BY DEF Busy
<1>3. cache[a][y].data \in Values
  BY DEF ControllersTypeOK, CacheBlock
<1>4. [type |-> WriteBackType(cache[a][y].state), addr |-> y, data |-> cache[a][y].data]
        \in CacheRequest
  BY <1>3, ConstantTypes DEF CacheRequest
<1>5. Append(request[a], [type |-> WriteBackType(cache[a][y].state), addr |-> y,
                          data |-> cache[a][y].data]) \in Seq(CacheRequest)
  BY <1>4, AppendProperties DEF ControllersTypeOK
<1> QED BY <1>1, <1>2, <1>5 DEF ControllersTypeOK

LEMMA CommitType ==
  ASSUME ControllersTypeOK, NEW a \in Agents, NEW x \in Addrs, NEW v \in Values,
         Commit(a, x, v)
  PROVE  /\ cache' \in [Agents -> [Addrs -> CacheBlock]]
         /\ latest' \in [Addrs -> Values]
<1>1. [state |-> "M", data |-> v] \in CacheBlock
  BY DEF CacheBlock, CacheState
<1> QED BY <1>1 DEF Commit, ControllersTypeOK

LEMMA MissType ==
  ASSUME ControllersTypeOK, NEW a \in Agents, NEW op \in {"load", "store"},
         NEW x \in Addrs, NEW v \in Values, Miss(a, op, x, v)
  PROVE  ControllersTypeOK'
BY AskType, FlushType DEF Miss, ControllersTypeOK

LEMMA LoadType ==
  ASSUME ControllersTypeOK, NEW a \in Agents, NEW x \in Addrs, Load(a, x)
  PROVE  ControllersTypeOK'
BY MissType DEF Load

LEMMA StoreType ==
  ASSUME ControllersTypeOK, NEW a \in Agents, NEW x \in Addrs, NEW v \in Values,
         Store(a, x, v)
  PROVE  ControllersTypeOK'
BY MissType, CommitType, AskType DEF Store, ControllersTypeOK

LEMMA RespondType ==
  ASSUME ControllersTypeOK, NEW a \in Agents, NEW status, NEW data \in Values,
         Respond(a, status, data)
  PROVE  ControllersTypeOK'
<1>1. proc[a] \in Busy
  BY DEF Respond, ControllersTypeOK, Idle
<1>2. /\ proc[a].op \in {"load", "store"} /\ proc[a].addr \in Addrs
      /\ proc[a].val \in Values /\ proc[a].victim \in Addrs
  BY <1>1 DEF Busy
<1>3. CASE proc[a].pc = "flush"
  <2>1. /\ cache' = [cache EXCEPT ![a][proc[a].victim] = Invalid]
        /\ Ask(a, proc[a].op, proc[a].addr, proc[a].val)
        /\ latest' = latest
    BY <1>3 DEF Respond
  <2> QED BY <1>2, <2>1, AskType, ConstantTypes DEF ControllersTypeOK
<1>4. CASE proc[a].pc = "fill"
  <2>1. [state |-> FillState(status), data |-> data] \in CacheBlock
    BY ConstantTypes DEF CacheBlock
  <2>2. /\ cache' = [cache EXCEPT ![a][proc[a].addr] =
                       [state |-> FillState(status), data |-> data]]
        /\ proc' = [proc EXCEPT ![a] = Idle]
        /\ request' = request /\ latest' = latest
    BY <1>4 DEF Respond
  <2> QED BY <1>2, <2>1, <2>2 DEF ControllersTypeOK
<1>5. CASE proc[a].pc = "own"
  <2>1. Commit(a, proc[a].addr, proc[a].val) /\ proc' = [proc EXCEPT ![a] = Idle]
          /\ request' = request
    BY <1>5 DEF Respond
  <2> QED BY <1>2, <2>1, CommitType DEF ControllersTypeOK
<1> QED BY <1>3, <1>4, <1>5 DEF Respond

LEMMA SnoopType ==
  ASSUME ControllersTypeOK, NEW a \in Agents, NEW type, NEW x \in Addrs, Snoop(a, type, x)
  PROVE  cache' \in [Agents -> [Addrs -> CacheBlock]]
<1>1. cache[a][x] \in CacheBlock
  BY DEF ControllersTypeOK
<1>2. [state |-> "S", data |-> cache[a][x].data] \in CacheBlock
  BY <1>1 DEF CacheBlock, CacheState
<1> QED BY <1>2, ConstantTypes DEF Snoop, ControllersTypeOK

----------------------------------------------------------------------------
(* The type invariant.                                                     *)

\* The bridge answers a request of the host: types of everything it can touch.
LEMMA FinishType ==
  ASSUME TypeOK, FinishBridge
  PROVE  /\ bridge' \in [state : CohState, src : Agents \cup {None},
                         type : RequestType \cup D2HReqOpcode \cup {None},
                         addr : Addrs \cup {None}, data : Values, rsp : ResponseStatus,
                         list : SUBSET Devices, fcHost : BOOLEAN]
         /\ bridge'.state = "INIT"
BY DEF TypeOK, FinishBridge, BridgeIdle, CohState, ResponseStatus

LEMMA TypeInit == Init => TypeOK
<1> SUFFICES ASSUME Init PROVE TypeOK
  OBVIOUS
<1>1. ControllersTypeOK
  BY ConstantTypes DEF Init, ControllersInit, ControllersTypeOK
<1>2. bridge = BridgeIdle(FALSE)
  BY DEF Init
<1> QED BY <1>1, <1>2 DEF Init, TypeOK, BridgeIdle, CohState, ResponseStatus

LEMMA ReceiveType ==
  ASSUME TypeOK, NEW d \in Devices, BridgeReceive(d)
  PROVE  TypeOK'
<1>1. Head(up[d]) \in D2HReq \cup D2HRsp \cup D2HData /\ Tail(up[d]) \in Seq(D2HReq \cup D2HRsp \cup D2HData)
  BY HeadTailProperties DEF BridgeReceive, TypeOK
<1>2. up' \in [Devices -> Seq(D2HReq \cup D2HRsp \cup D2HData)]
  BY <1>1 DEF BridgeReceive, TypeOK
<1>3. d2hReq' \in Seq(D2HReq)
  <2>1. Head(up[d]).ch = "req" => Head(up[d]) \in D2HReq
    BY <1>1 DEF D2HReq, D2HRsp, D2HData
  <2> QED BY <2>1, AppendProperties DEF BridgeReceive, TypeOK
<1>4. d2hRsp' \in Seq(D2HRsp)
  <2>1. Head(up[d]).ch = "rsp" => Head(up[d]) \in D2HRsp
    BY <1>1 DEF D2HReq, D2HRsp, D2HData
  <2> QED BY <2>1, AppendProperties DEF BridgeReceive, TypeOK
<1>5. d2hData' \in Seq(D2HData)
  <2>1. Head(up[d]).ch = "data" => Head(up[d]) \in D2HData
    BY <1>1 DEF D2HReq, D2HRsp, D2HData
  <2> QED BY <2>1, AppendProperties DEF BridgeReceive, TypeOK
<1> QED BY <1>2, <1>3, <1>4, <1>5 DEF BridgeReceive, TypeOK, controllers, ControllersTypeOK

LEMMA TakeHostType ==
  ASSUME TypeOK, BridgeTakeHost
  PROVE  TypeOK'
<1>1. Head(request[Host]) \in CacheRequest /\ Tail(request[Host]) \in Seq(CacheRequest)
  BY HeadTailProperties, ConstantTypes DEF BridgeTakeHost, TypeOK, ControllersTypeOK
<1>2. ControllersTypeOK'
  BY <1>1 DEF BridgeTakeHost, TypeOK, ControllersTypeOK
<1>3. bridge' = [bridge EXCEPT !.state = "START", !.src = Host,
                   !.type = Head(request[Host]).type, !.addr = Head(request[Host]).addr,
                   !.data = Head(request[Host]).data, !.fcHost = TRUE]
  BY DEF BridgeTakeHost
<1> QED BY <1>1, <1>2, <1>3, ConstantTypes
        DEF BridgeTakeHost, TypeOK, links, channels, CacheRequest, CohState

LEMMA TakeDeviceType ==
  ASSUME TypeOK, BridgeTakeDevice
  PROVE  TypeOK'
<1>1. Head(d2hReq) \in D2HReq /\ Tail(d2hReq) \in Seq(D2HReq)
  BY HeadTailProperties DEF BridgeTakeDevice, TypeOK
<1>2. ControllersTypeOK'
  BY DEF BridgeTakeDevice, TypeOK, controllers, ControllersTypeOK
<1>3. bridge' = [bridge EXCEPT !.state = "START", !.src = Head(d2hReq).dev,
                   !.type = Head(d2hReq).opcode, !.addr = Head(d2hReq).addr,
                   !.fcHost = FALSE]
  BY DEF BridgeTakeDevice
<1> QED BY <1>1, <1>2, <1>3, ConstantTypes
        DEF BridgeTakeDevice, TypeOK, links, D2HReq, CohState

LEMMA SnoopDevicesType ==
  ASSUME TypeOK, NEW opcode \in {"SNP_DATA", "SNP_INV"}, NEW list \in SUBSET Devices,
         NEW rsp \in ResponseStatus, bridge.state # "INIT", BridgeSnoop(opcode, list, rsp),
         UNCHANGED <<controllers, dcoh, up, channels, sf, mem>>
  PROVE  TypeOK'
<1>1. ControllersTypeOK'
  BY DEF TypeOK, controllers, ControllersTypeOK
<1>2. [ch |-> "req", opcode |-> opcode, addr |-> bridge.addr] \in H2DReq \cup H2DRsp
  BY DEF TypeOK, H2DReq
<1>3. down' \in [Devices -> Seq(H2DReq \cup H2DRsp)]
  <2>1. ASSUME NEW d \in Devices
        PROVE  Append(down[d], [ch |-> "req", opcode |-> opcode, addr |-> bridge.addr])
                 \in Seq(H2DReq \cup H2DRsp)
    BY <1>2, AppendProperties DEF TypeOK
  <2> QED BY <2>1 DEF BridgeSnoop, TypeOK
<1>4. bridge' = [bridge EXCEPT !.state = "WAIT", !.list = list, !.rsp = rsp]
  BY DEF BridgeSnoop
<1> QED BY <1>1, <1>3, <1>4 DEF TypeOK, channels, CohState

\* A grant or another GO to the device whose request is served.
LEMMA GoType ==
  ASSUME TypeOK, NEW d, NEW opcode \in {"GO_E", "GO_I", "GO_S", "GO_WRITE_PULL"},
         NEW data \in Values,
         down' = [down EXCEPT ![d] =
                    Append(@, [ch |-> "rsp", opcode |-> opcode, data |-> data])]
  PROVE  down' \in [Devices -> Seq(H2DReq \cup H2DRsp)]
<1>1. [ch |-> "rsp", opcode |-> opcode, data |-> data] \in H2DReq \cup H2DRsp
  BY DEF H2DRsp
<1>2. d \in Devices => Append(down[d], [ch |-> "rsp", opcode |-> opcode, data |-> data])
                         \in Seq(H2DReq \cup H2DRsp)
  BY <1>1, AppendProperties DEF TypeOK
<1> QED BY <1>2 DEF TypeOK

LEMMA HostStepType ==
  ASSUME TypeOK, HostWriteBack \/ HostFromMemory \/ HostSnoopDevices \/ HostDone
  PROVE  TypeOK'
<1>1. CASE HostWriteBack
  <2>1. Respond(Host, "OK", InitVal) /\ FinishBridge
    BY <1>1 DEF HostWriteBack
  <2>2. ControllersTypeOK'
    BY <2>1, RespondType, ConstantTypes DEF TypeOK
  <2>3. mem' \in [Addrs -> Values]
    BY <1>1 DEF HostWriteBack, TypeOK
  <2> QED BY <1>1, <2>1, <2>2, <2>3, FinishType DEF HostWriteBack, TypeOK, links, channels
<1>2. CASE HostFromMemory
  <2>1. mem[bridge.addr] \in Values
    BY <1>2 DEF HostFromMemory, TypeOK
  <2>2. /\ Respond(Host, IF bridge.type = "SNP_INV" THEN "RSP_I" ELSE "RSP_S",
                   mem[bridge.addr])
        /\ FinishBridge
    BY <1>2 DEF HostFromMemory
  <2>3. ControllersTypeOK'
    BY <2>1, <2>2, RespondType, ConstantTypes DEF TypeOK
  <2> QED BY <1>2, <2>2, <2>3, FinishType DEF HostFromMemory, TypeOK, links, channels
<1>3. CASE HostSnoopDevices
  <2>1. Sharers(bridge.addr, Host) \in SUBSET Devices
    BY DEF Sharers
  <2>2. (IF bridge.type = "SNP_DATA" THEN "OK" ELSE bridge.rsp) \in ResponseStatus
    BY DEF TypeOK, ResponseStatus
  <2> QED BY <1>3, <2>1, <2>2, SnoopDevicesType DEF HostSnoopDevices
<1>4. CASE HostDone
  <2>1. FinishBridge
    BY <1>4 DEF HostDone
  <2>2. /\ ControllersTypeOK'
        /\ d2hData' \in Seq(D2HData)
    <3>1. CASE /\ bridge.rsp \in {"RSP_I", "RSP_S"}
               /\ Respond(Host, bridge.rsp, mem[bridge.addr])
               /\ UNCHANGED d2hData
      <4>1. mem[bridge.addr] \in Values
        BY <1>4 DEF HostDone, TypeOK
      <4> QED BY <3>1, <4>1, RespondType, ConstantTypes DEF TypeOK
    <3>2. CASE /\ bridge.rsp = "RSP_M" /\ d2hData # <<>>
               /\ Respond(Host, "RSP_M", Head(d2hData).data)
               /\ d2hData' = Tail(d2hData)
      <4>1. Head(d2hData) \in D2HData /\ d2hData' \in Seq(D2HData)
        BY <3>2, HeadTailProperties DEF TypeOK
      <4>2. Head(d2hData).data \in Values
        BY <4>1 DEF D2HData
      <4> QED BY <3>2, <4>1, <4>2, RespondType, ConstantTypes DEF TypeOK
    <3> QED BY <1>4, <3>1, <3>2 DEF HostDone
  <2> QED BY <1>4, <2>1, <2>2, FinishType DEF HostDone, TypeOK, links
<1> QED BY <1>1, <1>2, <1>3, <1>4

LEMMA ResponseType ==
  ASSUME TypeOK, BridgeResponse
  PROVE  TypeOK'
<1>1. Head(d2hRsp) \in D2HRsp /\ d2hRsp' \in Seq(D2HRsp)
  BY HeadTailProperties DEF BridgeResponse, TypeOK
<1>2. ControllersTypeOK'
  BY DEF BridgeResponse, TypeOK, controllers, ControllersTypeOK
<1>3. AnswerAfter(Head(d2hRsp).opcode, bridge.rsp) \in {"RSP_I", "RSP_S", "RSP_M"}
  BY <1>1 DEF D2HRsp, D2HRspOpcode, AnswerAfter
<1>4. PICK last \in bridge.list :
        /\ bridge' = [bridge EXCEPT
                        !.list = bridge.list \ {last},
                        !.rsp = AnswerAfter(Head(d2hRsp).opcode, @),
                        !.state = IF \/ bridge.list \ {last} = {}
                                     \/ Head(d2hRsp).opcode = "RSP_S_FWD_M"
                                    THEN "DONE" ELSE "WAIT"]
        /\ \/ sf' = [sf EXCEPT ![last] = @ \ {bridge.addr}]
           \/ sf' = sf
  BY DEF BridgeResponse
<1>5. sf' \in [Devices -> SUBSET Addrs]
  <2>1. last \in Devices /\ sf[last] \ {bridge.addr} \in SUBSET Addrs
    BY DEF TypeOK
  <2> QED BY <1>4, <2>1 DEF TypeOK
<1>6. PICK l \in SUBSET Devices, rsp \in ResponseStatus, state \in {"WAIT", "DONE"} :
        bridge' = [bridge EXCEPT !.list = l, !.rsp = rsp, !.state = state]
  <2>1. bridge.list \ {last} \in SUBSET Devices
    BY DEF TypeOK
  <2>2. AnswerAfter(Head(d2hRsp).opcode, bridge.rsp) \in ResponseStatus
    BY <1>3 DEF ResponseStatus
  <2> QED BY <1>4, <2>1, <2>2
<1>7. bridge.state # "INIT"
  BY DEF BridgeResponse
<1> QED BY <1>1, <1>2, <1>5, <1>6, <1>7 DEF BridgeResponse, TypeOK, links, CohState

LEMMA EnterType ==
  ASSUME TypeOK, NEW d, bridge.state # "INIT", Enter(d)
  PROVE  sf' \in [Devices -> SUBSET Addrs]
BY DEF Enter, TypeOK

LEMMA GrantOwnType ==
  ASSUME TypeOK, bridge.state # "INIT", NEW d, GrantOwn(d)
  PROVE  TypeOK'
<1>1. down' \in [Devices -> Seq(H2DReq \cup H2DRsp)]
  BY GoType DEF GrantOwn
<1>2. cache' \in [Agents -> [Addrs -> CacheBlock]]
  BY SnoopType, ConstantTypes DEF GrantOwn, InvalidateHost, TypeOK
<1>3. ControllersTypeOK'
  BY <1>2 DEF GrantOwn, TypeOK, ControllersTypeOK
<1> QED BY <1>1, <1>3, FinishType, EnterType DEF GrantOwn, TypeOK, channels

LEMMA GrantSharedType ==
  ASSUME TypeOK, bridge.state # "INIT", NEW d, NEW data \in Values, GrantShared(d, data),
         cache' \in [Agents -> [Addrs -> CacheBlock]], d2hData' \in Seq(D2HData)
  PROVE  TypeOK'
<1>1. down' \in [Devices -> Seq(H2DReq \cup H2DRsp)]
  BY GoType DEF GrantShared
<1>2. ControllersTypeOK'
  BY DEF GrantShared, TypeOK, ControllersTypeOK
<1> QED BY <1>1, <1>2, FinishType, EnterType DEF GrantShared, TypeOK

LEMMA GrantFromHostType ==
  ASSUME TypeOK, bridge.state # "INIT", NEW d, GrantFromHost(d)
  PROVE  TypeOK'
<1>1. HostData(bridge.addr) \in Values
  BY ConstantTypes DEF HostData, TypeOK, ControllersTypeOK, CacheBlock
<1>2. cache' \in [Agents -> [Addrs -> CacheBlock]]
  BY SnoopType, ConstantTypes DEF GrantFromHost, TypeOK
<1>3. d2hData' \in Seq(D2HData)
  BY DEF GrantFromHost, TypeOK
<1> QED BY <1>1, <1>2, <1>3, GrantSharedType DEF GrantFromHost

LEMMA DeviceStepType ==
  ASSUME TypeOK, DeviceOwn \/ DeviceRead \/ DeviceEvict
  PROVE  TypeOK'
<1> DEFINE list == Sharers(bridge.addr, bridge.src)
<1>0. list \in SUBSET Devices
  BY DEF Sharers
<1>1. CASE DeviceOwn
  <2>1. CASE /\ bridge.state = "START" /\ BridgeSnoop("SNP_INV", list, bridge.rsp)
             /\ UNCHANGED <<controllers, dcoh, up, channels, sf, mem>>
    <3>1. bridge.rsp \in ResponseStatus
      BY DEF TypeOK
    <3> QED BY <1>0, <2>1, <3>1, SnoopDevicesType
  <2>2. CASE bridge.state # "INIT" /\ GrantOwn(bridge.src)
    BY <2>2, GrantOwnType
  <2> QED BY <1>1, <2>1, <2>2 DEF DeviceOwn
<1>2. CASE DeviceRead
  <2>1. CASE /\ bridge.state = "START" /\ BridgeSnoop("SNP_DATA", list, "OK")
             /\ UNCHANGED <<controllers, dcoh, up, channels, sf, mem>>
    <3>1. "OK" \in ResponseStatus
      BY DEF ResponseStatus
    <3> QED BY <1>0, <2>1, <3>1, SnoopDevicesType
  <2>2. CASE bridge.state # "INIT" /\ GrantFromHost(bridge.src)
    BY <2>2, GrantFromHostType
  <2>3. CASE /\ bridge.state = "DONE" /\ d2hData # <<>>
             /\ GrantShared(bridge.src, Head(d2hData).data)
             /\ d2hData' = Tail(d2hData)
             /\ UNCHANGED cache
    <3>1. Head(d2hData) \in D2HData /\ d2hData' \in Seq(D2HData)
      BY <2>3, HeadTailProperties DEF TypeOK
    <3>2. Head(d2hData).data \in Values
      BY <3>1 DEF D2HData
    <3>3. cache' \in [Agents -> [Addrs -> CacheBlock]]
      BY <2>3 DEF TypeOK, ControllersTypeOK
    <3> QED BY <2>3, <3>1, <3>2, <3>3, GrantSharedType
  <2> QED BY <1>2, <2>1, <2>2, <2>3 DEF DeviceRead
<1>3. CASE DeviceEvict
  <2>0. ControllersTypeOK'
    BY <1>3 DEF DeviceEvict, TypeOK, controllers, ControllersTypeOK
  <2>1. CASE bridge.state = "START"
    <3>1. /\ down' = [down EXCEPT ![bridge.src] =
                        Append(@, [ch |-> "rsp", data |-> InitVal, opcode |->
                                   IF bridge.type = "DIRTY_EVICT" THEN "GO_WRITE_PULL"
                                                                  ELSE "GO_I"])]
          /\ bridge' = [bridge EXCEPT !.state = "DONE"]
          /\ UNCHANGED <<d2hData, sf, mem>>
      BY <1>3, <2>1 DEF DeviceEvict
    <3>2. down' \in [Devices -> Seq(H2DReq \cup H2DRsp)]
      <4> DEFINE op == IF bridge.type = "DIRTY_EVICT" THEN "GO_WRITE_PULL" ELSE "GO_I"
      <4>1. op \in {"GO_E", "GO_I", "GO_S", "GO_WRITE_PULL"}
        OBVIOUS
      <4>2. [ch |-> "rsp", data |-> InitVal, opcode |-> op]
              = [ch |-> "rsp", opcode |-> op, data |-> InitVal]
        OBVIOUS
      <4>3. down' = [down EXCEPT ![bridge.src] =
                       Append(@, [ch |-> "rsp", opcode |-> op, data |-> InitVal])]
        BY <3>1, <4>2
      <4> HIDE DEF op
      <4> QED BY <4>1, <4>3, GoType
    <3> QED BY <1>3, <2>0, <2>1, <3>1, <3>2 DEF DeviceEvict, TypeOK, CohState
  <2>2. CASE bridge.state = "DONE"
    <3>1. /\ sf' = [sf EXCEPT ![bridge.src] = @ \ {bridge.addr}]
          /\ FinishBridge
          /\ UNCHANGED down
      BY <1>3, <2>2 DEF DeviceEvict
    <3>2. mem' \in [Addrs -> Values] /\ d2hData' \in Seq(D2HData)
      <4>1. CASE UNCHANGED <<d2hData, mem>>
        BY <4>1 DEF TypeOK
      <4>2. CASE /\ d2hData # <<>>
                 /\ mem' = [mem EXCEPT ![bridge.addr] = Head(d2hData).data]
                 /\ d2hData' = Tail(d2hData)
        <5>1. Head(d2hData) \in D2HData /\ d2hData' \in Seq(D2HData)
          BY <4>2, HeadTailProperties DEF TypeOK
        <5>2. Head(d2hData).data \in Values
          BY <5>1 DEF D2HData
        <5> QED BY <4>2, <5>1, <5>2 DEF TypeOK
      <4> QED BY <1>3, <2>2, <4>1, <4>2 DEF DeviceEvict
    <3>3. sf' \in [Devices -> SUBSET Addrs]
      BY <3>1 DEF TypeOK
    <3> QED BY <1>3, <2>0, <3>1, <3>2, <3>3, FinishType DEF DeviceEvict, TypeOK
  <2> QED BY <1>3, <2>1, <2>2 DEF DeviceEvict
<1> QED BY <1>1, <1>2, <1>3

LEMMA DcohTakeType ==
  ASSUME TypeOK, NEW d \in Devices, DcohTake(d)
  PROVE  TypeOK'
<1>1. Head(request[d]) \in CacheRequest /\ Tail(request[d]) \in Seq(CacheRequest)
  BY HeadTailProperties, ConstantTypes DEF DcohTake, TypeOK, ControllersTypeOK
<1>2. ControllersTypeOK'
  BY <1>1, ConstantTypes DEF DcohTake, TypeOK, ControllersTypeOK
<1> QED BY <1>1, <1>2 DEF DcohTake, TypeOK, links, channels

LEMMA DcohStateType ==
  ASSUME TypeOK, NEW d \in Devices, NEW s \in {"INIT", "START", "WAIT", "FAILED"},
         dcoh[d].state # "INIT", dcoh' = [dcoh EXCEPT ![d].state = s]
  PROVE  /\ dcoh' \in [Devices -> [state : {"INIT", "START", "WAIT", "FAILED"},
                                   packet : CacheRequest \cup {None}]]
         /\ \A e \in Devices : dcoh'[e].state # "INIT" => dcoh'[e].packet \in CacheRequest
<1> DEFINE D == [state : {"INIT", "START", "WAIT", "FAILED"}, packet : CacheRequest \cup {None}]
<1>1. dcoh \in [Devices -> D] /\ dcoh[d] \in D
  BY DEF TypeOK
<1>2. PICK r : r = [dcoh[d] EXCEPT !.state = s]
  OBVIOUS
<1>3. r \in D /\ r.packet = dcoh[d].packet
  BY <1>1, <1>2
<1>4. dcoh' = [dcoh EXCEPT ![d] = r]
  BY <1>2
<1> HIDE DEF D
<1>5. dcoh' \in [Devices -> D]
  BY <1>1, <1>3, <1>4
<1>6. ASSUME NEW e \in Devices, dcoh'[e].state # "INIT" PROVE dcoh'[e].packet \in CacheRequest
  <2>1. CASE e = d
    BY <1>1, <1>3, <1>4, <2>1 DEF TypeOK
  <2>2. CASE e # d
    BY <1>1, <1>4, <1>6, <2>2 DEF TypeOK
  <2> QED BY <2>1, <2>2
<1> QED BY <1>5, <1>6 DEF D

LEMMA DcohSendType ==
  ASSUME TypeOK, NEW d \in Devices, DcohSend(d)
  PROVE  TypeOK'
<1> DEFINE packet == [ch |-> "req", dev |-> d, opcode |-> D2HOpcode[dcoh[d].packet.type],
                      addr |-> dcoh[d].packet.addr]
<1>1. dcoh[d].packet \in CacheRequest
  BY DEF DcohSend, TypeOK
<1>2. packet \in D2HReq
  BY <1>1 DEF D2HReq, D2HReqOpcode, D2HOpcode, CacheRequest, RequestType
<1>3. up' = [up EXCEPT ![d] = Append(@, packet)]
  BY DEF DcohSend
<1> HIDE DEF packet
<1>4. up' \in [Devices -> Seq(D2HReq \cup D2HRsp \cup D2HData)]
  BY <1>2, <1>3, AppendProperties DEF TypeOK
<1>5. ControllersTypeOK'
  BY DEF DcohSend, TypeOK, controllers, ControllersTypeOK
<1>6. dcoh[d].state # "INIT" /\ dcoh' = [dcoh EXCEPT ![d].state = "WAIT"]
  BY DEF DcohSend
<1> QED BY <1>4, <1>5, <1>6, DcohStateType DEF DcohSend, TypeOK, channels

LEMMA DcohResponseType ==
  ASSUME TypeOK, NEW d \in Devices, DcohResponse(d)
  PROVE  TypeOK'
<1>1. dcoh[d].packet \in CacheRequest
  BY DEF DcohResponse, TypeOK
<1>2. PICK i \in DOMAIN down[d] :
        /\ down[d][i].ch = "rsp"
        /\ down' = [down EXCEPT ![d] = RemoveAt(@, i)]
        /\ \/ /\ Respond(d, "RSP_I", InitVal)
              /\ UNCHANGED up
           \/ /\ Respond(d, "RSP_S", down[d][i].data)
              /\ UNCHANGED up
           \/ /\ up' = [up EXCEPT ![d] =
                            Append(@, [ch |-> "data", data |-> dcoh[d].packet.data])]
              /\ Respond(d, "OK", InitVal)
  BY DEF DcohResponse, FirstOf
<1>3. down' \in [Devices -> Seq(H2DReq \cup H2DRsp)]
  <2>1. RemoveAt(down[d], i) \in Seq(H2DReq \cup H2DRsp)
    <3>1. down[d] \in Seq(H2DReq \cup H2DRsp)
      BY DEF TypeOK
    <3>2. SubSeq(down[d], 1, i - 1) \in Seq(H2DReq \cup H2DRsp)
      BY <3>1, SubSeqProperties
    <3>3. SubSeq(down[d], i + 1, Len(down[d])) \in Seq(H2DReq \cup H2DRsp)
      BY <3>1, SubSeqProperties
    <3> QED BY <3>2, <3>3, ConcatProperties DEF RemoveAt
  <2> QED BY <1>2, <2>1 DEF TypeOK
<1>4. down[d][i].data \in Values
  <2>1. down[d][i] \in H2DReq \cup H2DRsp
    BY DEF TypeOK
  <2> QED BY <1>2, <2>1 DEF H2DReq, H2DRsp
<1>5. ControllersTypeOK'
  BY <1>2, <1>4, RespondType, ConstantTypes DEF TypeOK
<1>6. up' \in [Devices -> Seq(D2HReq \cup D2HRsp \cup D2HData)]
  <2>1. [ch |-> "data", data |-> dcoh[d].packet.data] \in D2HReq \cup D2HRsp \cup D2HData
    BY <1>1 DEF CacheRequest, D2HData
  <2>2. Append(up[d], [ch |-> "data", data |-> dcoh[d].packet.data])
          \in Seq(D2HReq \cup D2HRsp \cup D2HData)
    BY <2>1, AppendProperties DEF TypeOK
  <2>3. up' = up \/ up' = [up EXCEPT ![d] = Append(@, [ch |-> "data", data |-> dcoh[d].packet.data])]
    BY <1>2
  <2> QED BY <2>2, <2>3 DEF TypeOK
<1> QED BY <1>3, <1>5, <1>6 DEF DcohResponse, FinishDcoh, TypeOK, channels

LEMMA DcohSnoopType ==
  ASSUME TypeOK, NEW d \in Devices, DcohSnoop(d)
  PROVE  TypeOK'
<1> DEFINE packet == Head(down[d])
           D2H    == D2HReq \cup D2HRsp \cup D2HData
<1>1. down[d] # <<>> /\ packet.ch = "req" /\ down' = [down EXCEPT ![d] = Tail(@)]
  BY DEF DcohSnoop
<1>2. packet \in H2DReq /\ Tail(down[d]) \in Seq(H2DReq \cup H2DRsp)
  <2>1. packet \in H2DReq \cup H2DRsp /\ Tail(down[d]) \in Seq(H2DReq \cup H2DRsp)
    BY <1>1, HeadTailProperties DEF TypeOK
  <2> QED BY <1>1, <2>1 DEF H2DRsp
<1>3. down' \in [Devices -> Seq(H2DReq \cup H2DRsp)]
  BY <1>1, <1>2 DEF TypeOK
<1>4. /\ ControllersTypeOK'
      /\ up' \in [Devices -> Seq(D2H)]
      /\ dcoh' \in [Devices -> [state : {"INIT", "START", "WAIT", "FAILED"},
                                packet : CacheRequest \cup {None}]]
      /\ \A e \in Devices : dcoh'[e].state # "INIT" => dcoh'[e].packet \in CacheRequest
  <2>1. CASE /\ SameLine(d, packet.addr)
             /\ dcoh' = [dcoh EXCEPT ![d].state = "FAILED"]
             /\ UNCHANGED <<cache, up>>
    <3>1. dcoh[d].state # "INIT"
      BY <2>1 DEF SameLine
    <3>2. ControllersTypeOK'
      BY <2>1 DEF DcohSnoop, TypeOK, ControllersTypeOK
    <3> QED BY <2>1, <3>1, <3>2, DcohStateType DEF TypeOK
  <2>2. CASE /\ up' = [up EXCEPT ![d] = Append(@, [ch |-> "rsp", opcode |-> "RSP_I_HIT_I"])]
             /\ UNCHANGED <<cache, dcoh>>
    <3>1. [ch |-> "rsp", opcode |-> "RSP_I_HIT_I"] \in D2H
      BY DEF D2HRsp, D2HRspOpcode
    <3>2. up' \in [Devices -> Seq(D2H)]
      BY <2>2, <3>1, AppendProperties DEF TypeOK
    <3> QED BY <2>2, <3>2 DEF DcohSnoop, TypeOK, ControllersTypeOK
  <2>3. CASE AnswerSnoop(d, packet.opcode, packet.addr) /\ UNCHANGED dcoh
    <3> DEFINE block == cache[d][packet.addr]
               opcode == SnoopOpcode(SnoopStatus(packet.opcode, block.state))
    <3>1. packet.opcode \in {"SNP_DATA", "SNP_INV"} /\ packet.addr \in Addrs
      BY <1>2 DEF H2DReq
    <3>2. block \in CacheBlock
      BY <3>1, ConstantTypes DEF TypeOK, ControllersTypeOK
    <3>3. opcode \in D2HRspOpcode
      <4>1. block.state \in {"I", "S", "E", "M"}
        BY <3>2 DEF CacheBlock, CacheState
      <4> HIDE DEF packet, block
      <4>2. SnoopStatus(packet.opcode, block.state)
              \in {"RSP_MISS", "RSP_I", "RSP_S", "RSP_E", "RSP_M"}
        BY <3>1, <4>1 DEF SnoopStatus
      <4> QED BY <4>2 DEF SnoopOpcode, D2HRspOpcode
    <3> HIDE DEF packet
    <3>4. up' = [up EXCEPT ![d] = @ \o SnoopReply(opcode, block.data)]
      BY <2>3 DEF AnswerSnoop
    <3>5. block.data \in Values
      BY <3>2 DEF CacheBlock
    <3> HIDE DEF block, opcode
    <3>6. SnoopReply(opcode, block.data) \in Seq(D2H)
      <4>1. /\ [ch |-> "rsp", opcode |-> opcode] \in D2H
            /\ [ch |-> "data", data |-> block.data] \in D2H
        BY <3>3, <3>5 DEF D2HRsp, D2HData
      <4> HIDE DEF D2H
      <4>2. /\ <<[ch |-> "rsp", opcode |-> opcode]>> \in Seq(D2H)
            /\ <<[ch |-> "data", data |-> block.data]>> \in Seq(D2H)
            /\ <<>> \in Seq(D2H)
        BY <4>1
      <4> QED BY <4>2, ConcatProperties DEF SnoopReply
    <3>7. up' \in [Devices -> Seq(D2H)]
      BY <3>4, <3>6, ConcatProperties DEF TypeOK
    <3>8. cache' \in [Agents -> [Addrs -> CacheBlock]]
      BY <2>3, <3>1, SnoopType, ConstantTypes DEF AnswerSnoop, TypeOK
    <3> QED BY <2>3, <3>7, <3>8 DEF DcohSnoop, TypeOK, ControllersTypeOK
  <2> QED BY <2>1, <2>2, <2>3 DEF DcohSnoop
<1> QED BY <1>3, <1>4 DEF DcohSnoop, TypeOK, channels

LEMMA TypeStep == TypeOK /\ [Next]_vars => TypeOK'
<1> SUFFICES ASSUME TypeOK, [Next]_vars PROVE TypeOK'
  OBVIOUS
<1>1. ASSUME NEW a \in Agents, NEW x \in Addrs, Load(a, x), UNCHANGED protocol
      PROVE  TypeOK'
  BY <1>1, LoadType DEF TypeOK, protocol, links, channels
<1>2. ASSUME NEW a \in Agents, NEW x \in Addrs, NEW v \in Values,
             Store(a, x, v), UNCHANGED protocol
      PROVE  TypeOK'
  BY <1>2, StoreType DEF TypeOK, protocol, links, channels
<1>3. ASSUME NEW d \in Devices, BridgeReceive(d)
      PROVE  TypeOK'
  BY <1>3, ReceiveType
<1>4. CASE BridgeStep
  BY <1>4, TakeHostType, TakeDeviceType, ResponseType, HostStepType, DeviceStepType
     DEF BridgeStep
<1>5. ASSUME NEW d \in Devices, DcohStep(d)
      PROVE  TypeOK'
  BY <1>5, DcohTakeType, DcohSendType, DcohResponseType, DcohSnoopType DEF DcohStep
<1>6. CASE UNCHANGED vars
  BY <1>6 DEF TypeOK, ControllersTypeOK, vars, controllers, protocol, links, channels
<1> QED BY <1>1, <1>2, <1>3, <1>4, <1>5, <1>6 DEF Next

(* In every reachable state each variable holds what the code can hold in  *)
(* it, an agent at work has a request, and each request of the bridge is   *)
(* of the kind its source sends.                                           *)
THEOREM TypeCorrect == Spec => []TypeOK
BY TypeInit, TypeStep, PTL DEF Spec

----------------------------------------------------------------------------
(* Every response answers the request its controller waits for.            *)

\* A step that leaves an agent's operation, queue and served request alone.
LEMMA PairedFrame ==
  ASSUME NEW a \in Agents, Paired(a), proc'[a] = proc[a], request'[a] = request[a],
         Served(a)' <=> Served(a),
         Served(a) => /\ ServedRequest(a)'.addr = ServedRequest(a).addr
                      /\ ServedRequest(a)'.type = ServedRequest(a).type
  PROVE  Paired(a)'
BY DEF Paired, Awaits

\* An idle agent makes its request.
LEMMA PairedMiss ==
  ASSUME TypeOK, NEW a \in Agents, NEW op \in {"load", "store"}, NEW x \in Addrs,
         NEW v \in Values, proc[a] = Idle, Paired(a),
         Ask(a, op, x, v) \/ Flush(a, op, x, v), Served(a)' <=> Served(a)
  PROVE  Paired(a)'
<1>1. request[a] = <<>> /\ ~Served(a)
  BY DEF Paired, Awaits, Idle
<1>2. CASE Ask(a, op, x, v)
  <2>1. request'[a] = <<AskRequest(op, x)>> /\ proc'[a] = Asking(op, x, v)
    BY <1>1, <1>2 DEF Ask, TypeOK, ControllersTypeOK
  <2>2. Len(request'[a]) = 1 /\ request'[a][1] = AskRequest(op, x)
    BY <2>1
  <2> QED BY <1>1, <2>1, <2>2 DEF Paired, Awaits, Asking, AskRequest
<1>3. CASE Flush(a, op, x, v)
  <2>1. PICK y \in Addrs :
          /\ proc' = [proc EXCEPT ![a] = [pc |-> "flush", op |-> op, addr |-> x,
                                          val |-> v, victim |-> y]]
          /\ request' = [request EXCEPT ![a] =
                           Append(@, [type |-> WriteBackType(cache[a][y].state),
                                      addr |-> y, data |-> cache[a][y].data])]
    BY <1>3 DEF Flush
  <2> DEFINE r == [type |-> WriteBackType(cache[a][y].state), addr |-> y,
                   data |-> cache[a][y].data]
  <2>2. r.type \in {"WRITE_BACK", "WRITE_BACK_CLEAN"} /\ r.addr = y
    BY DEF WriteBackType
  <2> HIDE DEF r
  <2>3. request'[a] = <<r>>
    BY <1>1, <2>1 DEF TypeOK, ControllersTypeOK, r
  <2>4. Len(request'[a]) = 1 /\ request'[a][1] = r
    BY <2>3
  <2>5. proc'[a].pc = "flush" /\ proc'[a].victim = y
    BY <2>1 DEF TypeOK, ControllersTypeOK
  <2> QED BY <1>1, <2>2, <2>4, <2>5 DEF Paired, Awaits
<1> QED BY <1>2, <1>3

\* The served request is answered and the answer used.
LEMMA PairedRespond ==
  ASSUME TypeOK, NEW a \in Agents, NEW status, NEW data, Paired(a), Served(a),
         Respond(a, status, data), ~(Served(a)')
  PROVE  Paired(a)'
<1>1. request[a] = <<>>
  BY DEF Paired
<1>2. proc[a] \in Busy
  BY DEF Respond, TypeOK, ControllersTypeOK, Idle
<1>3. CASE proc[a].pc = "flush"
  <2>1. Ask(a, proc[a].op, proc[a].addr, proc[a].val)
    BY <1>3 DEF Respond
  <2>2. /\ request'[a] = <<AskRequest(proc[a].op, proc[a].addr)>>
        /\ proc'[a] = Asking(proc[a].op, proc[a].addr, proc[a].val)
    BY <1>1, <2>1 DEF Ask, TypeOK, ControllersTypeOK
  <2>3. Len(request'[a]) = 1 /\ request'[a][1] = AskRequest(proc[a].op, proc[a].addr)
    BY <2>2
  <2> QED BY <1>2, <2>2, <2>3 DEF Paired, Awaits, Asking, AskRequest, Busy
<1>4. CASE proc[a].pc \in {"fill", "own"}
  <2>1. proc' = [proc EXCEPT ![a] = Idle] /\ request' = request
    BY <1>4 DEF Respond
  <2> QED BY <1>1, <2>1 DEF Paired, TypeOK, ControllersTypeOK
<1> QED BY <1>3, <1>4 DEF Respond

\* What a step does to one agent leaves the others alone.
LEMMA OthersKept ==
  ASSUME TypeOK, NEW a \in Agents, NEW b \in Agents, a # b,
         \/ \E op, x, v : Ask(a, op, x, v)
         \/ \E op, x, v : Flush(a, op, x, v)
         \/ \E s, x : Respond(a, s, x)
  PROVE  proc'[b] = proc[b] /\ request'[b] = request[b]
<1>1. ASSUME NEW op, NEW x, NEW v, Ask(a, op, x, v)
      PROVE  proc'[b] = proc[b] /\ request'[b] = request[b]
  BY <1>1 DEF Ask, TypeOK, ControllersTypeOK
<1>2. ASSUME NEW op, NEW x, NEW v, Flush(a, op, x, v)
      PROVE  proc'[b] = proc[b] /\ request'[b] = request[b]
  BY <1>2 DEF Flush, TypeOK, ControllersTypeOK
<1>3. ASSUME NEW s, NEW x, Respond(a, s, x)
      PROVE  proc'[b] = proc[b] /\ request'[b] = request[b]
  BY <1>1, <1>3 DEF Respond, TypeOK, ControllersTypeOK
<1> QED BY <1>1, <1>2, <1>3

\* The loads and stores an agent starts.
LEMMA PairedProcessor ==
  ASSUME TypeOK, RequestsPaired, NEW a \in Agents, NEW x \in Addrs, NEW v \in Values,
         Load(a, x) \/ Store(a, x, v), UNCHANGED protocol
  PROVE  RequestsPaired'
<1>1. \A b \in Agents : /\ Served(b)' <=> Served(b)
                        /\ ServedRequest(b)' = ServedRequest(b)
  BY DEF protocol, Served, ServedRequest
<1>2. CASE UNCHANGED <<proc, request>>
  BY <1>1, <1>2, PairedFrame DEF RequestsPaired
<1>3. ASSUME NEW op \in {"load", "store"}, NEW w \in Values, proc[a] = Idle,
             Ask(a, op, x, w) \/ Flush(a, op, x, w)
      PROVE  RequestsPaired'
  <2>1. Paired(a)'
    BY <1>1, <1>3, PairedMiss DEF RequestsPaired
  <2>2. ASSUME NEW b \in Agents, b # a PROVE Paired(b)'
    BY <1>1, <1>3, <2>2, OthersKept, PairedFrame DEF RequestsPaired
  <2> QED BY <2>1, <2>2 DEF RequestsPaired
<1> QED BY <1>2, <1>3 DEF Load, Store, Miss

LEMMA Disjoint == RequestType \cap D2HReqOpcode = {}
BY DEF RequestType, D2HReqOpcode

\* A step of the bridge that answers nobody.
LEMMA PairedBridgeFrame ==
  ASSUME TypeOK, RequestsPaired, UNCHANGED <<proc, request, dcoh>>,
         Served(Host)' <=> Served(Host),
         Served(Host) => bridge'.addr = bridge.addr /\ bridge'.type = bridge.type
  PROVE  RequestsPaired'
<1>1. Paired(Host)'
  BY PairedFrame, ConstantTypes DEF RequestsPaired, ServedRequest
<1>2. ASSUME NEW d \in Devices PROVE Paired(d)'
  BY PairedFrame, ConstantTypes DEF RequestsPaired, ServedRequest, Served
<1> QED BY <1>1, <1>2 DEF RequestsPaired, Agents

\* The host is answered.
LEMMA PairedHostAnswer ==
  ASSUME TypeOK, RequestsPaired, NEW s, NEW x, bridge.state # "INIT", bridge.src = Host,
         Respond(Host, s, x), FinishBridge, UNCHANGED dcoh
  PROVE  RequestsPaired'
<1>1. Served(Host) /\ ~(Served(Host)')
  BY FinishType DEF Served
<1>2. Paired(Host)'
  BY <1>1, PairedRespond, ConstantTypes DEF RequestsPaired
<1>3. ASSUME NEW d \in Devices PROVE Paired(d)'
  <2>1. d \in Agents /\ d # Host
    BY ConstantTypes
  <2>2. proc'[d] = proc[d] /\ request'[d] = request[d]
    BY <2>1, OthersKept, ConstantTypes
  <2> QED BY <2>1, <2>2, PairedFrame DEF RequestsPaired, Served, ServedRequest
<1> QED BY <1>2, <1>3 DEF RequestsPaired, Agents

LEMMA TailOfOne ==
  ASSUME NEW S, NEW q \in Seq(S), Len(q) = 1
  PROVE  Head(q) = q[1] /\ Tail(q) = <<>>
<1>1. q # <<>>
  <2>1. Len(<<>>) = 0
    BY EmptySeq
  <2>2. Len(q) # 0
    OBVIOUS
  <2> QED BY <2>1, <2>2, Zenon
<1>2. Tail(q) \in Seq(S) /\ Len(Tail(q)) = 0
  BY <1>1, HeadTailProperties
<1>3. Tail(q) = <<>>
  BY <1>2, EmptySeq
<1>4. Head(q) = q[1]
  BY <1>1
<1> QED BY <1>3, <1>4

LEMMA PairedBridge ==
  ASSUME TypeOK, RequestsPaired, BridgeStep
  PROVE  RequestsPaired'
<1>1. CASE BridgeTakeHost
  <2>1. /\ Len(request[Host]) = 1 /\ Awaits(Host, request[Host][1])
        /\ request[Host] \in Seq(CacheRequest)
    BY <1>1, ConstantTypes DEF BridgeTakeHost, RequestsPaired, Paired, Served, TypeOK,
                               ControllersTypeOK
  <2>2. Head(request[Host]) = request[Host][1] /\ Tail(request[Host]) = <<>>
    BY <2>1, TailOfOne
  <2>3. request'[Host] = <<>> /\ proc' = proc
    BY <1>1, <2>2, ConstantTypes DEF BridgeTakeHost, TypeOK, ControllersTypeOK
  <2>4. /\ bridge'.state = "START" /\ bridge'.src = Host
        /\ bridge'.type = request[Host][1].type /\ bridge'.addr = request[Host][1].addr
    BY <1>1, <2>2 DEF BridgeTakeHost, TypeOK
  <2>5. Paired(Host)'
    BY <2>1, <2>3, <2>4 DEF Paired, Served, ServedRequest, Awaits
  <2>6. ASSUME NEW d \in Devices PROVE Paired(d)'
    <3>1. d \in Agents /\ d # Host
      BY ConstantTypes
    <3>2. request'[d] = request[d] /\ dcoh' = dcoh
      BY <1>1, <3>1 DEF BridgeTakeHost, TypeOK, ControllersTypeOK
    <3> QED BY <2>3, <3>1, <3>2, PairedFrame DEF RequestsPaired, Served, ServedRequest
  <2> QED BY <2>5, <2>6 DEF RequestsPaired, Agents
<1>2. CASE BridgeTakeDevice
  <2>1. Head(d2hReq) \in D2HReq
    BY <1>2, HeadTailProperties DEF BridgeTakeDevice, TypeOK
  <2>2. bridge'.src # Host
    BY <1>2, <2>1, ConstantTypes DEF BridgeTakeDevice, TypeOK, D2HReq
  <2>3. ~Served(Host) /\ ~(Served(Host)')
    BY <1>2, <2>2 DEF BridgeTakeDevice, Served
  <2> QED BY <1>2, <2>3, PairedBridgeFrame DEF BridgeTakeDevice, controllers
<1>3. CASE BridgeResponse
  <2>1. /\ bridge'.state # "INIT" /\ bridge.state # "INIT" /\ bridge'.src = bridge.src
        /\ bridge'.addr = bridge.addr /\ bridge'.type = bridge.type
    BY <1>3 DEF BridgeResponse, TypeOK
  <2> QED BY <1>3, <2>1, PairedBridgeFrame DEF BridgeResponse, controllers, Served
<1>4. CASE HostWriteBack \/ HostFromMemory \/ HostDone
  <2>1. bridge.state # "INIT" /\ bridge.src = Host
    BY <1>4, Disjoint DEF HostWriteBack, HostFromMemory, HostDone, TypeOK, RequestType
  <2>2. PICK s, x : Respond(Host, s, x)
    BY <1>4 DEF HostWriteBack, HostFromMemory, HostDone
  <2>3. FinishBridge /\ UNCHANGED dcoh
    BY <1>4 DEF HostWriteBack, HostFromMemory, HostDone
  <2> QED BY <2>1, <2>2, <2>3, PairedHostAnswer
<1>5. ASSUME bridge.state # "INIT", NEW opcode, NEW l, NEW rsp, BridgeSnoop(opcode, l, rsp),
             UNCHANGED <<controllers, dcoh>>
      PROVE  RequestsPaired'
  <2>1. /\ bridge'.state # "INIT" /\ bridge'.src = bridge.src
        /\ bridge'.addr = bridge.addr /\ bridge'.type = bridge.type
    BY <1>5 DEF BridgeSnoop, TypeOK
  <2> QED BY <1>5, <2>1, PairedBridgeFrame DEF controllers, Served
<1>6. ASSUME bridge.state # "INIT", bridge.type \in D2HReqOpcode, FinishBridge,
             UNCHANGED <<proc, request, dcoh>>
      PROVE  RequestsPaired'
  <2>1. bridge.src # Host
    BY <1>6, Disjoint, ConstantTypes DEF TypeOK
  <2>2. ~Served(Host) /\ ~(Served(Host)')
    BY <1>6, <2>1, FinishType DEF Served
  <2> QED BY <1>6, <2>2, PairedBridgeFrame
<1>7. CASE HostSnoopDevices
  BY <1>5, <1>7 DEF HostSnoopDevices
<1>8. CASE DeviceOwn
  BY <1>5, <1>6, <1>8 DEF DeviceOwn, GrantOwn, D2HReqOpcode
<1>9. CASE DeviceRead
  BY <1>5, <1>6, <1>9 DEF DeviceRead, GrantFromHost, GrantShared, D2HReqOpcode
<1>10. CASE DeviceEvict
  <2>1. CASE bridge.state = "START"
    <3>1. /\ bridge'.state # "INIT" /\ bridge'.src = bridge.src
          /\ bridge'.addr = bridge.addr /\ bridge'.type = bridge.type
      BY <1>10, <2>1 DEF DeviceEvict, TypeOK
    <3> QED BY <1>10, <2>1, <3>1, PairedBridgeFrame DEF DeviceEvict, controllers, Served
  <2>2. CASE bridge.state = "DONE"
    BY <1>6, <1>10, <2>2 DEF DeviceEvict, controllers, D2HReqOpcode
  <2> QED BY <1>10, <2>1, <2>2 DEF DeviceEvict
<1> QED BY <1>1, <1>2, <1>3, <1>4, <1>7, <1>8, <1>9, <1>10 DEF BridgeStep

\* A step of one DCOH that neither takes a request nor answers one.
LEMMA PairedDcohFrame ==
  ASSUME TypeOK, RequestsPaired, NEW d \in Devices, UNCHANGED <<proc, request, bridge>>,
         dcoh[d].state # "INIT", NEW s, s # "INIT", dcoh' = [dcoh EXCEPT ![d].state = s]
  PROVE  RequestsPaired'
<1>1. dcoh'[d].state # "INIT" /\ dcoh'[d].packet = dcoh[d].packet
  BY DEF TypeOK
<1>2. \A e \in Devices \ {d} : dcoh'[e] = dcoh[e]
  BY DEF TypeOK
<1>3. ASSUME NEW a \in Agents PROVE Paired(a)'
  <2>1. CASE a = Host
    BY <2>1, PairedFrame DEF RequestsPaired, Served, ServedRequest
  <2>2. CASE a = d
    BY <1>1, <2>2, PairedFrame, ConstantTypes DEF RequestsPaired, Served, ServedRequest
  <2>3. CASE a \in Devices \ {d}
    BY <1>2, <2>3, PairedFrame DEF RequestsPaired, Served, ServedRequest
  <2> QED BY <2>1, <2>2, <2>3 DEF Agents
<1> QED BY <1>3 DEF RequestsPaired

LEMMA PairedDcoh ==
  ASSUME TypeOK, RequestsPaired, NEW d \in Devices, DcohStep(d)
  PROVE  RequestsPaired'
<1>0. d \in Agents /\ d # Host
  BY ConstantTypes
<1>2. CASE DcohTake(d)
  <2>1. /\ Len(request[d]) = 1 /\ Awaits(d, request[d][1])
        /\ request[d] \in Seq(CacheRequest)
    BY <1>0, <1>2 DEF DcohTake, RequestsPaired, Paired, Served, TypeOK, ControllersTypeOK
  <2>2. Head(request[d]) = request[d][1] /\ Tail(request[d]) = <<>>
    BY <2>1, TailOfOne
  <2>3. /\ request'[d] = <<>> /\ proc' = proc
        /\ dcoh'[d] = [state |-> "START", packet |-> request[d][1]]
    BY <1>0, <1>2, <2>2 DEF DcohTake, TypeOK, ControllersTypeOK
  <2>4. Paired(d)'
    BY <1>0, <2>1, <2>3 DEF Paired, Served, ServedRequest, Awaits
  <2>5. ASSUME NEW a \in Agents \ {d} PROVE Paired(a)'
    <3>1. request'[a] = request[a] /\ proc'[a] = proc[a] /\ bridge' = bridge
      BY <1>2 DEF DcohTake, TypeOK, ControllersTypeOK
    <3>2. a # Host => dcoh'[a] = dcoh[a]
      BY <1>2 DEF DcohTake, TypeOK, Agents
    <3> QED BY <3>1, <3>2, PairedFrame DEF RequestsPaired, Served, ServedRequest
  <2> QED BY <2>4, <2>5 DEF RequestsPaired
<1>3. CASE DcohSend(d)
  BY <1>3, PairedDcohFrame DEF DcohSend, controllers
<1>4. CASE DcohResponse(d)
  <2>1. PICK s, x : Respond(d, s, x)
    BY <1>4 DEF DcohResponse
  <2>2. /\ dcoh[d].state = "WAIT" /\ bridge' = bridge
        /\ dcoh' = [dcoh EXCEPT ![d] = [state |-> "INIT", packet |-> None]]
    BY <1>4 DEF DcohResponse, FinishDcoh
  <2>3. Served(d) /\ ~(Served(d)')
    BY <1>0, <2>2 DEF Served, TypeOK
  <2>4. Paired(d)'
    BY <1>0, <2>1, <2>3, PairedRespond DEF RequestsPaired
  <2>5. ASSUME NEW a \in Agents \ {d} PROVE Paired(a)'
    <3>1. request'[a] = request[a] /\ proc'[a] = proc[a]
      BY <1>0, <2>1, OthersKept
    <3>2. a # Host => dcoh'[a] = dcoh[a]
      BY <2>2 DEF TypeOK, Agents
    <3> QED BY <2>2, <3>1, <3>2, PairedFrame DEF RequestsPaired, Served, ServedRequest
  <2> QED BY <2>4, <2>5 DEF RequestsPaired
<1>5. CASE DcohSnoop(d)
  <2>1. UNCHANGED <<proc, request, bridge>>
    BY <1>5 DEF DcohSnoop
  <2>2. CASE UNCHANGED dcoh
    <3>1. ASSUME NEW a \in Agents PROVE Paired(a)'
      BY <2>1, <2>2, PairedFrame DEF RequestsPaired, Served, ServedRequest
    <3> QED BY <3>1 DEF RequestsPaired
  <2>3. CASE SameLine(d, Head(down[d]).addr) /\ dcoh' = [dcoh EXCEPT ![d].state = "FAILED"]
    BY <2>1, <2>3, PairedDcohFrame DEF SameLine
  <2> QED BY <1>5, <2>2, <2>3 DEF DcohSnoop
<1> QED BY <1>2, <1>3, <1>4, <1>5 DEF DcohStep

LEMMA PairedInit == Init => RequestsPaired
BY ConstantTypes DEF Init, ControllersInit, BridgeIdle, RequestsPaired, Paired, Served, Agents

LEMMA PairedStep == TypeOK /\ RequestsPaired /\ [Next]_vars => RequestsPaired'
<1> SUFFICES ASSUME TypeOK, RequestsPaired, [Next]_vars PROVE RequestsPaired'
  OBVIOUS
<1>1. ASSUME NEW d \in Devices, BridgeReceive(d)
      PROVE  RequestsPaired'
  BY <1>1, PairedBridgeFrame DEF BridgeReceive, controllers, Served
<1>2. CASE UNCHANGED vars
  BY <1>2, PairedBridgeFrame DEF vars, controllers, protocol, Served
<1>3. InitVal \in Values
  OBVIOUS
<1> QED BY <1>1, <1>2, <1>3, PairedProcessor, PairedBridge, PairedDcoh DEF Next

(* Whatever the interleaving, a suspended load or store has exactly one    *)
(* request, queued or being served, for its line and of its kind, and an   *)
(* idle controller has none: the untagged response a controller takes is   *)
(* the one it waits for.                                                   *)
THEOREM ResponsesMatch == Spec => []RequestsPaired
BY TypeInit, TypeStep, PairedInit, PairedStep, PTL DEF Spec

=============================================================================
