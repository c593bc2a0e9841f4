-------------------------- MODULE FabricManagement --------------------------
(***************************************************************************)
(* The fabric manager and the switch it manages.  A user's event makes the *)
(* manager send CCI commands, one after the other, over its connection to  *)
(* the switch (fabric_manager/socketio_server.py,                          *)
(* mctp/mctp_cci_api_client.py); the switch executes them, in the          *)
(* background those that take long, or passes them down to a multi-logical *)
(* device (mctp/mctp_cci_executor.py, cci_executor.py, fmld.py); devices   *)
(* come and go (switch_connection_manager.py, cxl_packet_processor.py);    *)
(* and the switch connects again when the manager has gone                 *)
(* (mctp/mctp_connection_client.py).                                       *)
(*                                                                         *)
(* `requests` is all that is under way from the manager's queue to the     *)
(* switch's executor, `answers` all that is under way from the executor's  *)
(* queue to the manager's client.  What part of them had crossed the       *)
(* connection matters when the manager dies and is chosen then.            *)
(***************************************************************************)
EXTENDS CciPackets, PbrSwitch

CONSTANTS
  Events,       \* what users may ask of the manager, as [name, port, data]
  Entries,      \* the PID assignments they may ask for
  CommandSets,  \* the sets of commands a switch may know
  PortKind,     \* of each port, "USP", "SLD" or "MLD"
  LdCount,      \* the logical devices of a multi-logical one
  NumVcss, NumVppbs,
  Plugged,      \* the ports whose devices are there at the start
  None,         \* Python's None
  MaxEvents, MaxTurns  \* bounds: events; crashes and devices that leave, together

Ports == DOMAIN PortKind
Tags == 0..2^TagBits - 1

ASSUME FabricAssumption ==
  /\ Entries \subseteq Entry
  /\ 0 \in Ports /\ Ports \subseteq 0..255
  /\ Plugged \subseteq Ports
  /\ MaxEvents \in Nat /\ MaxTurns \in Nat

VARIABLES
  fm,         \* the manager: which start of it, next tag and whether tags have come
              \* round, commands to send and where it is with the first, the identity
              \* it has, the last answer it took
  responses,  \* MctpCciApiClient._responses
  requests, answers, link,
  known,      \* the commands registered at the switch
  exec,       \* MctpCciExecutor: its incoming loop and _message_tag_list
  slot,       \* CciExecutor's background command
  lds,        \* of each port, its connection, the task that sends commands down it,
              \* the packets down to and up from its device, whether the device reads,
              \* and the executor's loop for what comes up
  history     \* events, crashes and leaves so far, the commands that crashes left
              \* under way, and those that have met nobody who answers

fmVars == <<fm, responses>>
vars == <<fm, responses, requests, answers, link, known, exec, slot, lds, history, pbrVars>>

BackgroundOps ==
  {"BIND_VPPB", "UNBIND_VPPB", "FREEZE_VPPB", "UNFREEZE_VPPB", "CONFIGURE_PID_BINDING"}
Poll == [op |-> "BACKGROUND_OPERATION_STATUS", port |-> 0, data |-> <<>>]

\* The marker a reader that meets the end of its stream puts behind what the
\* writer has still to send
End == [type |-> "END"]

Booted(boot) ==
  [boot |-> boot, tag |-> 0, lap |-> 0, todo |-> <<>>, at |-> "idle", asked |-> None,
   took |-> None, identity |-> FALSE, sized |-> FALSE]
NoResponses == [t \in Tags |-> None]

\* A device's place at a port; an upstream port has no task for commands.
Port(p, there) ==
  [line |-> IF there THEN "open" ELSE "closed", task |-> there /\ PortKind[p] # "USP",
   down |-> <<>>, up |-> <<>>, device |-> TRUE, loop |-> TRUE]

\* The manager runs, and has read what the switch told it of the devices.
Init ==
  /\ PbrInit
  /\ fm = [Booted(0) EXCEPT !.sized = Plugged # {}]
  /\ lds = [p \in Ports |-> Port(p, p \in Plugged)]
  /\ responses = NoResponses /\ requests = <<>> /\ answers = <<>> /\ link = "up"
  /\ known \in CommandSets
  /\ exec = [alive |-> TRUE, now |-> None, entries |-> <<>>, code |-> "SUCCESS",
             tagged |-> [t \in Tags |-> None]]
  /\ slot = [command |-> None, progress |-> 0]
  /\ history = [events |-> 0, crashes |-> 0, leaves |-> 0, orphans |-> {}, lost |-> {}]

----------------------------------------------------------------------------
(* The fabric manager.                                                     *)

\* The commands of each event, as long as they succeed.  A background command
\* is followed by as many polls as it takes.
PortEvents ==
  [port_get |-> <<"IDENTIFY_SWITCH_DEVICE", "GET_PHYSICAL_PORT_STATE">>,
   vcs_get |-> <<"IDENTIFY_SWITCH_DEVICE", "GET_VIRTUAL_CXL_SWITCH_INFO">>,
   device_get |-> <<"GET_CONNECTED_DEVICES">>]
VppbEvents ==
  [vcs_bind |-> <<"BIND_VPPB", "GET_VIRTUAL_CXL_SWITCH_INFO">>,
   vcs_unbind |-> <<"GET_VIRTUAL_CXL_SWITCH_INFO", "UNBIND_VPPB">>,
   vcs_freeze |-> <<"FREEZE_VPPB">>,
   vcs_unfreeze |-> <<"UNFREEZE_VPPB">>]
MldEvents ==
  [mld_get |-> <<"GET_LD_INFO">>,
   mld_getAllocation |-> <<"GET_LD_ALLOCATIONS">>,
   mld_setAllocation |-> <<"SET_LD_ALLOCATIONS">>]
PbrEvents ==
  [pbr_identify |-> <<"IDENTIFY_PBR_SWITCH">>,
   pbr_assignPid |-> <<"CONFIGURE_PID_ASSIGNMENT">>,
   pbr_getPidBinding |-> <<"GET_PID_BINDING">>,
   pbr_configurePidBinding |-> <<"CONFIGURE_PID_BINDING">>,
   pbr_getDrt |-> <<"GET_DRT">>,
   pbr_setDrt |-> <<"SET_DRT">>]
Program ==
  [name \in UNION {DOMAIN PortEvents, DOMAIN VppbEvents, DOMAIN MldEvents, DOMAIN PbrEvents} |->
     CASE name \in DOMAIN PortEvents -> PortEvents[name]
       [] name \in DOMAIN VppbEvents -> VppbEvents[name]
       [] name \in DOMAIN MldEvents  -> MldEvents[name]
       [] name \in DOMAIN PbrEvents  -> PbrEvents[name]]

ASSUME EventsAssumption == \A e \in Events : e.name \in DOMAIN Program /\ e.port \in Ports

Commands(e) ==
  LET ops == Program[e.name]
      from == IF fm.identity /\ ops[1] = "IDENTIFY_SWITCH_DEVICE" THEN 2 ELSE 1 IN
  [i \in 1..Len(ops) - from + 1 |-> [op |-> ops[i + from - 1], port |-> e.port, data |-> e.data]]

\* The event lock lets one event at a time through.
HandleEvent(e) ==
  /\ fm.at = "idle" /\ history.events < MaxEvents
  /\ fm' = [fm EXCEPT !.todo = Commands(e), !.at = "send"]
  /\ history' = [history EXCEPT !.events = @ + 1]
  /\ UNCHANGED <<responses, requests, answers, link, known, exec, slot, lds, pbrVars>>

\* The items of the list a command carries
Items(c) ==
  CASE c.op = "CONFIGURE_PID_ASSIGNMENT" -> Len(c.data.entries)
    [] c.op = "SET_DRT" -> Len(c.data.entries)
    [] c.op = "SET_LD_ALLOCATIONS" -> c.data.limit
    [] OTHER -> 1

\* Nothing in the loop of polls makes the manager wait when every tag has an
\* old answer, and none of these is one that ends it.
Spinning ==
  /\ fm.at = "send" /\ Head(fm.todo).op = Poll.op
  /\ \A t \in Tags : responses[t] # None /\ ~Succeeded(responses[t])

\* _send_request.  Tags come round, and responses stay in the table: a tag
\* that has an old one, from a dead manager's command or an earlier one of its
\* own, makes the caller take that without waiting, whatever it is.  What a
\* manager that spins would send never leaves it.
SendCommand ==
  /\ fm.at = "send" /\ ~Spinning
  /\ LET c == Head(fm.todo)
         id == <<fm.boot, fm.lap, fm.tag>>
         n == CommandBytes(c.op, Items(c)) + PbrCommandBytes(c.op, Items(c)) IN
     /\ requests' = Append(requests,
          Command(c.op, fm.tag, c.port, [of |-> id, data |-> c.data], n))
     /\ fm' = [fm EXCEPT
          !.at = IF responses[fm.tag] = None THEN "wait" ELSE "stale",
          !.tag = Kept(@ + 1, TagBits), !.lap = IF Kept(fm.tag + 1, TagBits) = 0 THEN 1 ELSE @,
          !.asked = id, !.took = None, !.sized = n > 0]
  /\ UNCHANGED <<responses, answers, link, known, exec, slot, lds, history, pbrVars>>

\* One turn of _process_incoming_packets, while the event's own task waits.  The
\* length of the payload field is an attribute of the class, so it is that of the
\* last message made.
Deliver ==
  /\ link = "up" /\ fm.at \in {"idle", "wait"} /\ answers # <<>>
  /\ LET m == Head(answers).data IN
     /\ fm' = [fm EXCEPT !.sized = PayloadLength(m.head) > 0]
     /\ responses' = IF IsNotification(m) THEN responses ELSE [responses EXCEPT ![Tag(m)] = m]
  /\ answers' = Tail(answers)
  /\ UNCHANGED <<requests, link, known, exec, slot, lds, history, pbrVars>>

\* What is left of an event after the answer `r` to its first command.  The
\* return code of a background command is not looked at.
AfterBackground(tail) == {<<Poll>> \o tail}

AfterStatus(r, tail) ==
  {CASE ~Succeeded(r) -> fm.todo
     [] Succeeded(r) /\ PayloadLength(r.head) # Bytes(BackgroundOperationStatusResponsePayload) ->
          <<>>
     [] OTHER -> IF fm.sized /\ r.payload.says.in_progress THEN fm.todo ELSE tail}

\* An answer to another command may not parse, which ends the event as a
\* failure does; and so does a host that is not connected, which is told of a
\* binding once its port is known.
Parses(r) == fm.at = "wait" /\ r.payload.of = fm.asked
TellsHost == Head(fm.todo).op = "GET_VIRTUAL_CXL_SWITCH_INFO"
AfterForeground(r, tail) ==
  IF ~Succeeded(r) THEN {<<>>}
  ELSE {tail} \cup (IF Parses(r) /\ ~TellsHost THEN {} ELSE {<<>>})

Rest(r) ==
  LET op == Head(fm.todo).op
      tail == Tail(fm.todo) IN
  CASE op \in BackgroundOps -> AfterBackground(tail)
    [] op = Poll.op -> AfterStatus(r, tail)
    [] OTHER -> AfterForeground(r, tail)

\* What _get_response waits for
\* (Mutant: any answer it has.)
AwaitedAny == LET t == CHOOSE t \in Tags : responses[t] # None \/ t = fm.asked[3] IN responses[t]
Awaited == responses[fm.asked[3]]

TakeAnswer ==
  /\ fm.at \in {"wait", "stale"}
  /\ LET r == Awaited IN
     /\ r # None
     /\ \E rest \in Rest(r) :
          fm' = [fm EXCEPT !.todo = rest, !.at = IF rest = <<>> THEN "idle" ELSE "send",
                           !.took = r.payload.of,
                           !.identity = @ \/ (Head(fm.todo).op = "IDENTIFY_SWITCH_DEVICE"
                                              /\ rest # <<>>)]
  /\ UNCHANGED <<responses, requests, answers, link, known, exec, slot, lds, history, pbrVars>>
----------------------------------------------------------------------------
(* The switch's executor.                                                  *)

\* Requests of a manager the switch is not connected to have not come yet.
Received == requests # <<>> /\ (link = "up" \/ Head(requests).data.payload.of[1] < fm.boot)

Respond(m, rc, background, says, n) ==
  answers' = Append(answers, Answer(Tag(m), rc, background, [of |-> m.payload.of, says |-> says], n))

OpName(m) == CHOOSE op \in DOMAIN Opcode : IsOp(m, op)
Known(m) == OpName(m) \in known

\* A command for a logical device is passed down to the device's port; its tag
\* is remembered until an answer comes up.  One that cannot be converted, or
\* names a port that is not a downstream port, ends the loop.
PassDown ==
  /\ exec.alive /\ exec.now = None /\ Received
  /\ LET m == Head(requests).data
         port == Head(requests).heads[1].port_index
         passed == CanConvert(m) /\ PortKind[port] # "USP" IN
     /\ IsLdCommand(m)
     /\ exec' = [exec EXCEPT !.tagged[Tag(m)] = port, !.alive = passed]
     /\ lds' = IF passed THEN [lds EXCEPT ![port].down = Append(@, CreateFromCciMessage(m))]
               ELSE lds
  /\ requests' = Tail(requests)
  /\ UNCHANGED <<fm, responses, answers, link, known, slot, history, pbrVars>>

\* One background command at a time: another is answered with BUSY.
SubmitBackground ==
  /\ exec.alive /\ exec.now = None /\ Received
  /\ LET m == Head(requests).data IN
     /\ ~IsLdCommand(m) /\ Known(m) /\ OpName(m) \in BackgroundOps
     /\ IF slot.command # None
        THEN Respond(m, "BUSY", TRUE, <<>>, 0) /\ UNCHANGED slot
        ELSE /\ Respond(m, "BACKGROUND_COMMAND_STARTED", TRUE, <<>>, 0)
             /\ slot' = [command |-> [op |-> OpName(m), data |-> m.payload.data], progress |-> 0]
  /\ requests' = Tail(requests)
  /\ UNCHANGED <<fm, responses, link, known, exec, lds, history, pbrVars>>

\* What a foreground command answers.
Ok(says, n) == [rc |-> "SUCCESS", says |-> says, n |-> n]
InvalidInput == [rc |-> "INVALID_INPUT", says |-> <<>>, n |-> 0]

\* The status of the background command says nothing of one that has never
\* been: 0 percent of it are done.
BackgroundOperationStatus ==
  Ok([in_progress |-> slot.progress # 100], Bytes(BackgroundOperationStatusResponsePayload))

IdentifySwitchDevice == Ok(<<>>, Bytes(IdentifySwitchDeviceResponsePayload))

GetPhysicalPortState ==
  Ok(<<>>, Bytes(GetPhysicalPortStateResponsePayload) + Cardinality(Ports) * Bytes(PortInfo))

GetConnectedDevices ==
  Ok(<<>>, Bytes(GetConnectedDevicesResponsePayload)
           + Cardinality({p \in Ports : PortKind[p] # "USP"}) * Bytes(DeviceInfo))

GetVirtualCxlSwitchInfo(d) ==
  IF d.vcs >= NumVcss THEN InvalidInput
  ELSE Ok(<<>>, Bytes(GetVirtualCxlSwitchInfoResponsePayload)
                + Bytes(VcsInfoBlock) + NumVppbs * Bytes(PpbInfo))

IdentifyPbrSwitch == Ok(<<>>, Bytes(IdentifyPbrSwitchResponsePayload))

GetPidBindingCommand(d) ==
  Ok([pid |-> GetPidBinding(d.edge)], Bytes(GetPidBindingResponsePayload))

GetDrtCommand(d) ==
  IF GetDrtCode(d) # "SUCCESS" THEN InvalidInput
  ELSE Ok([entries |-> GetDrt(d)], Bytes(GetDrtResponsePayload) + d.n * Bytes(DrtEntryPayload))

SetDrtCommand(d) == IF SetDrtCode(d) # "SUCCESS" THEN InvalidInput ELSE Ok(<<>>, 0)

Result(op, d) ==
  CASE op = "BACKGROUND_OPERATION_STATUS" -> BackgroundOperationStatus
    [] op = "IDENTIFY_SWITCH_DEVICE" -> IdentifySwitchDevice
    [] op = "GET_PHYSICAL_PORT_STATE" -> GetPhysicalPortState
    [] op = "GET_CONNECTED_DEVICES" -> GetConnectedDevices
    [] op = "GET_VIRTUAL_CXL_SWITCH_INFO" -> GetVirtualCxlSwitchInfo(d)
    [] op = "IDENTIFY_PBR_SWITCH" -> IdentifyPbrSwitch
    [] op = "GET_PID_BINDING" -> GetPidBindingCommand(d)
    [] op = "GET_DRT" -> GetDrtCommand(d)
    [] op = "SET_DRT" -> SetDrtCommand(d)

ExecuteForeground ==
  /\ exec.alive /\ exec.now = None /\ Received
  /\ LET m == Head(requests).data
         op == OpName(m)
         result == Result(op, m.payload.data) IN
     /\ ~IsLdCommand(m)
     /\ Known(m) => op \notin BackgroundOps \cup {"CONFIGURE_PID_ASSIGNMENT"}
     /\ IF ~Known(m) THEN Respond(m, "UNSUPPORTED", FALSE, <<>>, 0) /\ UNCHANGED pbrVars
        ELSE /\ Respond(m, result.rc, FALSE, result.says, result.n)
             /\ IF op = "SET_DRT" THEN SetDrt(m.payload.data) ELSE UNCHANGED pbrVars
  /\ requests' = Tail(requests)
  /\ UNCHANGED <<fm, responses, link, known, exec, slot, lds, history>>

\* Configure PID Assignment works through its entries, without a pause, until
\* one fails; what the entries before it did stays.
BeginAssignment ==
  /\ exec.alive /\ exec.now = None /\ Received
  /\ LET m == Head(requests).data IN
     /\ IsOp(m, "CONFIGURE_PID_ASSIGNMENT") /\ Known(m)
     /\ exec' = [exec EXCEPT !.now = m, !.entries = m.payload.data.entries, !.code = "SUCCESS"]
  /\ requests' = Tail(requests)
  /\ UNCHANGED <<fm, responses, answers, link, known, slot, lds, history, pbrVars>>

AssignEntry ==
  /\ exec.now # None /\ exec.entries # <<>> /\ exec.code = "SUCCESS"
  /\ \E e \in Entries :
       LET operation == exec.now.payload.data.operation IN
       /\ e = Head(exec.entries)
       /\ ConfigureEntry(operation, e)
       /\ exec' = [exec EXCEPT !.entries = Tail(@), !.code = ConfigureCode(operation, e)]
  /\ UNCHANGED <<fm, responses, requests, answers, link, known, slot, lds, history>>

EndAssignment ==
  /\ exec.now # None /\ (exec.entries = <<>> \/ exec.code # "SUCCESS")
  /\ Respond(exec.now, exec.code, FALSE, <<>>, 0)
  /\ exec' = [exec EXCEPT !.now = None, !.entries = <<>>, !.code = "SUCCESS"]
  /\ UNCHANGED <<fm, responses, requests, link, known, slot, lds, history, pbrVars>>

\* _process_background_command.  Whether a vPPB can be bound, unbound, frozen
\* or unfrozen is VppbBinding's; binding and unbinding tell the manager of
\* themselves twice.
\* (Mutant: the command is not forgotten.)
FinishedKept == [slot EXCEPT !.progress = 100]
Finished == [command |-> None, progress |-> 100]
Tells == slot.command.op \in {"BIND_VPPB", "UNBIND_VPPB"}
SwitchNotice(tells) ==
  answers' = IF tells THEN Append(answers, Notification("NOTIFY_SWITCH_UPDATE", NotifySwitchUpdateRequestPayload)) ELSE answers

BackgroundBegins ==
  /\ slot.command # None /\ slot.progress = 0
  /\ IF slot.command.op = "CONFIGURE_PID_BINDING"
     THEN ConfigurePidBinding(slot.command.data) /\ slot' = Finished /\ UNCHANGED answers
     ELSE /\ \/ slot' = Finished /\ UNCHANGED answers
             \/ slot' = [slot EXCEPT !.progress = 50] /\ SwitchNotice(Tells)
          /\ UNCHANGED pbrVars
  /\ UNCHANGED <<fm, responses, requests, link, known, exec, lds, history>>

BackgroundEnds ==
  /\ slot.command # None /\ slot.progress = 50
  /\ slot' = Finished
  /\ \E done \in BOOLEAN : SwitchNotice(Tells /\ done)
  /\ UNCHANGED <<fm, responses, requests, link, known, exec, lds, history, pbrVars>>

----------------------------------------------------------------------------
(* Devices, and what comes from them.                                      *)

\* What waits at the port is sent, and read at the other end.
Served(p) == lds[p].task /\ lds[p].device

\* FMLD.  A device that is not multi-logical has no use for the packet: the
\* reader of a memory expander raises, that of another device drops it.  A list
\* that starts beyond the last logical device raises.
DeviceAnswers(p) ==
  /\ Served(p) /\ lds[p].line = "open" /\ lds[p].down # <<>> /\ Head(lds[p].down) # End
  /\ LET q == Head(lds[p].down)
         left == LdCount - q.heads[3].start_ld_id
         limit == q.heads[3].ld_allocation_list_limit
         Up(answer) == /\ lds' = [lds EXCEPT ![p].down = Tail(@), ![p].up = Append(@, answer)]
                       /\ UNCHANGED history
         Dropped(reads) == /\ lds' = [lds EXCEPT ![p].down = Tail(@), ![p].device = reads]
                           /\ history' = [history EXCEPT !.lost = @ \cup {q.data.of}] IN
     IF PortKind[p] # "MLD" THEN \E reads \in BOOLEAN : Dropped(reads)
     ELSE IF LdHead(q).command_opcode = Opcode.GET_LD_INFO
          THEN Up(GetLdInfoResponse(q, LdCount))
          ELSE IF left <= 0 THEN Dropped(FALSE)
               ELSE Up(GetLdAllocationsResponse(q, left, IF limit < left THEN limit ELSE left))
  /\ UNCHANGED <<fm, responses, requests, answers, link, known, exec, slot, pbrVars>>

\* _process_outcoming_responses.  A tag that was not remembered, or whose
\* answer has come already, ends the loop of this port.
PassUp(p) ==
  /\ lds[p].loop /\ lds[p].up # <<>>
  /\ LET q == Head(lds[p].up)
         tag == LdHead(q).message_tag
         tagged == exec.tagged[tag] # None IN
     /\ lds' = [lds EXCEPT ![p].up = Tail(@), ![p].loop = tagged]
     /\ exec' = [exec EXCEPT !.tagged[tag] = None]
     /\ answers' = IF tagged THEN Append(answers, CreateCciMessage(q)) ELSE answers
  /\ UNCHANGED <<fm, responses, requests, link, known, slot, history, pbrVars>>

\* CxlSwitch tells the manager that a port's device has come or gone, and of
\* the devices when it is a downstream port.
PortNotice(p) ==
  <<Notification("NOTIFY_PORT_UPDATE", NotifyPortUpdateRequestPayload)>>
  \o IF PortKind[p] = "USP" THEN <<>>
     ELSE <<Notification("NOTIFY_DEVICE_UPDATE", NotifyDeviceUpdateRequestPayload)>>

MayTurn == history.crashes + history.leaves < MaxTurns

\* A device connects to a port that is free.  Its packet processor gets the
\* FIFOs of the port, with what is still in them.
DeviceComes(p) ==
  /\ lds[p].line = "closed"
  /\ lds' = [lds EXCEPT ![p].line = "open", ![p].task = PortKind[p] # "USP", ![p].device = TRUE]
  /\ answers' = answers \o PortNotice(p)
  /\ UNCHANGED <<fm, responses, requests, link, known, exec, slot, history, pbrVars>>

\* It goes; of its answers those may be lost that the switch has not received.
DeviceLeaves(p) ==
  /\ lds[p].line = "open" /\ MayTurn
  /\ \E k \in 0..Len(lds[p].up) :
       /\ lds' = [lds EXCEPT ![p].line = "gone", ![p].up = SubSeq(@, 1, k)]
       /\ history' = [history EXCEPT !.leaves = @ + 1,
            !.lost = @ \cup {lds[p].up[i].data.of : i \in k + 1..Len(lds[p].up)}]
  /\ UNCHANGED <<fm, responses, requests, answers, link, known, exec, slot, pbrVars>>

\* The reader of the port notices, and leaves a marker behind the commands that
\* wait.  The connection is over when the task for these is, too.
PortReaderEnds(p) ==
  /\ lds[p].line = "gone"
  /\ lds' = [lds EXCEPT ![p].line = IF lds[p].task THEN "ending" ELSE "closed",
                        ![p].down = IF PortKind[p] = "USP" THEN @ ELSE Append(@, End)]
  /\ answers' = IF lds[p].task THEN answers ELSE answers \o PortNotice(p)
  /\ UNCHANGED <<fm, responses, requests, link, known, exec, slot, history, pbrVars>>

\* _process_outgoing_cci_packets has taken what was first, and may end there.
PortTaskTakes(p, ends) ==
  LET over == ends /\ lds[p].line = "ending" IN
  /\ lds' = [lds EXCEPT ![p].down = Tail(@), ![p].task = ~ends,
                        ![p].line = IF over THEN "closed" ELSE @]
  /\ answers' = IF over THEN answers \o PortNotice(p) ELSE answers

\* It sends to nobody: the command is lost.  The write may raise.
WriteToGone(p) ==
  /\ lds[p].task /\ lds[p].line \in {"gone", "ending"}
  /\ lds[p].down # <<>> /\ Head(lds[p].down) # End
  /\ \E raises \in BOOLEAN : PortTaskTakes(p, raises)
  /\ history' = [history EXCEPT !.lost = @ \cup {Head(lds[p].down).data.of}]
  /\ UNCHANGED <<fm, responses, requests, link, known, exec, slot, pbrVars>>

\* It meets a marker and ends, whether that is its own connection's or one that
\* an earlier connection, whose write raised, has left behind.
LineEnds(p) ==
  /\ lds[p].task /\ lds[p].down # <<>> /\ Head(lds[p].down) = End
  /\ PortTaskTakes(p, TRUE)
  /\ UNCHANGED <<fm, responses, requests, link, known, exec, slot, history, pbrVars>>

----------------------------------------------------------------------------
(* The connection, and the death of the manager.                           *)

\* The commands whose request or answer is under way
IsAnswer(x) == x.type # "END" /\ ~IsNotification(x.data)
Waiting(p) == {q.data.of : q \in {lds[p].down[i] : i \in DOMAIN lds[p].down} \ {End}}
Below(p) == Waiting(p) \cup {lds[p].up[i].data.of : i \in DOMAIN lds[p].up}
Answering == {y \in {answers[i] : i \in DOMAIN answers} : IsAnswer(y)}
UnderWay ==
  {requests[i].data.payload.of : i \in DOMAIN requests}
  \cup {m.payload.of : m \in {exec.now} \ {None}}
  \cup (UNION {Below(p) : p \in Ports})
  \cup {x.data.payload.of : x \in Answering}

\* The manager dies, and is started again.  Of what it had sent the switch
\* has read the first so many requests and will read no more; of the answers
\* the last so many had not left the switch's queue.
Crash ==
  /\ link = "up" /\ MayTurn
  /\ fm' = Booted(fm.boot + 1) /\ responses' = NoResponses
  /\ \E k \in 0..Len(requests) : requests' = SubSeq(requests, 1, k)
  /\ \E k \in 0..Len(answers) : answers' = SubSeq(answers, k + 1, Len(answers))
  /\ link' = "gone"
  /\ UNCHANGED <<known, exec, slot, lds, pbrVars>>
  /\ history' = [history EXCEPT !.crashes = @ + 1, !.orphans = @ \cup UnderWay']

\* The switch's reader meets the end of the stream and puts the end marker
\* behind the answers that wait to be sent.
\* (Mutant: it puts none.)
ReaderEndsSilent ==
  /\ link = "gone" /\ link' = "ending"
  /\ UNCHANGED <<fm, responses, requests, answers, known, exec, slot, lds, history, pbrVars>>
ReaderEnds ==
  /\ link = "gone"
  /\ link' = "ending" /\ answers' = Append(answers, End)
  /\ UNCHANGED <<fm, responses, requests, known, exec, slot, lds, history, pbrVars>>

\* The writer sends to nobody.  The answer is lost; once the other side has
\* refused one, the next write raises, and the client, which still has its
\* packet processor, takes that for a normal end and never connects again.
WriteToDead ==
  /\ link \in {"gone", "ending"} /\ answers # <<>> /\ Head(answers).type # "END"
  /\ answers' = Tail(answers)
  /\ link' \in {link, "over"}
  /\ UNCHANGED <<fm, responses, requests, known, exec, slot, lds, history, pbrVars>>

WriterEnds ==
  /\ link = "ending" /\ answers # <<>> /\ Head(answers).type = "END"
  /\ answers' = Tail(answers) /\ link' = "closed"
  /\ UNCHANGED <<fm, responses, requests, known, exec, slot, lds, history, pbrVars>>

\* What waits in the queue by now, whoever asked for it, goes to the manager
\* that runs now.
Connect ==
  /\ link = "closed" /\ link' = "up"
  /\ UNCHANGED <<fm, responses, requests, answers, known, exec, slot, lds, history, pbrVars>>

----------------------------------------------------------------------------
(* Specification.                                                          *)

Manager == SendCommand \/ Deliver \/ TakeAnswer
Executor == \/ PassDown \/ SubmitBackground \/ ExecuteForeground
            \/ BeginAssignment \/ AssignEntry \/ EndAssignment
Background == BackgroundBegins \/ BackgroundEnds
Link == ReaderEnds \/ WriteToDead \/ WriterEnds \/ Connect
PortTasks(p) == \/ DeviceAnswers(p) \/ PassUp(p)
                \/ PortReaderEnds(p) \/ WriteToGone(p) \/ LineEnds(p)
Tasks == Manager \/ Executor \/ Background \/ Link \/ \E p \in Ports : PortTasks(p)

Next ==
  \/ \E e \in Events : HandleEvent(e)
  \/ Tasks \/ Crash
  \/ \E p \in Ports : DeviceComes(p) \/ DeviceLeaves(p)

\* As long as a task of the manager, the switch or a device can run, one does;
\* between two events, crashes or turns of a device their steps are finitely
\* many, since every answer awaited fills one more place of `responses`: no
\* task can starve another.  Events, crashes and devices that come and go need
\* not be.
Fairness == WF_vars(Tasks)

Spec == Init /\ [][Next]_vars /\ Fairness

----------------------------------------------------------------------------
(* Properties.                                                             *)

Ids == (0..MaxTurns) \X {0, 1} \X Tags
TypeOK ==
  /\ PbrTypeOK
  /\ fm.boot \in 0..MaxTurns /\ fm.lap \in {0, 1} /\ fm.tag \in Tags
  /\ fm.at \in {"idle", "send", "wait", "stale"}
  /\ fm.at = "idle" <=> fm.todo = <<>>
  /\ fm.asked \in Ids \cup {None} /\ fm.took \in Ids \cup {None}
  /\ fm.identity \in BOOLEAN /\ fm.sized \in BOOLEAN
  /\ \A t \in Tags : responses[t] = None \/ Tag(responses[t]) = t
  /\ link \in {"closed", "up", "gone", "ending", "over"}
  /\ exec.alive \in BOOLEAN /\ exec.tagged \in [Tags -> Ports \cup {None}]
  /\ slot.progress \in {0, 50, 100} /\ (slot.command # None => slot.progress # 100)
  /\ \A p \in Ports : /\ lds[p].device \in BOOLEAN /\ lds[p].loop \in BOOLEAN
                      /\ lds[p].line \in {"closed", "open", "gone", "ending"}
                      /\ lds[p].task \in BOOLEAN /\ (lds[p].line = "closed" => ~lds[p].task)
  /\ history.orphans \subseteq Ids /\ history.lost \subseteq Ids

\* A caller of the API client gets the answer to its own command, whichever of
\* the executor, a device or the background answered and in whatever order,
\* with two exceptions.  A command that was under way when the manager died can
\* leave an answer that one of the next manager, with the same tag, takes for
\* its own; and once the tags of one start have come round, a command takes the
\* answer to an earlier one with its tag
\* (MctpCciApiClient._get_response, MctpConnectionClient's queue).
OwnAnswers ==
  fm.took # None => \/ fm.took = fm.asked
                    \/ fm.took \in history.orphans
                    \/ /\ fm.asked[2] = 1
                       /\ fm.took[1] = fm.boot /\ fm.took[3] = fm.asked[3]

\* The command the manager waits for will not be answered: it has met no or
\* the wrong device, or waits at a port where nothing is sent or nobody reads.
Unanswered ==
  /\ fm.at = "wait"
  /\ \/ fm.asked \in history.lost
     \/ \E p \in Ports : fm.asked \in Waiting(p) /\ ~Served(p)

\* What keeps the manager from ever ending an event: such a command, for which
\* it has no timeout; polls that make it spin; a connection that is not opened
\* again; an executor or a port's loop that raised.
Broken ==
  \/ Unanswered \/ Spinning
  \/ link = "over" \/ ~exec.alive \/ \E p \in Ports : ~lds[p].loop

\* Every event a user sends is dealt with, so that the next one may be, unless
\* something of the above has happened to it: a command that is neither lost
\* nor waits where nobody serves it is answered, and one that nobody answers
\* holds the event lock for ever
\* (FabricManagerSocketIoServer._handle_event).
Answered == fm.at # "idle" ~> fm.at = "idle" \/ Broken
=============================================================================
