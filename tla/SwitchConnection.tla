-------------------------- MODULE SwitchConnection --------------------------
(***************************************************************************)
(* A port of the switch and the clients that want it: the handshake of     *)
(* SwitchConnectionManager and SwitchConnectionClient, and the             *)
(* CxlPacketProcessors that then move packets between the FIFOs of the     *)
(* port, a TCP connection and the FIFOs of the device.                     *)
(*                                                                         *)
(* A processor is one task that reads the connection and one task per FIFO *)
(* that writes to it.  They share a table of the CXL.io transactions that  *)
(* wait for completion.  When reading fails, a notification in every FIFO  *)
(* ends the other tasks; when writing fails, the processor fails, and its  *)
(* remaining tasks live on.                                                *)
(*                                                                         *)
(* Ports share nothing but the server, so there is one.  A FIFO whose      *)
(* packets are only ever taken out at once is left out: the host takes     *)
(* what arrives, and the device answers what arrives, in the same step.    *)
(***************************************************************************)
EXTENDS IoManagers

CONSTANTS
  Clients,       \* the programs that connect to the port
  Kinds,         \* the packets the host sends, among those of Request
  Channels,      \* the FIFOs of the port that matter
  TypeOf,        \* per client, its component type
  Openings,      \* per client, the packets it may open a connection with
  Retry,         \* the clients that retry a failed handshake
  None,          \* Python's None
  MaxConns,      \* bound: connections made
  MaxSent,       \* bound: packets of the host
  Tags           \* bound: tags before the counter wraps, 256 in the code

Conns == 1 .. MaxConns
Port == 0      \* the index of the port, the only valid one

ASSUME ConnectionAssumption ==
  /\ MaxConns \in Nat /\ MaxSent \in Nat /\ Tags \in 1 .. 256
  /\ Clients \subseteq DOMAIN TypeOf /\ Channels \subseteq {"cfg", "mmio", "mem", "cache"}
  /\ Retry \subseteq Clients /\ Kinds \subseteq {"CfgRd", "MemRd", "MemWr", "MemRdReq"}
  /\ None \notin Conns /\ None \notin {"cfg", "mmio", "mem", "cache"}

VARIABLES
  conn,      \* per connection, see NoConn
  connected, \* SwitchPort.connected
  fifo,      \* the port's FIFOs towards the device
  client,    \* per client, its status, connection, tasks, table and FIFOs
  tag,       \* IoBridge._next_tag for configuration, CxlIoBasePacket.tag for MMIO
  sent,      \* how many packets the host has sent
  waiting,   \* the tags of the requests the host waits for
  history    \* what happened that the code does not guard against

vars == <<conn, connected, fifo, client, tag, sent, waiting, history>>

\* The FIFOs a processor serves, by the type of its component
FifosOf(type) ==
  {"cfg", "mmio"} \cup (IF type \in {"R", "DSP", "USP", "T1", "T2"} THEN {"cache"} ELSE {})
                  \cup (IF type \in {"R", "DSP", "USP", "T2", "D2", "LD"} THEN {"mem"} ELSE {})
ChannelsOf == [c \in Clients |-> FifosOf(TypeOf[c]) \cap Channels]

NoConn == [client |-> None, phase |-> "none", peer |-> "none", closed |-> FALSE,
           incoming |-> FALSE, tasks |-> {}, tlp |-> {}, toServer |-> <<>>, toClient |-> <<>>]
NoClient == [status |-> "STOPPED", conn |-> None, incoming |-> FALSE, tasks |-> {}, tlp |-> {},
             fifo |-> [ch \in Channels |-> <<>>]]

Init ==
  /\ conn = [k \in Conns |-> NoConn]
  /\ connected = FALSE
  /\ fifo = [ch \in Channels |-> <<>>]
  /\ client = [c \in Clients |-> NoClient]
  /\ tag = [cfg |-> 0, mmio |-> 0] /\ sent = 0 /\ waiting = {}
  /\ history = {}

----------------------------------------------------------------------------
(* Helpers.                                                                *)

Notification == Sideband(CONNECTION_DISCONNECTED)
Notified(queues) == [ch \in DOMAIN queues |-> Append(queues[ch], Notification)]
NotifiedOf(queues, S) == [ch \in DOMAIN queues |-> IF ch \in S THEN Append(queues[ch], Notification) ELSE queues[ch]]

\* What a processor does with a CXL.io packet's transaction: requests that
\* will be answered enter the table, completions leave it.
Enters(p) == IsCfgType0(p) \/ IsCfgType1(p) \/ IsMemRead(p)
Leaves(p) == IsCompletion(p)

\* _push_tlp_table_entry and _pop_tlp_table_entry raise for a transaction
\* that is there already, or is not.
TlpFails(p, tlp) ==
  \/ Enters(p) /\ TransactionId(p) \in tlp
  \/ Leaves(p) /\ TransactionId(p) \notin tlp

\* (Mutant: completions stay in the table.)
TlpKept(p, tlp) == IF Enters(p) THEN tlp \cup {TransactionId(p)} ELSE tlp
TlpAfter(p, tlp) ==
  IF Enters(p) THEN tlp \cup {TransactionId(p)}
  ELSE IF Leaves(p) THEN tlp \ {TransactionId(p)} ELSE tlp

\* The FIFO a packet belongs to
ChannelOf(p) ==
  CASE p.type = "CXL_IO" /\ IsMmio(p) -> "mmio"
    [] p.type = "CXL_IO" /\ ~IsMmio(p) -> "cfg"
    [] p.type = "CXL_MEM" -> "mem"
    [] p.type = "CXL_CACHE" -> "cache"
    [] OTHER -> None

\* The packets of the host, with the next tag where they have one
Request(kind, t) ==
  CASE kind = "CfgRd" -> CfgRd([id |-> 256, addr |-> 0, size |-> 4, type0 |-> TRUE, req_id |-> 0, tag |-> t, ld_id |-> 0])
    [] kind = "MemRd" -> MemRd([addr |-> 4096, length |-> 8, req_id |-> 0, tag |-> t, ld_id |-> 0])
    [] kind = "MemWr" -> MemWr([addr |-> 4096, length |-> 8, data |-> 1, req_id |-> 0, tag |-> t, ld_id |-> 0])
    [] kind = "MemRdReq" -> MemRdReq(64, 1, 3, 2, 0, 0)

\* The device's managers answer a request.
Answers(p) ==
  CASE IsCfgRead(p)  -> <<CfgReadDone(p, 0)>>
    [] IsMemRead(p)  -> <<MmioReadDone(p, 0)>>
    [] IsMem(p, {"M2S_REQ"}) -> <<MemData(0, 0, 3, 2, p.heads[2].ld_id)>>
    [] OTHER -> <<>>

Fresh == Cardinality({k \in Conns : conn[k].phase # "none"}) + 1

\* The connection can no longer be written to: the transport is closing.
Dead(k) == conn[k].closed \/ conn[k].peer = "reset"

----------------------------------------------------------------------------
(* The server.                                                             *)

IsConnectionRequest(p) == Readable(p) /\ IsSideband(p, CONNECTION_REQUEST)

\* A packet the processor cannot go on after: PacketReader raises, or there is
\* no FIFO for it, or its transaction is unknown.
Bad(p, tlp) == ~Readable(p) \/ ChannelOf(p) = None \/ TlpFails(p, tlp)

\* (Mutant: nobody looks whether the port is connected.)
AcceptsAny(p) == IsConnectionRequest(p) /\ p.heads[2].port = Port
Accepts(p) == IsConnectionRequest(p) /\ p.heads[2].port = Port /\ ~connected

Closed(r) == [r EXCEPT !.phase = "closed", !.closed = TRUE]

\* (Mutant: a request for a port that is connected waits for it.)
RejectBad(k) ==
  /\ conn[k].phase = "asked" /\ conn[k].toServer # <<>> /\ ~AcceptsAny(Head(conn[k].toServer))
  /\ conn' = [conn EXCEPT ![k] = Closed([conn[k] EXCEPT
       !.toServer = <<>>, !.toClient = Append(@, Sideband(CONNECTION_REJECT))])]
  /\ UNCHANGED <<connected, fifo, client, tag, sent, waiting, history>>

\* _wait_for_connection_request fails: the handler rejects and returns, and
\* the server closes the connection.
Reject(k) ==
  /\ conn[k].phase = "asked"
  /\ \/ conn[k].toServer # <<>> /\ ~Accepts(Head(conn[k].toServer))
     \/ conn[k].peer = "reset" \/ (conn[k].peer = "eof" /\ conn[k].toServer = <<>>)
  /\ conn' = [conn EXCEPT ![k] = Closed([conn[k] EXCEPT
       !.toServer = <<>>, !.toClient = Append(@, Sideband(CONNECTION_REJECT))])]
  /\ UNCHANGED <<connected, fifo, client, tag, sent, waiting, history>>

\* The confirmation is written; drain suspends only if the client has reset
\* the connection.  Otherwise the port is taken and the processor runs.
Accept(k) ==
  /\ conn[k].phase = "asked" /\ conn[k].toServer # <<>> /\ Accepts(Head(conn[k].toServer))
  /\ IF conn[k].peer = "reset"
     THEN /\ conn' = [conn EXCEPT ![k].phase = "draining", ![k].toServer = <<>>]
          /\ history' = history \cup {"dropped"}
          /\ UNCHANGED connected
     ELSE /\ conn' = [conn EXCEPT ![k].phase = "running", ![k].toServer = Tail(@),
                                  ![k].toClient = Append(@, Sideband(CONNECTION_ACCEPT)),
                                  ![k].incoming = TRUE, ![k].tasks = FifosOf("DSP") \cap Channels]
          /\ connected' = TRUE
          /\ UNCHANGED history
  /\ UNCHANGED <<fifo, client, tag, sent, waiting>>

\* drain raises: the handler marks the port free, whoever has it by now.
DrainFails(k) ==
  /\ conn[k].phase = "draining"
  /\ conn' = [conn EXCEPT ![k] = Closed(@)]
  /\ connected' = FALSE
  /\ UNCHANGED <<fifo, client, tag, sent, waiting, history>>

\* _process_incoming_packets takes a packet, unless its transaction is
\* unknown.
ServerTake(k) ==
  /\ conn[k].incoming /\ conn[k].peer # "reset" /\ conn[k].toServer # <<>>
  /\ LET p == Head(conn[k].toServer) IN
       /\ ~Bad(p, conn[k].tlp)
       /\ conn' = [conn EXCEPT ![k].toServer = Tail(@), ![k].tlp = TlpAfter(p, @)]
       /\ waiting' = IF IsCompletion(p) THEN waiting \ {p.heads[3].tag} ELSE waiting
  /\ UNCHANGED <<connected, fifo, client, tag, sent, history>>

\* (Mutant: the tasks that write are not told.)
ServerForgets(k) == fifo
ServerNotifies(k) == Notified(fifo)

\* Reading fails: a bad packet, or the end of the connection.
ServerLosesReader(k) ==
  /\ conn[k].incoming
  /\ LET bad == conn[k].toServer # <<>> /\ Bad(Head(conn[k].toServer), conn[k].tlp) IN
       /\ conn[k].peer = "reset" \/ bad
            \/ (conn[k].toServer = <<>> /\ (conn[k].peer = "eof" \/ conn[k].closed))
       /\ history' = IF bad /\ conn[k].peer # "reset" THEN history \cup {"unpaired"} ELSE history
  /\ fifo' = ServerNotifies(k)
  /\ conn' = [conn EXCEPT ![k].incoming = FALSE, ![k].toServer = <<>>]
  /\ UNCHANGED <<connected, client, tag, sent, waiting>>

\* _process_outgoing_..._packets writes the next packet of its FIFO, or ends
\* with a notification.  What is written behind the client's end of file is
\* lost, and the client's host answers it with a reset.
ServerSend(k, ch) ==
  /\ ch \in conn[k].tasks /\ fifo[ch] # <<>>
  /\ LET p == Head(fifo[ch]) IN
       \/ /\ p = Notification
          /\ conn' = [conn EXCEPT ![k].tasks = @ \ {ch}]
       \/ /\ p # Notification /\ ~TlpFails(p, conn[k].tlp) /\ ~Dead(k)
          /\ conn' = [conn EXCEPT
               ![k].tlp = TlpAfter(p, @),
               ![k].peer = IF @ = "eof" THEN "reset" ELSE @,
               ![k].toClient = IF conn[k].peer = "open" THEN Append(@, p) ELSE @]
  /\ fifo' = [fifo EXCEPT ![ch] = Tail(@)]
  /\ UNCHANGED <<connected, client, tag, sent, waiting, history>>

\* A task raises: its packet is lost.  If its handler still waits for it, the
\* port is free at once and the server closes the connection; the other tasks
\* of the processor are not ended.
ServerTaskFails(k, ch) ==
  /\ ch \in conn[k].tasks /\ fifo[ch] # <<>>
  /\ LET p == Head(fifo[ch]) IN
       /\ p # Notification /\ (TlpFails(p, conn[k].tlp) \/ Dead(k))
       /\ history' = history \cup {IF TlpFails(p, conn[k].tlp) THEN "unpaired" ELSE "unsent"}
  /\ fifo' = [fifo EXCEPT ![ch] = Tail(@)]
  /\ conn' = [conn EXCEPT ![k] = IF conn[k].phase = "running" THEN Closed([conn[k] EXCEPT !.tasks = @ \ {ch}])
                                 ELSE [conn[k] EXCEPT !.tasks = @ \ {ch}]]
  /\ connected' = IF conn[k].phase = "running" THEN FALSE ELSE connected
  /\ UNCHANGED <<client, tag, sent, waiting>>

\* All tasks have ended: the handler returns.
\* (Mutant: the port stays marked as connected.)
KeepPort == connected
FreePort == FALSE

ServerEnds(k) ==
  /\ conn[k].phase = "running" /\ ~conn[k].incoming /\ conn[k].tasks = {}
  /\ conn' = [conn EXCEPT ![k] = Closed(@)]
  /\ connected' = FreePort
  /\ UNCHANGED <<fifo, client, tag, sent, waiting, history>>

----------------------------------------------------------------------------
(* A client.                                                               *)

\* The program is started: new FIFOs
ClientStart(c) ==
  /\ client[c].status = "STOPPED" /\ client[c].conn = None /\ Fresh <= MaxConns
  /\ client' = [client EXCEPT ![c] = [NoClient EXCEPT !.status = "STARTING"]]
  /\ UNCHANGED <<conn, connected, fifo, tag, sent, waiting, history>>

\* _connect opens a connection and sends its request.
Connect(c) ==
  /\ client[c].status = "STARTING" /\ client[c].conn = None /\ Fresh <= MaxConns
  /\ \E p \in Openings[c] :
       conn' = [conn EXCEPT ![Fresh] = [NoConn EXCEPT
         !.client = c, !.phase = "asked", !.peer = "open", !.toServer = <<p>>]]
  /\ client' = [client EXCEPT ![c].conn = Fresh]
  /\ UNCHANGED <<connected, fifo, tag, sent, waiting, history>>

Answered(c) == client[c].status = "STARTING" /\ client[c].conn # None
Reply(c) == conn[client[c].conn].toClient

Confirmed(c) ==
  /\ Answered(c) /\ Reply(c) # <<>> /\ IsSideband(Head(Reply(c)), CONNECTION_ACCEPT)
  /\ conn' = [conn EXCEPT ![client[c].conn].toClient = Tail(@)]
  /\ client' = [client EXCEPT ![c].status = "RUNNING", ![c].incoming = TRUE, ![c].tasks = ChannelsOf[c]]
  /\ UNCHANGED <<connected, fifo, tag, sent, waiting, history>>

\* The handshake failed: another try after a second, or the end.
Refused(c) ==
  /\ Answered(c)
  /\ IF Reply(c) = <<>> THEN conn[client[c].conn].closed
     ELSE ~IsSideband(Head(Reply(c)), CONNECTION_ACCEPT)
  /\ conn' = [conn EXCEPT ![client[c].conn].peer = "eof", ![client[c].conn].toClient = <<>>]
  /\ client' = [client EXCEPT ![c].conn = None,
                              ![c].status = IF c \in Retry THEN "STARTING" ELSE "STOPPED"]
  /\ UNCHANGED <<connected, fifo, tag, sent, waiting, history>>

\* After two minutes of failures the client gives up.
ClientTimesOut(c) ==
  /\ client[c].status = "STARTING" /\ client[c].conn = None
  /\ client' = [client EXCEPT ![c].status = "STOPPED"]
  /\ UNCHANGED <<conn, connected, fifo, tag, sent, waiting, history>>

\* A packet reaches the device; one that has no FIFO there is dropped.  The
\* device's answers enter the FIFO.
ClientTake(c) ==
  /\ client[c].incoming /\ Reply(c) # <<>>
  /\ LET p == Head(Reply(c))
         ch == ChannelOf(p) IN
       /\ ~Bad(p, client[c].tlp)
       /\ conn' = [conn EXCEPT ![client[c].conn].toClient = Tail(@)]
       /\ client' = [client EXCEPT ![c].tlp = TlpAfter(p, @),
                                   ![c].fifo[ch] = IF ch \in ChannelsOf[c] THEN @ \o Answers(p) ELSE @]
  /\ UNCHANGED <<connected, fifo, tag, sent, waiting, history>>

\* Reading fails, or stop aborts it.
ClientLosesReader(c) ==
  /\ client[c].incoming
  /\ LET bad == Reply(c) # <<>> /\ Bad(Head(Reply(c)), client[c].tlp) IN
       /\ bad \/ (Reply(c) = <<>> /\ conn[client[c].conn].closed)
       /\ history' = IF bad THEN history \cup {"unpaired"} ELSE history
  /\ client' = [client EXCEPT ![c].incoming = FALSE, ![c].fifo = NotifiedOf(@, ChannelsOf[c])]
  /\ UNCHANGED <<conn, connected, fifo, tag, sent, waiting>>

\* stop aborts the reader; the connection stays open until the program ends.
ClientStop(c) ==
  /\ client[c].status = "RUNNING" /\ client[c].incoming
  /\ client' = [client EXCEPT ![c].status = "STOPPING", ![c].incoming = FALSE,
                              ![c].fifo = NotifiedOf(@, ChannelsOf[c])]
  /\ UNCHANGED <<conn, connected, fifo, tag, sent, waiting, history>>

ClientSend(c, ch) ==
  /\ ch \in client[c].tasks /\ client[c].fifo[ch] # <<>>
  /\ LET p == Head(client[c].fifo[ch])
         k == client[c].conn IN
       \/ /\ p = Notification
          /\ client' = [client EXCEPT ![c].tasks = @ \ {ch}, ![c].fifo[ch] = Tail(@)]
          /\ UNCHANGED <<conn, history>>
       \/ /\ p # Notification /\ ~TlpFails(p, client[c].tlp) /\ ~conn[k].closed
          /\ client' = [client EXCEPT ![c].tlp = TlpAfter(p, @), ![c].fifo[ch] = Tail(@)]
          /\ conn' = [conn EXCEPT ![k].toServer = Append(@, p)]
          /\ UNCHANGED history
       \/ \* the task raises, and the processor and the client with it
          /\ p # Notification /\ (TlpFails(p, client[c].tlp) \/ conn[k].closed)
          /\ client' = [client EXCEPT ![c].tasks = @ \ {ch}, ![c].fifo[ch] = Tail(@), ![c].status = "STOPPED"]
          /\ history' = IF TlpFails(p, client[c].tlp) THEN history \cup {"unpaired"} ELSE history
          /\ UNCHANGED conn
  /\ UNCHANGED <<connected, fifo, tag, sent, waiting>>

\* All tasks of the processor have ended.
ClientEnds(c) ==
  /\ client[c].status \in {"RUNNING", "STOPPING"} /\ ~client[c].incoming /\ client[c].tasks = {}
  /\ client' = [client EXCEPT ![c].status = "STOPPED"]
  /\ UNCHANGED <<conn, connected, fifo, tag, sent, waiting, history>>

\* The program ends, or is killed: its socket is closed, or reset.
ClientExits(c) ==
  /\ client[c].conn # None
  /\ \E how \in {"eof", "reset"} : conn' = [conn EXCEPT ![client[c].conn].peer = how, ![client[c].conn].toClient = <<>>]
  /\ client' = [client EXCEPT ![c] = NoClient]
  /\ UNCHANGED <<connected, fifo, tag, sent, waiting, history>>

----------------------------------------------------------------------------
(* The host puts a packet into the port's FIFO, connected or not.          *)

\* (Mutant: the counter does not wrap.)
NextTagUnbound(t) == t + 1
NextTag(t) == (t + 1) % Tags

Counter(kind) == IF kind = "CfgRd" THEN "cfg" ELSE "mmio"

HostSend(kind) ==
  /\ sent < MaxSent
  /\ LET t == tag[Counter(kind)]
         p == Request(kind, t) IN
       /\ fifo' = [fifo EXCEPT ![ChannelOf(p)] = Append(@, p)]
       /\ tag' = IF p.type = "CXL_IO" THEN [tag EXCEPT ![Counter(kind)] = NextTag(t)] ELSE tag
       /\ history' = IF Enters(p) /\ t \in waiting THEN history \cup {"reused"} ELSE history
       /\ waiting' = IF Enters(p) THEN waiting \cup {t} ELSE waiting
  /\ sent' = sent + 1
  /\ UNCHANGED <<conn, connected, client>>

ServerStep(k) ==
  \/ Reject(k) \/ Accept(k) \/ DrainFails(k) \/ ServerTake(k) \/ ServerLosesReader(k) \/ ServerEnds(k)
  \/ \E ch \in Channels : ServerSend(k, ch) \/ ServerTaskFails(k, ch)

ClientStep(c) ==
  \/ Connect(c) \/ Confirmed(c) \/ Refused(c) \/ ClientTake(c) \/ ClientLosesReader(c) \/ ClientEnds(c)
  \/ \E ch \in Channels : ClientSend(c, ch)

Next ==
  \/ \E k \in Conns : ServerStep(k)
  \/ \E c \in Clients : ClientStep(c) \/ ClientStart(c) \/ ClientTimesOut(c) \/ ClientStop(c) \/ ClientExits(c)
  \/ \E kind \in Kinds : HostSend(kind)

\* Every task that can go on does.
Fairness ==
  /\ \A k \in Conns :
       /\ WF_vars(Reject(k)) /\ WF_vars(Accept(k)) /\ WF_vars(DrainFails(k)) /\ WF_vars(ServerTake(k))
       /\ WF_vars(ServerLosesReader(k)) /\ WF_vars(ServerEnds(k))
       /\ \A ch \in Channels : WF_vars(ServerSend(k, ch)) /\ WF_vars(ServerTaskFails(k, ch))
  /\ \A c \in Clients :
       /\ WF_vars(Connect(c)) /\ WF_vars(Confirmed(c)) /\ WF_vars(Refused(c)) /\ WF_vars(ClientTake(c))
       /\ WF_vars(ClientLosesReader(c)) /\ WF_vars(ClientEnds(c))
       /\ \A ch \in Channels : WF_vars(ClientSend(c, ch))

Spec == Init /\ [][Next]_vars /\ Fairness
----------------------------------------------------------------------------
(* Properties.                                                             *)

\* All variables have their types (switch_connection_manager.py,
\* switch_connection_client.py, cxl_packet_processor.py).
TypeOK ==
  /\ \A k \in Conns :
       /\ conn[k].client \in Clients \cup {None}
       /\ conn[k].phase \in {"none", "asked", "draining", "running", "closed"}
       /\ conn[k].peer \in {"none", "open", "eof", "reset"}
       /\ conn[k].closed \in BOOLEAN /\ conn[k].incoming \in BOOLEAN
       /\ conn[k].tasks \subseteq Channels /\ conn[k].tlp \subseteq 0 .. 255
  /\ connected \in BOOLEAN
  /\ DOMAIN fifo = Channels
  /\ \A c \in Clients :
       /\ client[c].status \in {"STOPPED", "STARTING", "RUNNING", "STOPPING"}
       /\ client[c].conn \in Conns \cup {None}
       /\ client[c].incoming \in BOOLEAN /\ client[c].tasks \subseteq ChannelsOf[c]
       /\ client[c].tlp \subseteq 0 .. 255
  /\ tag \in [{"cfg", "mmio"} -> 0 .. Tags - 1] /\ sent \in 0 .. MaxSent /\ waiting \subseteq 0 .. Tags - 1
  /\ history \subseteq {"dropped", "unsent", "unpaired", "reused"}

Running == {k \in Conns : conn[k].phase = "running"}

\* A port has one connection at a time, and is marked connected exactly while
\* it has one, although it is tested before an await and marked after it.  A
\* client that resets its connection during the handshake ("dropped") breaks
\* this: the end of its handler frees the port of whoever has it by then.
OnePerPort ==
  "dropped" \notin history => Cardinality(Running) <= 1 /\ connected = (Running # {})

NotificationsIn(queue) == {i \in DOMAIN queue : queue[i] = Notification}

\* A FIFO of the port is read by one task at a time, and the notifications in
\* it are for that task: none is left for the connection that comes next.
\* This holds as long as no task that writes fails, which leaves the others
\* of its processor behind.
OneReader ==
  history \cap {"dropped", "unsent", "unpaired"} = {} =>
    \A ch \in Channels :
      /\ Cardinality({k \in Conns : ch \in conn[k].tasks}) <= 1
      /\ Cardinality(NotificationsIn(fifo[ch])) =
           Cardinality({k \in Conns : ch \in conn[k].tasks /\ ~conn[k].incoming})

\* Completions always find the transaction of their request in the tables of
\* both processors, and requests never find theirs there, whatever was lost
\* before, unless the host uses a tag again while it still waits for it: the
\* tags of configuration and MMIO requests are counted apart, and an MMIO read
\* that the host gave up stays in the table.
TagsPaired == "reused" \notin history => "unpaired" \notin history

\* Once the client of a connection is gone, the connection's handler ends, and
\* with it the port's mark.
Freed == \A k \in Conns : (conn[k].phase = "running" /\ conn[k].peer # "open") ~> conn[k].phase = "closed"

\* A client that waits for an answer to its request gets one, whether or not
\* the port is free, as long as it stays.
HandshakeEnds == \A c \in Clients : Answered(c) ~> ~Answered(c)
\* The arguments the program gives to the creators of packets, at their limits
Ids == {0, 256, 2047, 65535}
CfgArgs ==
  {a \in [id : Ids, addr : {0, 1, 2, 3, 62, 255, 256, 4092, 4095}, size : 1 .. 4, value : {1, 127},
          type0 : BOOLEAN, req_id : {0, 65535}, tag : {0, 255}, ld_id : {0, 15}] : CfgLegal(a)}
MemArgs == [addr : {0, 1, 3, 252, 4093, 65540}, length : 1 .. 9 \cup {64, 1000}, data : {1},
            req_id : {0, 65535}, tag : {0, 255}, ld_id : {0, 15}]
Lines == {0, 64, 4096}
MaxId == 15

CfgRead(p, a) ==
  /\ WriteInfo(p) = [addr |-> a.addr, size |-> a.size] /\ CfgValue(p) = a.value
  /\ DestId(p) = a.id /\ ReqId(p) = a.req_id /\ TagOf(p) = a.tag /\ LdId(p) = a.ld_id
  /\ BusOf(p) * 256 + DeviceOf(p) * 8 + FunctionOf(p) = a.id

MemReadBack(p, a) ==
  /\ GetAddress(p) <= a.addr /\ a.addr + a.length <= GetAddress(p) + GetDataSize(p)
  /\ GetDataSize(p) < a.length + 7
  /\ ReqId(p) = a.req_id /\ TagOf(p) = a.tag /\ LdId(p) = a.ld_id

CfgFit == \A a \in CfgArgs : CfgRead(CfgWr(a), a)
MmioFit == \A a \in MemArgs : MemReadBack(MemRd(a), a) /\ MemReadBack(MemWr(a), a)

CacheFit ==
  /\ \A addr \in Lines, id \in {0, MaxId} :
       /\ \A op \in D2HReqOpcodes :
            LET p == D2HReq(addr, id, op, 4095) IN
            LineAddress(p) = addr /\ p.heads[2].cache_id = id /\ p.heads[2].cache_opcode = op
       /\ \A op \in H2DReqOpcodes :
            LET p == H2DReq(addr, id, op) IN
            LineAddress(p) = addr /\ p.heads[2].cache_id = id /\ p.heads[2].cache_opcode = op
  /\ \A op \in D2HRspOpcodes : D2HRsp(1, op).heads[2].cache_opcode = op
  /\ \A op \in H2DRspOpcodes, state \in H2DRspStates :
       LET p == H2DRsp(MaxId, op, state, 1) IN
       p.heads[2].cache_opcode = op /\ p.heads[2].rsp_data = state /\ p.heads[2].cache_id = MaxId
  /\ D2HData(4095, 1).heads[2].uqid = 4095 /\ H2DData(MaxId, 1, 4095).heads[2].cqid = 4095

ReadsFit(addr, id) ==
  \A op \in M2SReqOpcodes, f \in MetaFields, v \in MetaValues, s \in SnpTypes :
    LET p == MemRdReq(addr, op, f, v, s, id) IN
    /\ LineAddress(p) = addr /\ p.heads[2].mem_opcode = op /\ p.heads[2].ld_id = id
    /\ p.heads[2].meta_field = f /\ p.heads[2].meta_value = v /\ p.heads[2].snp_type = s
WritesFit(addr, id) ==
  \A op \in M2SRwDOpcodes, s \in SnpTypes :
    LET p == MemWrReq(addr, 1, op, 0, 2, s, id) IN
    LineAddress(p) = addr /\ p.heads[2].mem_opcode = op /\ p.heads[2].snp_type = s
SnoopsFit(addr, id) ==
  \A op \in BISnpOpcodes, n \in {0, 4095, 4096} :
    LET p == BISnp(addr, op, id, n) IN
    /\ LineAddress(p) = addr /\ p.heads[2].opcode = op
    /\ BIRsp(op, id, p.heads[2].bi_tag).heads[2].bi_tag = n % 4096
MemFit ==
  /\ \A addr \in Lines, id \in {0, MaxId} : ReadsFit(addr, id) /\ WritesFit(addr, id) /\ SnoopsFit(addr, id)
  /\ \A op \in BIRspOpcodes : BIRsp(op, 1, 1).heads[2].opcode = op
  /\ \A op \in NDROpcodes, v \in MetaValues :
       MemCmp(op, 0, v, MaxId).heads[2].opcode = op /\ MemCmp(op, 0, v, MaxId).heads[2].meta_value = v
  /\ \A op \in DRSOpcodes : MemData(1, op, 0, 2, MaxId).heads[2].opcode = op

\* What a receiver reads from a packet is what its sender meant: a field is as
\* wide as the opcodes, states, tags and ids it carries, and a request of
\* fewer than 256 double words has the address and size it was made for.
\* Packets do not change, so that one state is enough.
FieldsFit ==
  (\A k \in Conns : conn[k] = NoConn) /\ (\A c \in Clients : client[c] = NoClient) /\ sent = 0 =>
    CfgFit /\ MmioFit /\ CacheFit /\ MemFit
=============================================================================
