----------------------- MODULE SwitchConnectionProofs -----------------------
(***************************************************************************)
(* Proofs about SwitchConnection, for any clients, packets and bounds, and *)
(* every interleaving of handshakes, failures and restarts:                *)
(*                                                                         *)
(* OnePerPort.  The port is never given to two clients, as long as nobody  *)
(* resets a connection during its handshake.  It is inductive once it is   *)
(* known that the connections made so far are the first ones, so that a    *)
(* new one replaces none, and that no handler waits for its confirmation   *)
(* to be written (PortInv).  All it depends on of a connection is its      *)
(* phase, so each action is reduced to what it does to the phases first.   *)
(*                                                                         *)
(* TypeOK.  That the tables hold tags of 8 bits takes knowing whose        *)
(* packets a queue carries: only the host's go to the client behind the    *)
(* confirmation, only the device's answers come back behind the request    *)
(* (FlowInv).                                                              *)
(*                                                                         *)
(* OneReader.  Until something is lost, only the connection that has the   *)
(* port has tasks; a FIFO holds the one notification that its task has not *)
(* read yet, or none (ReaderInv).                                          *)
(*                                                                         *)
(* TagsPaired.  Until a tag is reused, a transaction of the host is at one *)
(* place at a time: in a FIFO of the port, on the way to the client, in    *)
(* one of the client's FIFOs, or on the way back; the tables of the        *)
(* processors it has passed hold it (TagInv).                              *)
(*                                                                         *)
(* FieldsFit.  One lemma for each creator of a packet, for all arguments   *)
(* that fit its fields: a field keeps what is below two to its width, and  *)
(* the divisions and swaps of an address, an id or a set of byte enables   *)
(* are undone by the receiver's. The arguments the program gives do fit.   *)
(***************************************************************************)
EXTENDS SwitchConnection, FiniteSetTheorems, SequenceTheorems, TLAPS

\* Connections are records with a phase.
Shape ==
  /\ conn = [k \in Conns |-> conn[k]]
  /\ \A k \in Conns : "phase" \in DOMAIN conn[k]

Opened == {k \in Conns : conn[k].phase # "none"}

\* The connections made so far are the first ones.
InOrder == \E n \in 0 .. MaxConns : Opened = 1 .. n

\* The port is marked exactly while a handler has it, and one has it at most.
Owned ==
  "dropped" \notin history =>
    /\ \A k \in Conns : conn[k].phase # "draining"
    /\ \A j, k \in Running : j = k
    /\ connected = (Running # {})

PortInv == Shape /\ InOrder /\ Owned

\* What a step does to the phases
SamePhases == \A k \in Conns : conn'[k].phase = conn[k].phase
OnlyPhase(k, to) == conn'[k].phase = to /\ \A j \in Conns \ {k} : conn'[j].phase = conn[j].phase

\* What is forgotten of the history is nothing.
Remembers == history \subseteq history'

----------------------------------------------------------------------------
(* From the phases to the invariant.                                       *)

\* A step that leaves the phases and the mark leaves the invariant.
LEMMA Unmoved ==
  ASSUME PortInv, Shape', SamePhases, UNCHANGED connected, Remembers
  PROVE PortInv'
<1>1. Opened' = Opened /\ Running' = Running
  BY DEF SamePhases, Opened, Running
<1> QED
  BY <1>1 DEF PortInv, InOrder, Owned, SamePhases, Remembers

\* A handler that has been asked rejects.
LEMMA Rejected ==
  ASSUME PortInv, NEW k \in Conns, conn[k].phase = "asked",
         Shape', OnlyPhase(k, "closed"), UNCHANGED connected, Remembers
  PROVE PortInv'
<1>1. Opened' = Opened /\ Running' = Running
  BY DEF OnlyPhase, Opened, Running
<1> QED
  BY <1>1 DEF PortInv, InOrder, Owned, OnlyPhase, Remembers

\* A handler that has been asked takes a port nobody has.
LEMMA Taken ==
  ASSUME PortInv, NEW k \in Conns, conn[k].phase = "asked", ~connected,
         Shape', OnlyPhase(k, "running"), connected' = TRUE, Remembers
  PROVE PortInv'
<1>1. Opened' = Opened /\ Running' = Running \cup {k}
  BY DEF OnlyPhase, Opened, Running
<1>2. ASSUME "dropped" \notin history'
      PROVE Running = {} /\ \A j \in Conns : conn[j].phase # "draining"
  BY <1>2 DEF PortInv, Owned, Remembers
<1>3. Owned'
  BY <1>1, <1>2 DEF Owned, OnlyPhase
<1> QED
  BY <1>1, <1>3 DEF PortInv, InOrder

\* A handler whose client is gone already waits for its write: from here on
\* nothing is said of the port.
LEMMA Dropped ==
  ASSUME PortInv, NEW k \in Conns, conn[k].phase = "asked",
         Shape', OnlyPhase(k, "draining"), "dropped" \in history'
  PROVE PortInv'
<1>1. Opened' = Opened
  BY DEF OnlyPhase, Opened
<1> QED
  BY <1>1 DEF PortInv, InOrder, Owned

\* A handler that waits for its write frees the port; there is none unless
\* somebody was dropped.
LEMMA Drained ==
  ASSUME PortInv, NEW k \in Conns, conn[k].phase = "draining",
         Shape', OnlyPhase(k, "closed"), Remembers
  PROVE PortInv'
<1>1. Opened' = Opened
  BY DEF OnlyPhase, Opened
<1>2. "dropped" \in history'
  BY DEF PortInv, Owned, Remembers
<1> QED
  BY <1>1, <1>2 DEF PortInv, InOrder, Owned

\* The handler that has the port ends and frees it.
LEMMA Released ==
  ASSUME PortInv, NEW k \in Conns, conn[k].phase = "running",
         Shape', OnlyPhase(k, "closed"), connected' = FALSE, Remembers
  PROVE PortInv'
<1>1. Opened' = Opened /\ Running' = Running \ {k}
  BY DEF OnlyPhase, Opened, Running
<1>2. k \in Running
  BY DEF Running
<1>3. Owned'
  BY <1>1, <1>2 DEF PortInv, Owned, OnlyPhase, Remembers
<1> QED
  BY <1>1, <1>3 DEF PortInv, InOrder

\* A new connection comes after all others.
LEMMA Asked ==
  ASSUME PortInv, Fresh <= MaxConns, Shape', OnlyPhase(Fresh, "asked"),
         UNCHANGED connected, Remembers
  PROVE PortInv'
<1>1. PICK n \in 0 .. MaxConns : Opened = 1 .. n
  BY DEF PortInv, InOrder
<1>2. MaxConns \in Nat /\ n \in Nat
  BY ConnectionAssumption
<1>3. Cardinality(1 .. n) = n
  BY <1>2, FS_Interval
<1>3a. Fresh = Cardinality(Opened) + 1
  BY DEF Fresh, Opened
<1>4. Fresh = n + 1 /\ Fresh \in Conns /\ Fresh \notin Opened
  BY <1>1, <1>2, <1>3, <1>3a DEF Conns
<1>5. Opened' = Opened \cup {Fresh}
  BY <1>4 DEF OnlyPhase, Opened
<1>6. Opened' = 1 .. (n + 1) /\ n + 1 \in 0 .. MaxConns
  BY <1>1, <1>2, <1>4, <1>5 DEF Conns
<1>7. Running' = Running
  BY <1>4 DEF OnlyPhase, Running, Opened
<1>8. Owned'
  BY <1>4, <1>7 DEF PortInv, Owned, OnlyPhase, Remembers
<1> QED
  BY <1>6, <1>8 DEF PortInv, InOrder

----------------------------------------------------------------------------
(* What each action does to the phases.                                    *)

LEMMA RejectPhase ==
  ASSUME Shape, NEW k \in Conns, Reject(k)
  PROVE Shape' /\ OnlyPhase(k, "closed") /\ conn[k].phase = "asked" /\ UNCHANGED connected /\ Remembers
BY DEF Shape, OnlyPhase, Reject, Closed, Remembers

LEMMA AcceptPhase ==
  ASSUME Shape, NEW k \in Conns, Accept(k)
  PROVE /\ Shape' /\ conn[k].phase = "asked"
        /\ \/ OnlyPhase(k, "draining") /\ "dropped" \in history'
           \/ OnlyPhase(k, "running") /\ ~connected /\ connected' = TRUE /\ Remembers
<1>1. CASE conn[k].peer = "reset"
  BY <1>1 DEF Shape, OnlyPhase, Accept
<1>2. CASE conn[k].peer # "reset"
  <2>1. conn' = [conn EXCEPT ![k].phase = "running", ![k].toServer = Tail(conn[k].toServer),
                             ![k].toClient = Append(conn[k].toClient, Sideband(CONNECTION_ACCEPT)),
                             ![k].incoming = TRUE, ![k].tasks = FifosOf("DSP") \cap Channels]
    BY <1>2 DEF Accept
  <2>2. conn' = [conn EXCEPT ![k] =
          [conn[k] EXCEPT !.phase = "running", !.toServer = Tail(conn[k].toServer),
                          !.toClient = Append(conn[k].toClient, Sideband(CONNECTION_ACCEPT)),
                          !.incoming = TRUE, !.tasks = FifosOf("DSP") \cap Channels]]
    BY <2>1 DEF Shape
  <2>3. Shape' /\ OnlyPhase(k, "running")
    BY <2>2 DEF Shape, OnlyPhase
  <2>4. conn[k].phase = "asked" /\ ~connected /\ connected' = TRUE /\ Remembers
    BY <1>2 DEF Accept, Accepts, Remembers
  <2> QED
    BY <2>3, <2>4
<1> QED
  BY <1>1, <1>2

LEMMA DrainPhase ==
  ASSUME Shape, NEW k \in Conns, DrainFails(k)
  PROVE Shape' /\ OnlyPhase(k, "closed") /\ conn[k].phase = "draining" /\ Remembers
BY DEF Shape, OnlyPhase, DrainFails, Closed, Remembers

LEMMA EndPhase ==
  ASSUME Shape, NEW k \in Conns, ServerEnds(k)
  PROVE Shape' /\ OnlyPhase(k, "closed") /\ conn[k].phase = "running" /\ connected' = FALSE /\ Remembers
BY DEF Shape, OnlyPhase, ServerEnds, Closed, FreePort, Remembers

LEMMA TaskPhase ==
  ASSUME Shape, NEW k \in Conns, NEW ch \in Channels, ServerTaskFails(k, ch)
  PROVE /\ Shape' /\ Remembers
        /\ \/ SamePhases /\ UNCHANGED connected
           \/ OnlyPhase(k, "closed") /\ conn[k].phase = "running" /\ connected' = FALSE
<1>1. CASE conn[k].phase = "running"
  BY <1>1 DEF Shape, OnlyPhase, ServerTaskFails, Closed, Remembers
<1>2. CASE conn[k].phase # "running"
  BY <1>2 DEF Shape, SamePhases, ServerTaskFails, Closed, Remembers
<1> QED
  BY <1>1, <1>2

LEMMA ConnectPhase ==
  ASSUME Shape, NEW c \in Clients, Connect(c)
  PROVE /\ Fresh <= MaxConns /\ UNCHANGED connected /\ Remembers
        /\ Fresh \in Conns => Shape' /\ OnlyPhase(Fresh, "asked")
BY DEF Shape, OnlyPhase, Connect, NoConn, Remembers

\* The other steps of the server leave the phases.
LEMMA ServerPhases ==
  ASSUME Shape, NEW k \in Conns,
         \/ ServerTake(k) \/ ServerLosesReader(k)
         \/ \E ch \in Channels : ServerSend(k, ch)
  PROVE Shape' /\ SamePhases /\ UNCHANGED connected /\ Remembers
<1>1. CASE ServerTake(k)
  BY <1>1 DEF Shape, SamePhases, ServerTake, Remembers
<1>2. CASE ServerLosesReader(k)
  BY <1>2 DEF Shape, SamePhases, ServerLosesReader, Remembers
<1>3. ASSUME NEW ch \in Channels, ServerSend(k, ch)
      PROVE Shape' /\ SamePhases /\ UNCHANGED connected /\ Remembers
  <2>1. UNCHANGED connected /\ Remembers
    BY <1>3 DEF ServerSend, Remembers
  <2>2. CASE Head(fifo[ch]) = Notification
    <3>1. conn' = [conn EXCEPT ![k].tasks = conn[k].tasks \ {ch}]
      BY <1>3, <2>2 DEF ServerSend
    <3> QED
      BY <2>1, <3>1 DEF Shape, SamePhases
  <2>3. CASE Head(fifo[ch]) # Notification
    <3> DEFINE peer == IF conn[k].peer = "eof" THEN "reset" ELSE conn[k].peer
               sentTo == IF conn[k].peer = "open" THEN Append(conn[k].toClient, Head(fifo[ch]))
                         ELSE conn[k].toClient
               table == TlpAfter(Head(fifo[ch]), conn[k].tlp)
    <3>1. conn' = [conn EXCEPT ![k].tlp = table, ![k].peer = peer, ![k].toClient = sentTo]
      BY <1>3, <2>3 DEF ServerSend
    <3> HIDE DEF peer, sentTo, table
    <3>2. conn'[k].phase = conn[k].phase /\ DOMAIN conn'[k] = DOMAIN conn[k]
      BY <3>1 DEF Shape
    <3>3. \A j \in Conns \ {k} : conn'[j] = conn[j]
      BY <3>1 DEF Shape
    <3> QED
      BY <2>1, <3>1, <3>2, <3>3 DEF Shape, SamePhases
  <2> QED
    BY <2>2, <2>3
<1> QED
  BY <1>1, <1>2, <1>3

\* So do the other steps of a client.
LEMMA ClientPhases ==
  ASSUME Shape, NEW c \in Clients,
         \/ Confirmed(c) \/ Refused(c) \/ ClientTake(c) \/ ClientLosesReader(c) \/ ClientEnds(c)
         \/ ClientStart(c) \/ ClientTimesOut(c) \/ ClientStop(c) \/ ClientExits(c)
         \/ \E ch \in Channels : ClientSend(c, ch)
  PROVE Shape' /\ SamePhases /\ UNCHANGED connected /\ Remembers
<1> DEFINE Stays == Shape' /\ SamePhases /\ UNCHANGED connected /\ Remembers
<1>1. CASE Confirmed(c)
  BY <1>1 DEF Shape, SamePhases, Confirmed, Remembers
<1>2. CASE Refused(c)
  BY <1>2 DEF Shape, SamePhases, Refused, Remembers
<1>3. CASE ClientTake(c)
  BY <1>3 DEF Shape, SamePhases, ClientTake, Remembers
<1>4. CASE ClientLosesReader(c)
  BY <1>4 DEF Shape, SamePhases, ClientLosesReader, Remembers
<1>5. CASE ClientEnds(c) \/ ClientStart(c) \/ ClientTimesOut(c) \/ ClientStop(c)
  BY <1>5 DEF Shape, SamePhases, ClientEnds, ClientStart, ClientTimesOut, ClientStop, Remembers
<1>6. CASE ClientExits(c)
  <2>1. PICK how \in {"eof", "reset"} :
          conn' = [conn EXCEPT ![client[c].conn].peer = how, ![client[c].conn].toClient = <<>>]
    BY <1>6 DEF ClientExits
  <2> DEFINE k == client[c].conn
  <2>2. conn' = [conn EXCEPT ![k] = [conn[k] EXCEPT !.peer = how, !.toClient = <<>>]]
    BY <2>1
  <2> HIDE DEF k
  <2>3. Shape' /\ SamePhases
    BY <2>2 DEF Shape, SamePhases
  <2> QED
    BY <1>6, <2>3 DEF ClientExits, Remembers
<1>7. ASSUME NEW ch \in Channels, ClientSend(c, ch)
      PROVE Stays
  <2> DEFINE p == Head(client[c].fifo[ch])
             k == client[c].conn
  <2>1. UNCHANGED connected /\ Remembers
    BY <1>7 DEF ClientSend, Remembers
  <2>2. \/ UNCHANGED conn
        \/ conn' = [conn EXCEPT ![k].toServer = Append(conn[k].toServer, p)]
    BY <1>7 DEF ClientSend
  <2> HIDE DEF k, p
  <2>3. Shape' /\ SamePhases
    BY <2>2 DEF Shape, SamePhases
  <2> QED
    BY <2>1, <2>3
<1> QED
  BY <1>1, <1>2, <1>3, <1>4, <1>5, <1>6, <1>7

----------------------------------------------------------------------------
(* The invariant.                                                          *)

LEMMA InitPort == Init => PortInv
<1> SUFFICES ASSUME Init PROVE PortInv
  OBVIOUS
<1>1. \A k \in Conns : conn[k] = NoConn /\ conn[k].phase = "none"
  BY DEF Init, NoConn
<1>2. Shape
  BY <1>1 DEF Init, Shape, NoConn
<1>3. Opened = 1 .. 0 /\ 0 \in 0 .. MaxConns
  BY <1>1, ConnectionAssumption DEF Opened
<1>4. Running = {} /\ connected = FALSE
  BY <1>1 DEF Running, Init
<1>5. Owned
  BY <1>1, <1>4 DEF Owned
<1> QED
  BY <1>2, <1>3, <1>5 DEF PortInv, InOrder

LEMMA ServerKeeps ==
  ASSUME PortInv, NEW k \in Conns, ServerStep(k)
  PROVE PortInv'
<1>0. Shape
  BY DEF PortInv
<1>1. CASE Reject(k)
  BY <1>0, <1>1, RejectPhase, Rejected
<1>2. CASE Accept(k)
  BY <1>0, <1>2, AcceptPhase, Dropped, Taken
<1>3. CASE DrainFails(k)
  BY <1>0, <1>3, DrainPhase, Drained
<1>4. CASE ServerTake(k) \/ ServerLosesReader(k) \/ \E ch \in Channels : ServerSend(k, ch)
  BY <1>0, <1>4, ServerPhases, Unmoved
<1>5. CASE ServerEnds(k)
  BY <1>0, <1>5, EndPhase, Released
<1>6. ASSUME NEW ch \in Channels, ServerTaskFails(k, ch)
      PROVE PortInv'
  BY <1>0, <1>6, TaskPhase, Unmoved, Released
<1> QED
  BY <1>1, <1>2, <1>3, <1>4, <1>5, <1>6 DEF ServerStep

\* A new connection is one the bound admits.
LEMMA ConnectKeeps ==
  ASSUME PortInv, NEW c \in Clients, Connect(c)
  PROVE PortInv'
<1>1. Fresh \in Conns
  <2>1. PICK n \in 0 .. MaxConns : Opened = 1 .. n
    BY DEF PortInv, InOrder
  <2>2. MaxConns \in Nat /\ n \in Nat /\ Cardinality(1 .. n) = n
    BY ConnectionAssumption, FS_Interval
  <2>3. Fresh = Cardinality(Opened) + 1
    BY DEF Fresh, Opened
  <2> QED
    BY <2>1, <2>2, <2>3 DEF Connect, Conns
<1> QED
  BY <1>1, ConnectPhase, Asked DEF PortInv

LEMMA NextPort == PortInv /\ [Next]_vars => PortInv'
<1> SUFFICES ASSUME PortInv, [Next]_vars PROVE PortInv'
  OBVIOUS
<1>0. Shape
  BY DEF PortInv
<1>1. ASSUME NEW k \in Conns, ServerStep(k)
      PROVE PortInv'
  BY <1>1, ServerKeeps
<1>2. ASSUME NEW c \in Clients,
             ClientStep(c) \/ ClientStart(c) \/ ClientTimesOut(c) \/ ClientStop(c) \/ ClientExits(c)
      PROVE PortInv'
  <2>1. CASE Connect(c)
    BY <2>1, ConnectKeeps
  <2>2. CASE ~Connect(c)
    BY <1>0, <1>2, <2>2, ClientPhases, Unmoved DEF ClientStep
  <2> QED
    BY <2>1, <2>2
<1>3. ASSUME NEW kind \in Kinds, HostSend(kind)
      PROVE PortInv'
  <2>1. Shape' /\ SamePhases /\ UNCHANGED connected /\ Remembers
    BY <1>0, <1>3 DEF HostSend, Shape, SamePhases, Remembers
  <2> QED
    BY <2>1, Unmoved
<1>4. CASE UNCHANGED vars
  <2>1. Shape' /\ SamePhases /\ UNCHANGED connected /\ Remembers
    BY <1>0, <1>4 DEF vars, Shape, SamePhases, Remembers
  <2> QED
    BY <2>1, Unmoved
<1> QED
  BY <1>1, <1>2, <1>3, <1>4 DEF Next

\* A set whose members are all the same has one at most.
LEMMA PortInvImplies == PortInv => OnePerPort
<1> SUFFICES ASSUME PortInv, "dropped" \notin history
             PROVE Cardinality(Running) <= 1 /\ connected = (Running # {})
  BY DEF OnePerPort
<1>1. \A j, k \in Running : j = k
  BY DEF PortInv, Owned
<1>2. CASE Running = {}
  BY <1>2, FS_EmptySet DEF PortInv, Owned
<1>3. CASE Running # {}
  <2>1. PICK k \in Running : TRUE
    BY <1>3
  <2>2. Running = {k}
    BY <1>1, <2>1
  <2>3. Cardinality({k}) = 1
    BY FS_Singleton
  <2> QED
    BY <1>3, <2>2, <2>3 DEF PortInv, Owned
<1> QED
  BY <1>2, <1>3

\* A port has one connection at a time, and is marked connected exactly while
\* it has one (SwitchConnectionManager, which tests and sets the mark around
\* an await), unless a client resets its connection during the handshake.
THEOREM OnePerPortAlways == Spec => []OnePerPort
<1>1. Spec => []PortInv
  BY InitPort, NextPort, PTL DEF Spec
<1>2. []PortInv => []OnePerPort
  BY PortInvImplies, PTL
<1> QED
  BY <1>1, <1>2, PTL

----------------------------------------------------------------------------
(* What the proofs need of the packets.                                    *)

\* What the host sends, and what the devices answer
HostPackets == {Request(kind, t) : kind \in Kinds, t \in 0 .. Tags - 1}
DevicePackets == UNION {{Answers(q)[i] : i \in DOMAIN Answers(q)} : q \in HostPackets}
\* The transaction of a packet, if a processor has a table entry for it
Tagged(p) == Enters(p) \/ Leaves(p)
OwnTag(p) == IF Tagged(p) THEN {TransactionId(p)} ELSE {}
\* A processor can go on after such a packet, as far as its table allows.
Fine(p) == p # Notification /\ Readable(p) /\ ChannelOf(p) # None

\* A packet is its headers, each with the fields it is given.
LEMMA MadeHead ==
  ASSUME NEW type, NEW layouts, NEW values, NEW data, NEW n, NEW i \in DOMAIN layouts
  PROVE /\ Made(type, layouts, values, data, n).type = type
        /\ Made(type, layouts, values, data, n).heads = [j \in DOMAIN layouts |-> Filled(layouts[j], values[j])]
        /\ Made(type, layouts, values, data, n).heads[i] = Filled(layouts[i], values[i])
BY DEF Made

\* What ends a task is a sideband packet, which no FIFO carries otherwise.
LEMMA NotificationType == Notification.type = "SIDEBAND"
BY DEF Notification, Sideband, Made

\* The fields a processor looks at, per packet: an MMIO read
LEMMA ReadHead ==
  ASSUME NEW t \in 0 .. 255, NEW p, p = Request("MemRd", t)
  PROVE p.type = "CXL_IO" /\ p.heads[2].fmt_type = 32 /\ p.heads[3].req_id = 0 /\ p.heads[3].tag = t
<1> DEFINE a == [addr |-> 4096, length |-> 8, req_id |-> 0, tag |-> t, ld_id |-> 0]
           values == MReqValues("MRD_64B", a)
<1>1. p = Made("CXL_IO", MReq, values, 0, 0)
  BY DEF Request, MemRd
<1>2. MReq[2] = CxlIoHeader /\ MReq[3] = MReqHeader /\ 2 \in DOMAIN MReq /\ 3 \in DOMAIN MReq
  BY DEF MReq
<1>3. DOMAIN values[2] = {"fmt_type", "length_upper", "length_lower"} /\ values[2].fmt_type = 32
  BY DEF MReqValues, FmtType
<1>4. /\ DOMAIN values[3] = {"req_id", "tag", "first_dw_be", "last_dw_be", "addr_upper", "addr_lower"}
      /\ values[3].req_id = 0 /\ values[3].tag = t
  BY DEF MReqValues, Swap16
<1> HIDE DEF values
<1>5. p.type = "CXL_IO" /\ p.heads[2] = Filled(CxlIoHeader, values[2]) /\ p.heads[3] = Filled(MReqHeader, values[3])
  <2>1. p.type = "CXL_IO" /\ p.heads = [j \in DOMAIN MReq |-> Filled(MReq[j], values[j])]
    BY <1>1 DEF Made
  <2> QED
    BY <1>2, <2>1
<1>6. p.heads[2].fmt_type = Kept(32, 8)
  BY <1>3, <1>5 DEF Filled, CxlIoHeader
<1>7. p.heads[3].req_id = Kept(0, 16) /\ p.heads[3].tag = Kept(t, 8)
  BY <1>4, <1>5 DEF Filled, MReqHeader
<1>8. Kept(32, 8) = 32 /\ Kept(t, 8) = t
  BY DEF Kept
<1>9. Kept(0, 16) = 0
  BY DEF Kept
<1> QED
  BY <1>5, <1>6, <1>7, <1>8, <1>9

\* ... a read of CXL.mem
LEMMA MemHead ==
  ASSUME NEW p, p = Request("MemRdReq", 0)
  PROVE p.type = "CXL_MEM" /\ p.heads[1].msg_class = 1
<1> DEFINE a == [addr |-> 64, mem_opcode |-> 1, meta_field |-> 3, meta_value |-> 2, snp_type |-> 0, ld_id |-> 0]
<1>1. PICK x : x = Lined(IF "M2S_REQ" = "S2M_DRS" THEN 0 ELSE 1, a)
  OBVIOUS
<1>2. p = MemPacket("M2S_REQ", a, 0)
  BY DEF Request, MemRdReq
<1> HIDE DEF a
<1>3. p = Made("CXL_MEM", <<ClassHeader, MemHeaders["M2S_REQ"]>>, <<[msg_class |-> MemClass["M2S_REQ"]], x>>, 0, 0)
  BY <1>1, <1>2 DEF MemPacket
<1> DEFINE layouts == <<ClassHeader, MemHeaders["M2S_REQ"]>>
           values == <<[msg_class |-> MemClass["M2S_REQ"]], x>>
<1>4. 1 \in DOMAIN layouts /\ layouts[1] = ClassHeader /\ values[1] = [msg_class |-> 1]
  BY DEF MemClass
<1> HIDE DEF layouts, values
<1>5. p.type = "CXL_MEM" /\ p.heads = [j \in DOMAIN layouts |-> Filled(layouts[j], values[j])]
  BY <1>3 DEF Made, layouts, values
<1>6. p.heads[1] = Filled(ClassHeader, [msg_class |-> 1])
  BY <1>4, <1>5
<1>7. p.heads[1].msg_class = Kept(1, 8)
  BY <1>6 DEF Filled, ClassHeader
<1>8. Kept(1, 8) = 1
  BY DEF Kept
<1> QED
  BY <1>5, <1>7, <1>8

\* ... a configuration read
LEMMA CfgHead ==
  ASSUME NEW t \in 0 .. 255, NEW p, p = Request("CfgRd", t)
  PROVE p.type = "CXL_IO" /\ p.heads[2].fmt_type = 4 /\ p.heads[3].req_id = 0 /\ p.heads[3].tag = t
<1> DEFINE a == [id |-> 256, addr |-> 0, size |-> 4, type0 |-> TRUE, req_id |-> 0, tag |-> t, ld_id |-> 0]
           values == CfgReqValues("CFG_RD0", a)
<1>1. p = Made("CXL_IO", CfgReq, values, 0, 0)
  BY DEF Request, CfgRd
<1>2. CfgReq[2] = CxlIoHeader /\ CfgReq[3] = CfgReqHeader /\ 2 \in DOMAIN CfgReq /\ 3 \in DOMAIN CfgReq
  BY DEF CfgReq
<1>3. DOMAIN values[2] = {"fmt_type", "length_lower"} /\ values[2].fmt_type = 4
  BY DEF CfgReqValues, FmtType
<1>4. /\ DOMAIN values[3] = {"req_id", "tag", "first_dw_be", "dest_id", "ext_reg_num", "reg_num"}
      /\ values[3].req_id = 0 /\ values[3].tag = t
  BY DEF CfgReqValues, Swap16
<1> HIDE DEF values
<1>5. p.type = "CXL_IO" /\ p.heads[2] = Filled(CxlIoHeader, values[2]) /\ p.heads[3] = Filled(CfgReqHeader, values[3])
  <2>1. p.type = "CXL_IO" /\ p.heads = [j \in DOMAIN CfgReq |-> Filled(CfgReq[j], values[j])]
    BY <1>1 DEF Made
  <2> QED
    BY <1>2, <2>1
<1>6. p.heads[2].fmt_type = Kept(4, 8)
  BY <1>3, <1>5 DEF Filled, CxlIoHeader
<1>7. p.heads[3].req_id = Kept(0, 16) /\ p.heads[3].tag = Kept(t, 8)
  BY <1>4, <1>5 DEF Filled, CfgReqHeader
<1>8. Kept(4, 8) = 4 /\ Kept(t, 8) = t
  BY DEF Kept
<1>9. Kept(0, 16) = 0
  BY DEF Kept
<1> QED
  BY <1>5, <1>6, <1>7, <1>8, <1>9

\* ... an MMIO write
LEMMA WriteHead ==
  ASSUME NEW t \in 0 .. 255, NEW p, p = Request("MemWr", t)
  PROVE p.type = "CXL_IO" /\ p.heads[2].fmt_type = 96
<1> DEFINE a == [addr |-> 4096, length |-> 8, data |-> 1, req_id |-> 0, tag |-> t, ld_id |-> 0]
           values == MReqValues("MWR_64B", a)
<1>1. p = Made("CXL_IO", MReq, values, 1, 8)
  BY DEF Request, MemWr
<1>2. MReq[2] = CxlIoHeader /\ 2 \in DOMAIN MReq
  BY DEF MReq
<1>3. DOMAIN values[2] = {"fmt_type", "length_upper", "length_lower"} /\ values[2].fmt_type = 96
  BY DEF MReqValues, FmtType
<1> HIDE DEF values
<1>5. p.type = "CXL_IO" /\ p.heads[2] = Filled(CxlIoHeader, values[2])
  <2>1. p.type = "CXL_IO" /\ p.heads = [j \in DOMAIN MReq |-> Filled(MReq[j], values[j])]
    BY <1>1 DEF Made
  <2> QED
    BY <1>2, <2>1
<1>6. p.heads[2].fmt_type = Kept(96, 8)
  BY <1>3, <1>5 DEF Filled, CxlIoHeader
<1>7. Kept(96, 8) = 96
  BY DEF Kept
<1> QED
  BY <1>5, <1>6, <1>7

\* A completion, for requester 0
ForNobody(c) == [c EXCEPT !.heads[3].req_id = 0]

\* A completion with data for tag t, and a CXL.io packet of requester 0
IsCplD(c, t) == \E q, d, n, l : c = CplD(q, t, d, n, l)
IsIo(p, fmt, t) == p.type = "CXL_IO" /\ p.heads[2].fmt_type = fmt /\ p.heads[3].req_id = 0 /\ p.heads[3].tag = t

\* ... a completion with data
LEMMA CplHead ==
  ASSUME NEW t \in 0 .. 255, NEW c, IsCplD(c, t)
  PROVE IsIo(ForNobody(c), 74, t)
<1> DEFINE p == ForNobody(c)
<1>1. PICK q, d, n, l : c = CplD(q, t, d, n, l)
  BY DEF IsCplD
<1> DEFINE values == <<[ld_id |-> l],
         [fmt_type |-> FmtType.CPL_D, length_upper |-> (n \div 4) \div 256, length_lower |-> n \div 4],
         [status |-> SC, req_id |-> Swap16(q), tag |-> t,
          byte_count_upper |-> n \div 256, byte_count_lower |-> n]>>
<1>2. c = Made("CXL_IO", CplLayout, values, d, n)
  BY <1>1 DEF CplD
<1>3. /\ CplLayout[2] = CxlIoHeader /\ CplLayout[3] = CplHeader /\ DOMAIN CplLayout = 1 .. 3
  BY DEF CplLayout
<1>4. DOMAIN values[2] = {"fmt_type", "length_upper", "length_lower"} /\ values[2].fmt_type = 74
  BY DEF FmtType
<1>5. "tag" \in DOMAIN values[3] /\ values[3].tag = t
  OBVIOUS
<1> HIDE DEF values
<1>6. c = [type |-> "CXL_IO", length |-> c.length, heads |-> [j \in 1 .. 3 |-> Filled(CplLayout[j], values[j])],
           data |-> d, n |-> n]
  BY <1>2, <1>3 DEF Made
<1>7. c.heads[2].fmt_type = Kept(74, 8)
  <2>1. c.heads[2] = Filled(CxlIoHeader, values[2])
    BY <1>3, <1>6
  <2> QED
    BY <1>4, <2>1 DEF Filled, CxlIoHeader
<1>8. /\ c.heads[3].tag = Kept(t, 8)
      /\ c.heads[3] = [f \in DOMAIN CplHeader |-> c.heads[3][f]]
  <2>1. c.heads[3] = Filled(CplHeader, values[3])
    BY <1>3, <1>6
  <2> QED
    BY <1>5, <2>1 DEF Filled, CplHeader
<1>9. Kept(74, 8) = 74 /\ Kept(t, 8) = t
  BY DEF Kept
<1>10. "tag" \in DOMAIN CplHeader /\ "req_id" \in DOMAIN CplHeader
  BY DEF CplHeader
<1>11. /\ p.type = c.type /\ p.heads[2] = c.heads[2]
       /\ p.heads[3] = [c.heads[3] EXCEPT !.req_id = 0]
  BY <1>6 DEF ForNobody
<1> HIDE DEF p
<1>12. IsIo(p, 74, t)
  BY <1>6, <1>7, <1>8, <1>9, <1>10, <1>11 DEF IsIo
<1> QED
  BY <1>12 DEF p

\* ... the data of CXL.mem
LEMMA DataHead ==
  ASSUME NEW l, NEW p, p = MemData(0, 0, 3, 2, l)
  PROVE p.type = "CXL_MEM" /\ p.heads[1].msg_class = 6
<1> DEFINE a == [opcode |-> 0, meta_field |-> 3, meta_value |-> 2, ld_id |-> l]
<1>1. PICK x : x = Lined(IF "S2M_DRS" = "S2M_DRS" THEN 0 ELSE 1, a)
  OBVIOUS
<1>2. p = MemPacket("S2M_DRS", a, 0)
  BY DEF MemData
<1> HIDE DEF a
<1>3. p = Made("CXL_MEM", <<ClassHeader, MemHeaders["S2M_DRS"]>>, <<[msg_class |-> MemClass["S2M_DRS"]], x>>, 0, 64)
  BY <1>1, <1>2 DEF MemPacket
<1> DEFINE layouts == <<ClassHeader, MemHeaders["S2M_DRS"]>>
           values == <<[msg_class |-> MemClass["S2M_DRS"]], x>>
<1>4. 1 \in DOMAIN layouts /\ layouts[1] = ClassHeader /\ values[1] = [msg_class |-> 6]
  BY DEF MemClass
<1> HIDE DEF layouts, values
<1>5. p.type = "CXL_MEM" /\ p.heads = [j \in DOMAIN layouts |-> Filled(layouts[j], values[j])]
  BY <1>3 DEF Made, layouts, values
<1>6. p.heads[1] = Filled(ClassHeader, [msg_class |-> 6])
  BY <1>4, <1>5
<1>7. p.heads[1].msg_class = Kept(6, 8)
  BY <1>6 DEF Filled, ClassHeader
<1>8. Kept(6, 8) = 6
  BY DEF Kept
<1> QED
  BY <1>5, <1>7, <1>8

\* A packet of CXL.io, by its format
LEMMA IoPacket ==
  ASSUME NEW p, p.type = "CXL_IO", p.heads[2].fmt_type \in {4, 32, 74, 96}
  PROVE /\ Fine(p)
        /\ IsCfgRead(p) <=> p.heads[2].fmt_type = 4
        /\ IsMemRead(p) <=> p.heads[2].fmt_type = 32
        /\ Enters(p) <=> p.heads[2].fmt_type \in {4, 32}
        /\ Leaves(p) <=> p.heads[2].fmt_type = 74
        /\ ~IsMem(p, {"M2S_REQ"})
<1>1. p # Notification
  BY NotificationType
<1>2. Readable(p)
  BY DEF Readable, ReadsIo, IsCfg, IsMmio, IsCfgType0, IsCompletion, IsMemRead, IsMemWrite, Fmt, FmtType
<1>3. ChannelOf(p) \in {"cfg", "mmio"}
  BY DEF ChannelOf
<1>4. ChannelOf(p) # None
  BY <1>3, ConnectionAssumption
<1> QED
  BY <1>1, <1>2, <1>4
  DEF Fine, IsCfgRead, IsMemRead, Enters, Leaves, IsCfgType0, IsCfgType1, IsCompletion, IsMem, Fmt, FmtType

\* A packet of CXL.mem
LEMMA MemoryPacket ==
  ASSUME NEW p, p.type = "CXL_MEM", p.heads[1].msg_class \in {1, 6}
  PROVE /\ Fine(p) /\ ~Enters(p) /\ ~Leaves(p) /\ ~IsCfgRead(p) /\ ~IsMemRead(p)
        /\ IsMem(p, {"M2S_REQ"}) <=> p.heads[1].msg_class = 1
<1>1. p # Notification
  BY NotificationType
<1>2. Readable(p)
  BY DEF Readable, ReadsMem, IsMem, MemClass
<1>3. ChannelOf(p) = "mem"
  BY DEF ChannelOf
<1>4. ChannelOf(p) # None
  BY <1>3, ConnectionAssumption
<1> QED
  BY <1>1, <1>2, <1>4
  DEF Fine, IsCfgRead, IsMemRead, Enters, Leaves, IsCfgType0, IsCfgType1, IsCompletion, IsMem, Fmt, MemClass

\* a is the device's answer to p.
IsAnswer(p, a) ==
  /\ Answers(p) = <<a>> /\ Fine(a) /\ ~Enters(a) /\ OwnTag(a) = OwnTag(p)
  /\ IsCompletion(a) => OwnTag(a) = {a.heads[3].tag}

\* What the proofs need of the packets of the host
LEMMA RequestFacts ==
  ASSUME NEW kind \in Kinds, NEW t \in 0 .. Tags - 1, NEW p, p = Request(kind, t)
  PROVE /\ Fine(p) /\ ~Leaves(p)
        /\ OwnTag(p) = IF Enters(p) THEN {t} ELSE {}
        /\ p.type = "CXL_IO" => kind # "MemRdReq"
        /\ \/ Answers(p) = <<>> /\ OwnTag(p) = {}
           \/ \E a : IsAnswer(p, a)
<1>0. t \in 0 .. 255 /\ t \in Nat
  BY ConnectionAssumption
<1>1. kind \in {"CfgRd", "MemRd", "MemWr", "MemRdReq"}
  BY ConnectionAssumption
<1>2. ASSUME NEW a, a.type = "CXL_IO", a.heads[2].fmt_type = 74, a.heads[3].req_id = 0, a.heads[3].tag = t
      PROVE /\ Fine(a) /\ ~Enters(a) /\ OwnTag(a) = {t}
            /\ IsCompletion(a) => OwnTag(a) = {a.heads[3].tag}
  <2>1. TransactionId(a) = t
    BY <1>0, <1>2 DEF TransactionId
  <2> QED
    BY <1>2, <2>1, IoPacket DEF OwnTag, Tagged
<1>3. CASE kind = "CfgRd"
  <2>1. p = Request("CfgRd", t)
    BY <1>3
  <2>2. p.type = "CXL_IO" /\ p.heads[2].fmt_type = 4 /\ p.heads[3].req_id = 0 /\ p.heads[3].tag = t
    BY <1>0, <2>1, CfgHead
  <2>3. Fine(p) /\ ~Leaves(p) /\ Enters(p) /\ IsCfgRead(p) /\ ~IsMemRead(p) /\ ~IsMem(p, {"M2S_REQ"})
    BY <2>2, IoPacket
  <2>4. OwnTag(p) = {t}
    BY <1>0, <2>2, <2>3 DEF OwnTag, Tagged, TransactionId
  <2>5. PICK a : a = CfgReadDone(p, 0)
    OBVIOUS
  <2>6. Answers(p) = <<a>>
    BY <2>3, <2>5 DEF Answers
  <2>7. PICK c : c = CplD(ReqId(p), t, 0, 4, LdId(p))
    OBVIOUS
  <2>7a. a = ForNobody(c)
    BY <2>2, <2>5, <2>7 DEF CfgReadDone, TagOf, ForNobody
  <2>7b. IsCplD(c, t)
    BY <2>7 DEF IsCplD
  <2>7c. IsIo(a, 74, t)
    BY <1>0, <2>7a, <2>7b, CplHead
  <2>8. a.type = "CXL_IO" /\ a.heads[2].fmt_type = 74 /\ a.heads[3].req_id = 0 /\ a.heads[3].tag = t
    BY <2>7c DEF IsIo
  <2>9. /\ Fine(a) /\ ~Enters(a) /\ OwnTag(a) = {t}
        /\ IsCompletion(a) => OwnTag(a) = {a.heads[3].tag}
    BY <1>2, <2>8
  <2> QED
    BY <1>3, <2>3, <2>4, <2>6, <2>9 DEF IsAnswer
<1>4. CASE kind = "MemRd"
  <2>1. p = Request("MemRd", t)
    BY <1>4
  <2>2. p.type = "CXL_IO" /\ p.heads[2].fmt_type = 32 /\ p.heads[3].req_id = 0 /\ p.heads[3].tag = t
    BY <1>0, <2>1, ReadHead
  <2>3. Fine(p) /\ ~Leaves(p) /\ Enters(p) /\ ~IsCfgRead(p) /\ IsMemRead(p) /\ ~IsMem(p, {"M2S_REQ"})
    BY <2>2, IoPacket
  <2>4. OwnTag(p) = {t}
    BY <1>0, <2>2, <2>3 DEF OwnTag, Tagged, TransactionId
  <2>5. PICK a : a = MmioReadDone(p, 0)
    OBVIOUS
  <2>6. Answers(p) = <<a>>
    BY <2>3, <2>5 DEF Answers
  <2>7. PICK c : c = CplD(ReqId(p), t, 0, GetDataSize(p), LdId(p))
    OBVIOUS
  <2>7a. a = ForNobody(c)
    BY <2>2, <2>5, <2>7 DEF MmioReadDone, TagOf, ForNobody
  <2>7b. IsCplD(c, t)
    BY <2>7 DEF IsCplD
  <2>7c. IsIo(a, 74, t)
    BY <1>0, <2>7a, <2>7b, CplHead
  <2>8. a.type = "CXL_IO" /\ a.heads[2].fmt_type = 74 /\ a.heads[3].req_id = 0 /\ a.heads[3].tag = t
    BY <2>7c DEF IsIo
  <2>9. /\ Fine(a) /\ ~Enters(a) /\ OwnTag(a) = {t}
        /\ IsCompletion(a) => OwnTag(a) = {a.heads[3].tag}
    BY <1>2, <2>8
  <2> QED
    BY <1>4, <2>3, <2>4, <2>6, <2>9 DEF IsAnswer
<1>5. CASE kind = "MemWr"
  <2>1. p.type = "CXL_IO" /\ p.heads[2].fmt_type = 96
    BY <1>0, <1>5, WriteHead
  <2>2. Fine(p) /\ ~Leaves(p) /\ ~Enters(p) /\ ~IsCfgRead(p) /\ ~IsMemRead(p) /\ ~IsMem(p, {"M2S_REQ"})
    BY <2>1, IoPacket
  <2>3. OwnTag(p) = {} /\ Answers(p) = <<>>
    BY <2>2 DEF OwnTag, Tagged, Answers
  <2> QED
    BY <1>5, <2>2, <2>3
<1>6. CASE kind = "MemRdReq"
  <2>0. p = Request("MemRdReq", 0)
    BY <1>6 DEF Request
  <2>1. p.type = "CXL_MEM" /\ p.heads[1].msg_class = 1
    BY <2>0, MemHead
  <2>2. Fine(p) /\ ~Leaves(p) /\ ~Enters(p) /\ ~IsCfgRead(p) /\ ~IsMemRead(p) /\ IsMem(p, {"M2S_REQ"})
    BY <2>1, MemoryPacket
  <2>3. PICK a : a = MemData(0, 0, 3, 2, p.heads[2].ld_id)
    OBVIOUS
  <2>4. Answers(p) = <<a>> /\ OwnTag(p) = {}
    BY <2>2, <2>3 DEF Answers, OwnTag, Tagged
  <2>5. a.type = "CXL_MEM" /\ a.heads[1].msg_class = 6
    BY <2>3, DataHead
  <2>6. Fine(a) /\ ~Enters(a) /\ ~Leaves(a) /\ OwnTag(a) = {}
    BY <2>5, MemoryPacket DEF OwnTag, Tagged
  <2>7. ~IsCompletion(a)
    BY <2>6 DEF Leaves
  <2> QED
    BY <2>1, <2>2, <2>4, <2>6, <2>7 DEF IsAnswer
<1> QED
  BY <1>1, <1>3, <1>4, <1>5, <1>6

\* A packet of the host opens a transaction, or has none; its tag is below the bound.
LEMMA HostFacts ==
  ASSUME NEW p \in HostPackets
  PROVE Fine(p) /\ ~Leaves(p) /\ OwnTag(p) \subseteq 0 .. Tags - 1
<1>1. PICK kind \in Kinds, t \in 0 .. Tags - 1 : p = Request(kind, t)
  BY DEF HostPackets
<1> QED
  BY <1>1, RequestFacts

\* A packet of a device closes a transaction, or has none.
LEMMA DeviceFacts ==
  ASSUME NEW p \in DevicePackets
  PROVE /\ Fine(p) /\ ~Enters(p) /\ OwnTag(p) \subseteq 0 .. Tags - 1
        /\ IsCompletion(p) => OwnTag(p) = {p.heads[3].tag}
<1>1. PICK q \in HostPackets : p \in {Answers(q)[i] : i \in DOMAIN Answers(q)}
  BY DEF DevicePackets
<1>2. PICK kind \in Kinds, t \in 0 .. Tags - 1 : q = Request(kind, t)
  BY <1>1 DEF HostPackets
<1>3. PICK a : IsAnswer(q, a)
  BY <1>1, <1>2, RequestFacts
<1>4. p = a
  BY <1>1, <1>3 DEF IsAnswer
<1>5. OwnTag(q) \subseteq 0 .. Tags - 1
  BY <1>1, HostFacts
<1> QED
  BY <1>3, <1>4, <1>5 DEF IsAnswer

\* The device's answers to a packet carry its tag.
LEMMA AnswerFacts ==
  ASSUME NEW q \in HostPackets
  PROVE \/ Answers(q) = <<>> /\ OwnTag(q) = {}
        \/ \E a \in DevicePackets : Answers(q) = <<a>> /\ OwnTag(a) = OwnTag(q)
<1>1. PICK kind \in Kinds, t \in 0 .. Tags - 1 : q = Request(kind, t)
  BY DEF HostPackets
<1>2. CASE Answers(q) # <<>>
  <2>1. PICK a : IsAnswer(q, a)
    BY <1>1, <1>2, RequestFacts
  <2>2. a \in {Answers(q)[i] : i \in DOMAIN Answers(q)}
    BY <2>1 DEF IsAnswer
  <2>3. a \in DevicePackets
    BY <2>2 DEF DevicePackets
  <2> QED
    BY <2>1, <2>3 DEF IsAnswer
<1>3. CASE Answers(q) = <<>>
  BY <1>1, <1>3, RequestFacts DEF IsAnswer
<1> QED
  BY <1>2, <1>3

----------------------------------------------------------------------------
(* Types, who sends what to whom, and what each action does to a           *)
(* connection or a client, field by field.                                 *)

\* All packets there are: a client may open its connection with any of its
\* openings.
Openers == UNION {Openings[c] : c \in Clients}
Greetings == {Sideband(CONNECTION_ACCEPT), Sideband(CONNECTION_REJECT)}
PacketSet == HostPackets \cup DevicePackets \cup Openers \cup Greetings \cup {Notification}

\* A queue of packets of P
Only(s, P) == \A i \in 1 .. Len(s) : s[i] \in P

\* The variables in full, with the queues
Phases == {"none", "asked", "draining", "running", "closed"}
Peers == {"none", "open", "eof", "reset"}
ConnRecord ==
  [client : Clients \cup {None}, phase : Phases, peer : Peers, closed : BOOLEAN, incoming : BOOLEAN,
   tasks : SUBSET Channels, tlp : SUBSET (0 .. 255), toServer : Seq(PacketSet), toClient : Seq(PacketSet)]
Statuses == {"STOPPED", "STARTING", "RUNNING", "STOPPING"}
Fifos == [Channels -> Seq(PacketSet)]
ClientRecord ==
  [status : Statuses, conn : Conns \cup {None}, incoming : BOOLEAN, tasks : SUBSET Channels,
   tlp : SUBSET (0 .. 255), fifo : Fifos]

ConnTypes == conn \in [Conns -> ConnRecord]
ClientTypes == client \in [Clients -> ClientRecord]
PortTypes ==
  /\ connected \in BOOLEAN /\ fifo \in Fifos
  /\ tag \in [{"cfg", "mmio"} -> 0 .. Tags - 1] /\ sent \in 0 .. MaxSent /\ waiting \subseteq 0 .. Tags - 1
  /\ history \subseteq {"dropped", "unsent", "unpaired", "reused"}

\* A connection carries one packet to the server until it is accepted, then
\* the device's; to the client goes first what answers the request, then the
\* host's.
ConnRule(k) ==
  /\ conn[k].phase = "asked" => Len(conn[k].toServer) <= 1 /\ conn[k].toClient = <<>>
  /\ conn[k].phase # "asked" => Only(conn[k].toServer, DevicePackets)
  /\ \A i \in 2 .. Len(conn[k].toClient) : conn[k].toClient[i] \in HostPackets
  /\ conn[k].incoming \/ conn[k].tasks # {} => conn[k].phase \in {"running", "closed"}

\* A client without tasks; a connection whose server has answered, and whose
\* answer has been taken
Idle(c) ==
  ~client[c].incoming /\ client[c].tasks = {} /\ client[c].tlp = {} /\ \A ch \in Channels : client[c].fifo[ch] = <<>>
Serves(k) == conn[k].phase \notin {"none", "asked"} /\ Only(conn[k].toClient, HostPackets)

\* A client without a connection, or whose request is not confirmed, has no
\* tasks; the others have a connection that serves them.
ClientRule(c) ==
  /\ \A ch \in Channels : Only(client[c].fifo[ch], DevicePackets \cup {Notification})
  /\ client[c].tasks \subseteq ChannelsOf[c]
  /\ client[c].status = "STARTING" \/ client[c].conn = None => Idle(c)
  /\ \A k \in Conns : client[c].conn = k =>
       /\ conn[k].phase # "none"
       /\ client[c].status # "STARTING" => Serves(k)

\* No two clients have the same connection.
Alone == \A c, d \in Clients : client[c].conn = client[d].conn /\ client[c].conn # None => c = d

\* The FIFOs of the port hold the host's packets, and notifications.
PortRule == \A ch \in Channels : Only(fifo[ch], HostPackets \cup {Notification})

\* The inductive invariant: the types, and who sends what to whom. (A packet of
\* the host never fails to be read and never closes a transaction, so what enters
\* a table is a tag of the host.)
Types == ConnTypes /\ ClientTypes /\ PortTypes
Rules == (\A k \in Conns : ConnRule(k)) /\ (\A c \in Clients : ClientRule(c)) /\ Alone /\ PortRule
FlowInv == Types /\ Rules

----------------------------------------------------------------------------
\* Queues of packets of P under the operations of the model
LEMMA OnlyEmpty == \A P : Only(<<>>, P)
BY DEF Only

LEMMA OnlyAppend ==
  ASSUME NEW S, NEW s \in Seq(S), NEW P, Only(s, P), NEW p \in P
  PROVE Only(Append(s, p), P)
BY DEF Only

LEMMA OnlyTail ==
  ASSUME NEW S, NEW s \in Seq(S), s # <<>>, NEW P, Only(s, P)
  PROVE Head(s) \in P /\ Only(Tail(s), P)
BY DEF Only

LEMMA OnlyWider ==
  ASSUME NEW s, NEW P, NEW Q, P \subseteq Q, Only(s, P)
  PROVE Only(s, Q)
BY DEF Only

----------------------------------------------------------------------------
\* A record of its fields
IsConn(r) ==
  r = [client |-> r.client, phase |-> r.phase, peer |-> r.peer, closed |-> r.closed, incoming |-> r.incoming,
       tasks |-> r.tasks, tlp |-> r.tlp, toServer |-> r.toServer, toClient |-> r.toClient]
IsClient(r) ==
  r = [status |-> r.status, conn |-> r.conn, incoming |-> r.incoming, tasks |-> r.tasks, tlp |-> r.tlp,
       fifo |-> r.fifo]

\* A step changes one connection, or one client, and that to these fields.
OneConn(k) ==
  /\ conn' = [j \in Conns |-> conn'[j]] /\ (\A j \in Conns \ {k} : conn'[j] = conn[j])
  /\ IsConn(conn'[k])
ConnBecomes(k, phase, peer, closed, incoming, tasks, tlp, toServer, toClient) ==
  /\ OneConn(k)
  /\ conn'[k].client \in Clients \cup {None}
  /\ conn'[k].phase = phase /\ conn'[k].peer = peer
  /\ conn'[k].closed \in BOOLEAN /\ (conn'[k].closed <=> closed)
  /\ conn'[k].incoming \in BOOLEAN /\ (conn'[k].incoming <=> incoming)
  /\ conn'[k].tasks = tasks /\ conn'[k].tlp = tlp
  /\ conn'[k].toServer = toServer /\ conn'[k].toClient = toClient
OneClient(c) ==
  /\ client' = [d \in Clients |-> client'[d]] /\ (\A d \in Clients \ {c} : client'[d] = client[d])
  /\ IsClient(client'[c])
ClientBecomes(c, status, its, incoming, tasks, tlp, queues) ==
  /\ OneClient(c)
  /\ client'[c].status = status /\ client'[c].conn = its
  /\ client'[c].incoming \in BOOLEAN /\ (client'[c].incoming <=> incoming)
  /\ client'[c].tasks = tasks /\ client'[c].tlp = tlp /\ client'[c].fifo = queues

\* The effect of each action of the server on its connection
LEMMA RejectEffect ==
  ASSUME ConnTypes, NEW k \in Conns, Reject(k)
  PROVE ConnBecomes(k, "closed", conn[k].peer, TRUE, conn[k].incoming, conn[k].tasks, conn[k].tlp, <<>>,
                    Append(conn[k].toClient, Sideband(CONNECTION_REJECT)))
<1>1. OneConn(k)
  BY DEF Reject, Closed, ConnTypes, ConnRecord, OneConn, IsConn
<1> QED
  BY <1>1 DEF Reject, Closed, ConnTypes, ConnRecord, ConnBecomes

LEMMA DrainEffect ==
  ASSUME ConnTypes, NEW k \in Conns, Accept(k), conn[k].peer = "reset"
  PROVE ConnBecomes(k, "draining", conn[k].peer, conn[k].closed, conn[k].incoming, conn[k].tasks, conn[k].tlp,
                    <<>>, conn[k].toClient)
<1>1. OneConn(k)
  BY DEF Accept, ConnTypes, ConnRecord, OneConn, IsConn
<1> QED
  BY <1>1 DEF Accept, ConnTypes, ConnRecord, ConnBecomes

LEMMA AcceptEffect ==
  ASSUME ConnTypes, NEW k \in Conns, Accept(k), conn[k].peer # "reset"
  PROVE ConnBecomes(k, "running", conn[k].peer, conn[k].closed, TRUE, FifosOf("DSP") \cap Channels, conn[k].tlp,
                    Tail(conn[k].toServer), Append(conn[k].toClient, Sideband(CONNECTION_ACCEPT)))
<1> DEFINE tasks == FifosOf("DSP") \cap Channels
           in == Tail(conn[k].toServer)
           out == Append(conn[k].toClient, Sideband(CONNECTION_ACCEPT))
<1>0. conn' = [conn EXCEPT ![k].phase = "running", ![k].toServer = in, ![k].toClient = out,
                           ![k].incoming = TRUE, ![k].tasks = tasks]
  BY DEF Accept
<1> HIDE DEF tasks, in, out
<1>1. OneConn(k)
  BY <1>0 DEF ConnTypes, ConnRecord, OneConn, IsConn
<1>2. ConnBecomes(k, "running", conn[k].peer, conn[k].closed, TRUE, tasks, conn[k].tlp, in, out)
  BY <1>0, <1>1 DEF ConnTypes, ConnRecord, ConnBecomes
<1> QED
  BY <1>2 DEF tasks, in, out

LEMMA CloseEffect ==
  ASSUME ConnTypes, NEW k \in Conns, DrainFails(k) \/ ServerEnds(k)
  PROVE ConnBecomes(k, "closed", conn[k].peer, TRUE, conn[k].incoming, conn[k].tasks, conn[k].tlp,
                    conn[k].toServer, conn[k].toClient)
<1>0. conn' = [conn EXCEPT ![k] = [conn[k] EXCEPT !.phase = "closed", !.closed = TRUE]]
  BY DEF DrainFails, ServerEnds, Closed
<1>1. OneConn(k)
  BY <1>0 DEF ConnTypes, ConnRecord, OneConn, IsConn
<1> QED
  BY <1>0, <1>1 DEF ConnTypes, ConnRecord, ConnBecomes

LEMMA ServerTakeEffect ==
  ASSUME ConnTypes, NEW k \in Conns, ServerTake(k)
  PROVE ConnBecomes(k, conn[k].phase, conn[k].peer, conn[k].closed, conn[k].incoming, conn[k].tasks,
                    TlpAfter(Head(conn[k].toServer), conn[k].tlp), Tail(conn[k].toServer), conn[k].toClient)
<1>1. PICK in, table : in = Tail(conn[k].toServer) /\ table = TlpAfter(Head(conn[k].toServer), conn[k].tlp)
  OBVIOUS
<1>2. conn' = [conn EXCEPT ![k].toServer = in, ![k].tlp = table]
  BY <1>1 DEF ServerTake
<1>3. OneConn(k)
  BY <1>2 DEF ConnTypes, ConnRecord, OneConn, IsConn
<1>4. ConnBecomes(k, conn[k].phase, conn[k].peer, conn[k].closed, conn[k].incoming, conn[k].tasks, table, in,
                  conn[k].toClient)
  BY <1>2, <1>3 DEF ConnTypes, ConnRecord, ConnBecomes
<1> QED
  BY <1>1, <1>4

LEMMA ServerLosesEffect ==
  ASSUME ConnTypes, NEW k \in Conns, ServerLosesReader(k)
  PROVE ConnBecomes(k, conn[k].phase, conn[k].peer, conn[k].closed, FALSE, conn[k].tasks, conn[k].tlp, <<>>,
                    conn[k].toClient)
<1>1. conn' = [conn EXCEPT ![k].incoming = FALSE, ![k].toServer = <<>>]
  BY DEF ServerLosesReader
<1>2. OneConn(k)
  BY <1>1 DEF ConnTypes, ConnRecord, OneConn, IsConn
<1> QED
  BY <1>1, <1>2 DEF ConnTypes, ConnRecord, ConnBecomes

LEMMA TaskEndsEffect ==
  ASSUME ConnTypes, NEW k \in Conns, NEW ch \in Channels, ServerSend(k, ch), Head(fifo[ch]) = Notification
  PROVE ConnBecomes(k, conn[k].phase, conn[k].peer, conn[k].closed, conn[k].incoming, conn[k].tasks \ {ch},
                    conn[k].tlp, conn[k].toServer, conn[k].toClient)
<1>0. conn' = [conn EXCEPT ![k].tasks = conn[k].tasks \ {ch}]
  BY DEF ServerSend
<1>1. OneConn(k)
  BY <1>0 DEF ConnTypes, ConnRecord, OneConn, IsConn
<1> QED
  BY <1>0, <1>1 DEF ConnTypes, ConnRecord, ConnBecomes

LEMMA ServerSendEffect ==
  ASSUME ConnTypes, NEW k \in Conns, NEW ch \in Channels, ServerSend(k, ch), Head(fifo[ch]) # Notification
  PROVE ConnBecomes(k, conn[k].phase, IF conn[k].peer = "eof" THEN "reset" ELSE conn[k].peer, conn[k].closed,
                    conn[k].incoming, conn[k].tasks, TlpAfter(Head(fifo[ch]), conn[k].tlp), conn[k].toServer,
                    IF conn[k].peer = "open" THEN Append(conn[k].toClient, Head(fifo[ch])) ELSE conn[k].toClient)
<1> DEFINE table == TlpAfter(Head(fifo[ch]), conn[k].tlp)
           peer == IF conn[k].peer = "eof" THEN "reset" ELSE conn[k].peer
           out == IF conn[k].peer = "open" THEN Append(conn[k].toClient, Head(fifo[ch])) ELSE conn[k].toClient
<1>0. conn' = [conn EXCEPT ![k].tlp = table, ![k].peer = peer, ![k].toClient = out]
  BY DEF ServerSend
<1> HIDE DEF table, peer, out
<1>1. OneConn(k)
  <2>1. PICK r : r = [conn[k] EXCEPT !.tlp = table, !.peer = peer, !.toClient = out]
    OBVIOUS
  <2>2. conn' = [conn EXCEPT ![k] = r]
    BY <1>0, <2>1
  <2>3. IsConn(r)
    BY <2>1 DEF ConnTypes, ConnRecord, IsConn
  <2> QED
    BY <2>2, <2>3 DEF ConnTypes, OneConn, IsConn
<1>2. ConnBecomes(k, conn[k].phase, peer, conn[k].closed, conn[k].incoming, conn[k].tasks, table,
                  conn[k].toServer, out)
  BY <1>0, <1>1 DEF ConnTypes, ConnRecord, ConnBecomes
<1> QED
  BY <1>2 DEF table, peer, out

LEMMA TaskFailsEffect ==
  ASSUME ConnTypes, NEW k \in Conns, NEW ch \in Channels, ServerTaskFails(k, ch)
  PROVE ConnBecomes(k, IF conn[k].phase = "running" THEN "closed" ELSE conn[k].phase, conn[k].peer,
                    (conn[k].closed \/ conn[k].phase = "running"), conn[k].incoming, conn[k].tasks \ {ch},
                    conn[k].tlp, conn[k].toServer, conn[k].toClient)
<1>1. CASE conn[k].phase = "running"
  <2>1. conn' = [conn EXCEPT ![k] = [[conn[k] EXCEPT !.tasks = conn[k].tasks \ {ch}] EXCEPT !.phase = "closed",
                                     !.closed = TRUE]]
    BY <1>1 DEF ServerTaskFails, Closed
  <2>2. conn' = [conn EXCEPT ![k].tasks = conn[k].tasks \ {ch}, ![k].phase = "closed", ![k].closed = TRUE]
    BY <2>1
  <2>3. OneConn(k)
    <3>1. PICK r : r = [conn[k] EXCEPT !.tasks = conn[k].tasks \ {ch}, !.phase = "closed", !.closed = TRUE]
      OBVIOUS
    <3>2. IsConn(r)
      BY <3>1 DEF ConnTypes, ConnRecord, IsConn
    <3> QED
      BY <2>2, <3>1, <3>2 DEF ConnTypes, OneConn, IsConn
  <2> QED
    BY <1>1, <2>2, <2>3 DEF ConnTypes, ConnRecord, ConnBecomes
<1>2. CASE conn[k].phase # "running"
  <2>1. conn' = [conn EXCEPT ![k] = [conn[k] EXCEPT !.tasks = conn[k].tasks \ {ch}]]
    BY <1>2 DEF ServerTaskFails
  <2>2. OneConn(k)
    <3>1. PICK r : r = [conn[k] EXCEPT !.tasks = conn[k].tasks \ {ch}]
      OBVIOUS
    <3>2. IsConn(r)
      BY <3>1 DEF ConnTypes, ConnRecord, IsConn
    <3> QED
      BY <2>1, <3>1, <3>2 DEF ConnTypes, OneConn, IsConn
  <2> QED
    BY <1>2, <2>1, <2>2 DEF ConnTypes, ConnRecord, ConnBecomes
<1> QED
  BY <1>1, <1>2

\* The effect of each action of a client on the client
LEMMA ClientStartEffect ==
  ASSUME ClientTypes, NEW c \in Clients, ClientStart(c)
  PROVE ClientBecomes(c, "STARTING", None, FALSE, {}, {}, [ch \in Channels |-> <<>>])
<1>1. PICK q : q = [ch \in Channels |-> <<>>]
  OBVIOUS
<1>2. client' = [client EXCEPT ![c] = [status |-> "STARTING", conn |-> None, incoming |-> FALSE, tasks |-> {},
                                       tlp |-> {}, fifo |-> q]]
  <2>1. PICK r : r = [NoClient EXCEPT !.status = "STARTING"]
    OBVIOUS
  <2>2. client' = [client EXCEPT ![c] = r]
    BY <2>1 DEF ClientStart
  <2>3. r = [status |-> "STARTING", conn |-> None, incoming |-> FALSE, tasks |-> {}, tlp |-> {}, fifo |-> q]
    BY <1>1, <2>1 DEF NoClient
  <2> QED
    BY <2>2, <2>3
<1>3. OneClient(c)
  BY <1>2 DEF ClientTypes, OneClient, IsClient
<1>4. ClientBecomes(c, "STARTING", None, FALSE, {}, {}, q)
  BY <1>2, <1>3 DEF ClientTypes, ClientBecomes
<1> QED
  BY <1>1, <1>4

LEMMA ClientExitsEffect ==
  ASSUME ClientTypes, NEW c \in Clients, ClientExits(c)
  PROVE ClientBecomes(c, "STOPPED", None, FALSE, {}, {}, [ch \in Channels |-> <<>>])
<1>1. PICK q : q = [ch \in Channels |-> <<>>]
  OBVIOUS
<1>2. client' = [client EXCEPT ![c] = [status |-> "STOPPED", conn |-> None, incoming |-> FALSE, tasks |-> {},
                                       tlp |-> {}, fifo |-> q]]
  BY <1>1 DEF ClientExits, NoClient
<1>3. OneClient(c)
  BY <1>2 DEF ClientTypes, OneClient, IsClient
<1>4. ClientBecomes(c, "STOPPED", None, FALSE, {}, {}, q)
  BY <1>2, <1>3 DEF ClientTypes, ClientBecomes
<1> QED
  BY <1>1, <1>4

LEMMA ConnectEffect ==
  ASSUME ClientTypes, NEW c \in Clients, Connect(c)
  PROVE ClientBecomes(c, client[c].status, Fresh, client[c].incoming, client[c].tasks, client[c].tlp, client[c].fifo)
<1>1. PICK k : k = Fresh
  OBVIOUS
<1>2. client' = [client EXCEPT ![c].conn = k]
  BY <1>1 DEF Connect
<1>3. OneClient(c)
  BY <1>2 DEF ClientTypes, ClientRecord, OneClient, IsClient
<1>4. ClientBecomes(c, client[c].status, k, client[c].incoming, client[c].tasks, client[c].tlp, client[c].fifo)
  BY <1>2, <1>3 DEF ClientTypes, ClientRecord, ClientBecomes
<1> QED
  BY <1>1, <1>4

LEMMA ConfirmedEffect ==
  ASSUME ClientTypes, NEW c \in Clients, Confirmed(c)
  PROVE ClientBecomes(c, "RUNNING", client[c].conn, TRUE, ChannelsOf[c], client[c].tlp, client[c].fifo)
<1>1. OneClient(c)
  BY DEF Confirmed, ClientTypes, ClientRecord, OneClient, IsClient
<1> QED
  BY <1>1 DEF Confirmed, ClientTypes, ClientRecord, ClientBecomes

LEMMA RefusedEffect ==
  ASSUME ClientTypes, NEW c \in Clients, Refused(c)
  PROVE ClientBecomes(c, IF c \in Retry THEN "STARTING" ELSE "STOPPED", None, client[c].incoming,
                      client[c].tasks, client[c].tlp, client[c].fifo)
<1>1. OneClient(c)
  BY DEF Refused, ClientTypes, ClientRecord, OneClient, IsClient
<1> QED
  BY <1>1 DEF Refused, ClientTypes, ClientRecord, ClientBecomes

LEMMA StoppedEffect ==
  ASSUME ClientTypes, NEW c \in Clients, ClientTimesOut(c) \/ ClientEnds(c)
  PROVE ClientBecomes(c, "STOPPED", client[c].conn, client[c].incoming, client[c].tasks, client[c].tlp,
                      client[c].fifo)
<1>1. OneClient(c)
  BY DEF ClientTimesOut, ClientEnds, ClientTypes, ClientRecord, OneClient, IsClient
<1> QED
  BY <1>1 DEF ClientTimesOut, ClientEnds, ClientTypes, ClientRecord, ClientBecomes

LEMMA ClientLosesEffect ==
  ASSUME ClientTypes, NEW c \in Clients, ClientLosesReader(c)
  PROVE ClientBecomes(c, client[c].status, client[c].conn, FALSE, client[c].tasks, client[c].tlp,
                      NotifiedOf(client[c].fifo, ChannelsOf[c]))
<1>1. OneClient(c)
  BY DEF ClientLosesReader, ClientTypes, ClientRecord, OneClient, IsClient
<1> QED
  BY <1>1 DEF ClientLosesReader, ClientTypes, ClientRecord, ClientBecomes

LEMMA ClientStopEffect ==
  ASSUME ClientTypes, NEW c \in Clients, ClientStop(c)
  PROVE ClientBecomes(c, "STOPPING", client[c].conn, FALSE, client[c].tasks, client[c].tlp,
                      NotifiedOf(client[c].fifo, ChannelsOf[c]))
<1>1. OneClient(c)
  BY DEF ClientStop, ClientTypes, ClientRecord, OneClient, IsClient
<1> QED
  BY <1>1 DEF ClientStop, ClientTypes, ClientRecord, ClientBecomes

\* The effect of the actions of a client on its connection
LEMMA ConfirmedPort ==
  ASSUME ConnTypes, NEW c \in Clients, NEW k \in Conns, client[c].conn = k, Confirmed(c)
  PROVE ConnBecomes(k, conn[k].phase, conn[k].peer, conn[k].closed, conn[k].incoming, conn[k].tasks,
                    conn[k].tlp, conn[k].toServer, Tail(conn[k].toClient))
<1>0. conn' = [conn EXCEPT ![k].toClient = Tail(conn[k].toClient)]
  BY DEF Confirmed
<1>1. OneConn(k)
  BY <1>0 DEF ConnTypes, ConnRecord, OneConn, IsConn
<1> QED
  BY <1>0, <1>1 DEF ConnTypes, ConnRecord, ConnBecomes

LEMMA RefusedPort ==
  ASSUME ConnTypes, NEW c \in Clients, NEW k \in Conns, client[c].conn = k, Refused(c)
  PROVE ConnBecomes(k, conn[k].phase, "eof", conn[k].closed, conn[k].incoming, conn[k].tasks, conn[k].tlp,
                    conn[k].toServer, <<>>)
<1>0. conn' = [conn EXCEPT ![k].peer = "eof", ![k].toClient = <<>>]
  BY DEF Refused
<1>1. OneConn(k)
  BY <1>0 DEF ConnTypes, ConnRecord, OneConn, IsConn
<1> QED
  BY <1>0, <1>1 DEF ConnTypes, ConnRecord, ConnBecomes

LEMMA ClientTakePort ==
  ASSUME ConnTypes, NEW c \in Clients, NEW k \in Conns, client[c].conn = k, ClientTake(c)
  PROVE ConnBecomes(k, conn[k].phase, conn[k].peer, conn[k].closed, conn[k].incoming, conn[k].tasks,
                    conn[k].tlp, conn[k].toServer, Tail(conn[k].toClient))
<1>0. conn' = [conn EXCEPT ![k].toClient = Tail(conn[k].toClient)]
  BY DEF ClientTake
<1>1. OneConn(k)
  BY <1>0 DEF ConnTypes, ConnRecord, OneConn, IsConn
<1> QED
  BY <1>0, <1>1 DEF ConnTypes, ConnRecord, ConnBecomes

LEMMA ClientExitsPort ==
  ASSUME ConnTypes, NEW c \in Clients, NEW k \in Conns, client[c].conn = k, ClientExits(c)
  PROVE \E how \in {"eof", "reset"} : ConnBecomes(k, conn[k].phase, how, conn[k].closed, conn[k].incoming,
                                                  conn[k].tasks, conn[k].tlp, conn[k].toServer, <<>>)
<1>0. PICK how \in {"eof", "reset"} : conn' = [conn EXCEPT ![k].peer = how, ![k].toClient = <<>>]
  BY DEF ClientExits
<1>1. OneConn(k)
  BY <1>0 DEF ConnTypes, ConnRecord, OneConn, IsConn
<1>2. ConnBecomes(k, conn[k].phase, how, conn[k].closed, conn[k].incoming, conn[k].tasks, conn[k].tlp,
                  conn[k].toServer, <<>>)
  BY <1>0, <1>1 DEF ConnTypes, ConnRecord, ConnBecomes
<1> QED
  BY <1>2

LEMMA ConnectPort ==
  ASSUME ConnTypes, NEW c \in Clients, Connect(c), Fresh \in Conns
  PROVE \E p \in Openings[c] : ConnBecomes(Fresh, "asked", "open", FALSE, FALSE, {}, {}, <<p>>, <<>>)
<1>0. PICK k : k = Fresh
  OBVIOUS
<1>1. PICK p \in Openings[c] : conn' = [conn EXCEPT ![k] = [NoConn EXCEPT
         !.client = c, !.phase = "asked", !.peer = "open", !.toServer = <<p>>]]
  BY <1>0 DEF Connect
<1>2. OneConn(k)
  BY <1>0, <1>1 DEF ConnTypes, ConnRecord, OneConn, IsConn, NoConn
<1>3. ConnBecomes(k, "asked", "open", FALSE, FALSE, {}, {}, <<p>>, <<>>)
  BY <1>0, <1>1, <1>2 DEF ConnTypes, ConnRecord, ConnBecomes, NoConn
<1> QED
  BY <1>0, <1>3

\* The effect on the client of what changes one of its FIFOs
LEMMA ClientTakeEffect ==
  ASSUME ClientTypes, NEW c \in Clients, NEW k \in Conns, client[c].conn = k, ClientTake(c),
         NEW p, p = Head(conn[k].toClient), NEW ch, ch = ChannelOf(p)
  PROVE ClientBecomes(c, client[c].status, client[c].conn, client[c].incoming, client[c].tasks,
                      TlpAfter(p, client[c].tlp),
                      [client[c].fifo EXCEPT ![ch] =
                        IF ch \in ChannelsOf[c] THEN client[c].fifo[ch] \o Answers(p) ELSE client[c].fifo[ch]])
<1> DEFINE table == TlpAfter(p, client[c].tlp)
           queue == IF ch \in ChannelsOf[c] THEN client[c].fifo[ch] \o Answers(p) ELSE client[c].fifo[ch]
<1>0. client' = [client EXCEPT ![c].tlp = table, ![c].fifo[ch] = queue]
  BY DEF ClientTake, Reply
<1> HIDE DEF table, queue
<1>1. PICK q : q = [client[c].fifo EXCEPT ![ch] = queue]
  OBVIOUS
<1>2. PICK r : r = [client[c] EXCEPT !.tlp = table, !.fifo = q]
  OBVIOUS
<1>3. client' = [client EXCEPT ![c] = r]
  BY <1>0, <1>1, <1>2
<1>4. OneClient(c)
  BY <1>2, <1>3 DEF ClientTypes, ClientRecord, OneClient, IsClient
<1>5. ClientBecomes(c, client[c].status, client[c].conn, client[c].incoming, client[c].tasks, table,
                    q)
  BY <1>2, <1>3, <1>4 DEF ClientTypes, ClientRecord, ClientBecomes
<1> QED
  BY <1>1, <1>5 DEF table, queue

LEMMA ClientTaskEnds ==
  ASSUME ClientTypes, NEW c \in Clients, NEW ch \in Channels, NEW k \in Conns, client[c].conn = k, ClientSend(c, ch),
         NEW p, p = Head(client[c].fifo[ch]),
         p = Notification
  PROVE ClientBecomes(c, client[c].status, client[c].conn, client[c].incoming, client[c].tasks \ {ch},
                      client[c].tlp, [client[c].fifo EXCEPT ![ch] = Tail(client[c].fifo[ch])])
<1> DEFINE table == TlpAfter(p, client[c].tlp)
           queue == Tail(client[c].fifo[ch])
<1>0. client' = [client EXCEPT ![c].tasks = client[c].tasks \ {ch}, ![c].fifo[ch] = queue] /\ UNCHANGED <<conn,
                                                                                                          history>>
  BY DEF ClientSend
<1> HIDE DEF table, queue
<1>1. PICK q : q = [client[c].fifo EXCEPT ![ch] = queue]
  OBVIOUS
<1>2. PICK r : r = [client[c] EXCEPT !.tasks = client[c].tasks \ {ch}, !.fifo = q]
  OBVIOUS
<1>3. client' = [client EXCEPT ![c] = r]
  BY <1>0, <1>1, <1>2
<1>4. OneClient(c)
  BY <1>2, <1>3 DEF ClientTypes, ClientRecord, OneClient, IsClient
<1>5. ClientBecomes(c, client[c].status, client[c].conn, client[c].incoming, client[c].tasks \ {ch},
                    client[c].tlp, q)
  BY <1>2, <1>3, <1>4 DEF ClientTypes, ClientRecord, ClientBecomes
<1> QED
  BY <1>1, <1>5 DEF table, queue

LEMMA ClientSends ==
  ASSUME ClientTypes, NEW c \in Clients, NEW ch \in Channels, NEW k \in Conns, client[c].conn = k, ClientSend(c, ch),
         NEW p, p = Head(client[c].fifo[ch]),
         p # Notification, ~TlpFails(p, client[c].tlp), ~conn[k].closed
  PROVE ClientBecomes(c, client[c].status, client[c].conn, client[c].incoming, client[c].tasks,
                      TlpAfter(p, client[c].tlp), [client[c].fifo EXCEPT ![ch] = Tail(client[c].fifo[ch])])
<1> DEFINE table == TlpAfter(p, client[c].tlp)
           queue == Tail(client[c].fifo[ch])
<1>0. client' = [client EXCEPT ![c].tlp = table, ![c].fifo[ch] = queue]
  BY DEF ClientSend
<1> HIDE DEF table, queue
<1>1. PICK q : q = [client[c].fifo EXCEPT ![ch] = queue]
  OBVIOUS
<1>2. PICK r : r = [client[c] EXCEPT !.tlp = table, !.fifo = q]
  OBVIOUS
<1>3. client' = [client EXCEPT ![c] = r]
  BY <1>0, <1>1, <1>2
<1>4. OneClient(c)
  BY <1>2, <1>3 DEF ClientTypes, ClientRecord, OneClient, IsClient
<1>5. ClientBecomes(c, client[c].status, client[c].conn, client[c].incoming, client[c].tasks, table,
                    q)
  BY <1>2, <1>3, <1>4 DEF ClientTypes, ClientRecord, ClientBecomes
<1> QED
  BY <1>1, <1>5 DEF table, queue

LEMMA ClientTaskFails ==
  ASSUME ClientTypes, NEW c \in Clients, NEW ch \in Channels, NEW k \in Conns, client[c].conn = k, ClientSend(c, ch),
         NEW p, p = Head(client[c].fifo[ch]),
         p # Notification, TlpFails(p, client[c].tlp) \/ conn[k].closed
  PROVE ClientBecomes(c, "STOPPED", client[c].conn, client[c].incoming, client[c].tasks \ {ch}, client[c].tlp,
                      [client[c].fifo EXCEPT ![ch] = Tail(client[c].fifo[ch])])
<1> DEFINE table == TlpAfter(p, client[c].tlp)
           queue == Tail(client[c].fifo[ch])
<1>0. client' = [client EXCEPT ![c].tasks = client[c].tasks \ {ch}, ![c].fifo[ch] = queue, ![c].status = "STOPPED"]
  BY DEF ClientSend
<1> HIDE DEF table, queue
<1>1. PICK q : q = [client[c].fifo EXCEPT ![ch] = queue]
  OBVIOUS
<1>2. PICK r : r = [client[c] EXCEPT !.tasks = client[c].tasks \ {ch}, !.fifo = q, !.status = "STOPPED"]
  OBVIOUS
<1>3. client' = [client EXCEPT ![c] = r]
  BY <1>0, <1>1, <1>2
<1>4. OneClient(c)
  BY <1>2, <1>3 DEF ClientTypes, ClientRecord, OneClient, IsClient
<1>5. ClientBecomes(c, "STOPPED", client[c].conn, client[c].incoming, client[c].tasks \ {ch}, client[c].tlp,
                    q)
  BY <1>2, <1>3, <1>4 DEF ClientTypes, ClientRecord, ClientBecomes
<1> QED
  BY <1>1, <1>5 DEF table, queue

LEMMA ClientSendPort ==
  ASSUME ConnTypes, NEW c \in Clients, NEW ch \in Channels, NEW k \in Conns, client[c].conn = k, ClientSend(c, ch),
         NEW p, p = Head(client[c].fifo[ch])
  PROVE /\ p # Notification /\ ~TlpFails(p, client[c].tlp) /\ ~conn[k].closed =>
             ConnBecomes(k, conn[k].phase, conn[k].peer, conn[k].closed, conn[k].incoming, conn[k].tasks,
                         conn[k].tlp, Append(conn[k].toServer, p), conn[k].toClient)
        /\ ~(p # Notification /\ ~TlpFails(p, client[c].tlp) /\ ~conn[k].closed) => UNCHANGED conn
<1>1. ASSUME p # Notification, ~TlpFails(p, client[c].tlp), ~conn[k].closed
      PROVE ConnBecomes(k, conn[k].phase, conn[k].peer, conn[k].closed, conn[k].incoming, conn[k].tasks,
                        conn[k].tlp, Append(conn[k].toServer, p), conn[k].toClient)
  <2>0. conn' = [conn EXCEPT ![k].toServer = Append(conn[k].toServer, p)]
    BY <1>1 DEF ClientSend
  <2>1. OneConn(k)
    BY <2>0 DEF ConnTypes, ConnRecord, OneConn, IsConn
  <2> QED
    BY <2>0, <2>1 DEF ConnTypes, ConnRecord, ConnBecomes
<1>2. ASSUME ~(p # Notification /\ ~TlpFails(p, client[c].tlp) /\ ~conn[k].closed)
      PROVE UNCHANGED conn
  BY <1>2 DEF ClientSend
<1> QED
  BY <1>1, <1>2

----------------------------------------------------------------------------
(* From one connection or client to the invariant.                         *)

\* A record of typed fields is typed.
LEMMA ConnKept ==
  ASSUME ConnTypes, NEW k \in Conns, NEW phase \in Phases, NEW peer \in Peers, NEW closed, NEW incoming,
         NEW tasks \in SUBSET Channels, NEW tlp \in SUBSET (0 .. 255),
         NEW toServer \in Seq(PacketSet), NEW toClient \in Seq(PacketSet),
         ConnBecomes(k, phase, peer, closed, incoming, tasks, tlp, toServer, toClient)
  PROVE ConnTypes'
<1>1. conn'[k] \in ConnRecord
  BY DEF ConnBecomes, OneConn, IsConn, ConnRecord
<1> QED
  BY <1>1 DEF ConnBecomes, OneConn, ConnTypes

LEMMA ClientKept ==
  ASSUME ClientTypes, NEW c \in Clients, NEW status \in Statuses, NEW its \in Conns \cup {None}, NEW incoming,
         NEW tasks \in SUBSET Channels, NEW tlp \in SUBSET (0 .. 255), NEW queues \in Fifos,
         ClientBecomes(c, status, its, incoming, tasks, tlp, queues)
  PROVE ClientTypes'
<1>1. client'[c] \in ClientRecord
  BY DEF ClientBecomes, OneClient, IsClient, ClientRecord
<1> QED
  BY <1>1 DEF ClientBecomes, OneClient, ClientTypes

\* A step of the server, which changes one connection and no client
LEMMA ServerRules ==
  ASSUME FlowInv, NEW k \in Conns, ConnTypes', OneConn(k), client' = client, PortTypes', PortRule', ConnRule(k)',
         conn'[k].phase # "none",
         conn[k].phase # "asked" =>
           conn'[k].phase # "asked" /\ (Only(conn[k].toClient, HostPackets) => Only(conn[k].toClient, HostPackets)')
  PROVE FlowInv'
<1>1. \A j \in Conns : ConnRule(j)'
  BY DEF FlowInv, Rules, ConnRule, OneConn, Only
<1>2. ASSUME NEW c \in Clients PROVE ClientRule(c)'
  <2>1. ClientRule(c)
    BY DEF FlowInv, Rules
  <2>2. ASSUME NEW j \in Conns, client[c].conn = j
        PROVE conn'[j].phase # "none" /\ (client[c].status # "STARTING" => Serves(j)')
    <3>1. CASE j = k
      BY <2>1, <2>2, <3>1 DEF ClientRule, Serves
    <3>2. CASE j # k
      BY <2>1, <2>2, <3>2 DEF ClientRule, Serves, OneConn, Only
    <3> QED
      BY <3>1, <3>2
  <2>3. Idle(c) => Idle(c)'
    BY DEF Idle
  <2> QED
    BY <2>1, <2>2, <2>3 DEF ClientRule, Only
<1>3. Alone'
  BY DEF FlowInv, Rules, Alone
<1>4. ClientTypes'
  BY DEF FlowInv, Types, ClientTypes
<1> QED
  BY <1>1, <1>2, <1>3, <1>4 DEF FlowInv, Rules, Types

\* A step of one client, which changes no connection of another
LEMMA ClientRules ==
  ASSUME FlowInv, NEW c \in Clients, ClientTypes', OneClient(c), ConnTypes', PortTypes', fifo' = fifo,
         \A k \in Conns : ConnRule(k)', ClientRule(c)', Alone',
         \A k \in Conns : client[c].conn # k => conn'[k] = conn[k] \/ conn[k].phase = "none"
  PROVE FlowInv'
<1>1. PortRule'
  BY DEF FlowInv, Rules, PortRule, Only
<1>2. ASSUME NEW d \in Clients PROVE ClientRule(d)'
  <2>1. CASE d = c
    BY <2>1
  <2>2. CASE d # c
    <3>1. ClientRule(d) /\ client'[d] = client[d]
      BY <2>2 DEF FlowInv, Rules, OneClient
    <3>2. ASSUME NEW j \in Conns, client[d].conn = j
          PROVE conn'[j].phase # "none" /\ (client[d].status # "STARTING" => Serves(j)')
      <4>1. client[c].conn # j
        BY <2>2, <3>2, ConnectionAssumption DEF FlowInv, Rules, Alone
      <4>2. conn'[j] = conn[j]
        BY <3>1, <3>2, <4>1 DEF ClientRule
      <4> QED
        BY <3>1, <3>2, <4>2 DEF ClientRule, Serves, Only
    <3>3. Idle(d) => Idle(d)'
      BY <3>1 DEF Idle
    <3> QED
      BY <3>1, <3>2, <3>3 DEF ClientRule, Only
  <2> QED
    BY <2>1, <2>2
<1> QED
  BY <1>1, <1>2 DEF FlowInv, Rules, Types

\* The port's side of the state stays.
LEMMA PortStays ==
  ASSUME FlowInv, UNCHANGED <<connected, fifo, tag, sent, waiting>>,
         history' \subseteq {"dropped", "unsent", "unpaired", "reused"}
  PROVE PortTypes' /\ PortRule'
BY DEF FlowInv, Types, Rules, PortTypes, PortRule, Only

\* A FIFO that takes one answer
LEMMA ConcatOne ==
  ASSUME NEW S, NEW s \in Seq(S), NEW a \in S
  PROVE s \o <<a>> = Append(s, a)
OBVIOUS

\* All of these are packets.
LEMMA PacketsAre ==
  /\ Sideband(CONNECTION_ACCEPT) \in PacketSet /\ Sideband(CONNECTION_REJECT) \in PacketSet
  /\ Notification \in PacketSet /\ HostPackets \subseteq PacketSet /\ DevicePackets \subseteq PacketSet
BY DEF PacketSet, Greetings

\* What a table holds is a tag of 8 bits.
LEMMA TableHost ==
  ASSUME NEW p \in HostPackets, NEW tlp
  PROVE /\ TlpAfter(p, tlp) = tlp \cup OwnTag(p) /\ (TlpFails(p, tlp) <=> OwnTag(p) \cap tlp # {})
        /\ OwnTag(p) \subseteq 0 .. 255
<1>1. Fine(p) /\ ~Leaves(p) /\ OwnTag(p) \subseteq 0 .. Tags - 1
  BY HostFacts
<1> QED
  BY <1>1, ConnectionAssumption DEF TlpAfter, TlpFails, OwnTag, Tagged

\* A packet of a device removes its own tag, and fails if it is not there.
LEMMA TableDevice ==
  ASSUME NEW p \in DevicePackets, NEW tlp
  PROVE /\ TlpAfter(p, tlp) = tlp \ OwnTag(p) /\ (TlpFails(p, tlp) <=> ~(OwnTag(p) \subseteq tlp))
        /\ OwnTag(p) \subseteq 0 .. 255
<1>1. Fine(p) /\ ~Enters(p) /\ OwnTag(p) \subseteq 0 .. Tags - 1
  BY DeviceFacts
<1> QED
  BY <1>1, ConnectionAssumption DEF TlpAfter, TlpFails, OwnTag, Tagged

----------------------------------------------------------------------------
(* The steps of the server.                                                *)

\* What the invariant says of one connection
LEMMA ConnIs ==
  ASSUME FlowInv, NEW k \in Conns
  PROVE /\ ConnTypes /\ ClientTypes /\ ConnRule(k)
        /\ conn[k].phase \in Phases /\ conn[k].peer \in Peers /\ conn[k].tasks \in SUBSET Channels
        /\ conn[k].toServer \in Seq(PacketSet) /\ conn[k].toClient \in Seq(PacketSet)
<1>1. ConnTypes /\ ClientTypes /\ ConnRule(k)
  BY DEF FlowInv, Types, Rules
<1>2. conn[k] \in ConnRecord
  BY <1>1 DEF ConnTypes
<1> QED
  BY <1>1, <1>2 DEF ConnRecord

LEMMA TlpIs ==
  ASSUME FlowInv, NEW k \in Conns
  PROVE  conn[k].tlp \in SUBSET (0 .. 255)
BY DEF FlowInv, Types, ConnTypes, ConnRecord

\* ... of one client
LEMMA ClientIs ==
  ASSUME FlowInv, NEW c \in Clients
  PROVE /\ ClientTypes /\ ConnTypes /\ ClientRule(c) /\ Alone
        /\ client[c].status \in Statuses /\ client[c].conn \in Conns \cup {None}
        /\ client[c].tasks \in SUBSET Channels /\ client[c].tlp \in SUBSET (0 .. 255)
        /\ client[c].fifo \in Fifos
BY DEF FlowInv, Types, Rules, ClientTypes, ClientRecord

\* ... of the port
LEMMA PortIs ==
  ASSUME FlowInv
  PROVE /\ fifo \in Fifos /\ PortRule /\ history \subseteq {"dropped", "unsent", "unpaired", "reused"}
BY DEF FlowInv, Types, Rules, PortTypes

\* A rejection ends what the client has sent, and is the answer it reads.
LEMMA RejectFlows ==
  ASSUME FlowInv, NEW k \in Conns, Reject(k)
  PROVE FlowInv'
<1>a. /\ ConnTypes /\ ClientTypes /\ ConnRule(k)
      /\ conn[k].phase \in Phases /\ conn[k].peer \in Peers /\ conn[k].tasks \in SUBSET Channels
      /\ conn[k].toServer \in Seq(PacketSet) /\ conn[k].toClient \in Seq(PacketSet)
  BY ConnIs
<1>b. conn[k].tlp \in SUBSET (0 .. 255)
  BY TlpIs
<1> USE <1>a, <1>b
<1>1. ConnBecomes(k, "closed", conn[k].peer, TRUE, conn[k].incoming, conn[k].tasks, conn[k].tlp,
                  <<>>, Append(conn[k].toClient, Sideband(CONNECTION_REJECT)))
  BY RejectEffect
<1>2. PICK out : out = Append(conn[k].toClient, Sideband(CONNECTION_REJECT))
  OBVIOUS
<1>3. conn[k].phase = "asked" /\ conn[k].toClient = <<>>
  BY DEF Reject, ConnRule
<1>4. out \in Seq(PacketSet) /\ Len(out) = 1
  BY <1>2, <1>3, PacketsAre
<1>5. ConnTypes'
  <2>1. "closed" \in Phases /\ <<>> \in Seq(PacketSet)
    BY DEF Phases
  <2> QED
    BY <1>1, <1>2, <1>4, <2>1, ConnKept
<1>6. ConnRule(k)'
  BY <1>1, <1>2, <1>3, <1>4 DEF ConnRule, ConnBecomes, Only
<1>7. PortTypes' /\ PortRule'
  BY PortStays, PortIs DEF Reject
<1>8. OneConn(k) /\ conn'[k].phase = "closed" /\ client' = client
  BY <1>1 DEF ConnBecomes, Reject
<1> QED
  BY <1>3, <1>5, <1>6, <1>7, <1>8, ServerRules

\* A confirmation comes before any packet of the host.
LEMMA AcceptFlows ==
  ASSUME FlowInv, NEW k \in Conns, Accept(k)
  PROVE FlowInv'
<1>a. /\ ConnTypes /\ ClientTypes /\ ConnRule(k)
      /\ conn[k].phase \in Phases /\ conn[k].peer \in Peers /\ conn[k].tasks \in SUBSET Channels
      /\ conn[k].toServer \in Seq(PacketSet) /\ conn[k].toClient \in Seq(PacketSet)
  BY ConnIs
<1>b. conn[k].tlp \in SUBSET (0 .. 255)
  BY TlpIs
<1> USE <1>a, <1>b
<1>0. /\ conn[k].phase = "asked" /\ conn[k].toClient = <<>> /\ Len(conn[k].toServer) = 1
      /\ conn[k].tasks = {} /\ ~conn[k].incoming
  <2>1. /\ conn[k].phase = "asked" /\ conn[k].toClient = <<>> /\ Len(conn[k].toServer) <= 1
        /\ conn[k].tasks = {} /\ ~conn[k].incoming
    BY DEF Accept, ConnRule
  <2>2. PICK s : s = conn[k].toServer
    OBVIOUS
  <2>3. s # <<>> /\ s \in Seq(PacketSet) /\ Len(s) <= 1
    BY <2>1, <2>2 DEF Accept
  <2> HIDE <1>a, <1>b
  <2>4. Len(s) \in Nat \ {0}
    BY <2>3, EmptySeq
  <2>5. Len(s) = 1
    BY <2>3, <2>4
  <2> QED
    BY <2>1, <2>2, <2>5
<1>1. PortTypes' /\ PortRule' /\ client' = client
  <2>1. PortTypes'
    BY PortIs DEF Accept, FlowInv, Types, PortTypes
  <2>2. PortRule'
    BY PortIs DEF Accept, PortRule, Only
  <2> QED
    BY <2>1, <2>2 DEF Accept
<1>2. CASE conn[k].peer = "reset"
  <2>1. ConnBecomes(k, "draining", conn[k].peer, conn[k].closed, conn[k].incoming, conn[k].tasks, conn[k].tlp,
                    <<>>, conn[k].toClient)
    BY <1>2, DrainEffect
  <2>2. ConnTypes'
    <3>1. "draining" \in Phases /\ <<>> \in Seq(PacketSet)
      BY DEF Phases
    <3> QED
      BY <2>1, <3>1, ConnKept
  <2>3. ConnRule(k)'
    BY <1>0, <2>1 DEF ConnRule, ConnBecomes, Only
  <2>4. OneConn(k) /\ conn'[k].phase = "draining"
    BY <2>1 DEF ConnBecomes
  <2> QED
    BY <1>0, <1>1, <2>2, <2>3, <2>4, ServerRules
<1>3. CASE conn[k].peer # "reset"
  <2> DEFINE all == FifosOf("DSP") \cap Channels
             rest == Tail(conn[k].toServer)
             out == Append(conn[k].toClient, Sideband(CONNECTION_ACCEPT))
  <2>1. ConnBecomes(k, "running", conn[k].peer, conn[k].closed, TRUE, all, conn[k].tlp, rest, out)
    BY <1>3, AcceptEffect
  <2>2. all \in SUBSET Channels /\ rest \in Seq(PacketSet) /\ Len(rest) = 0
    <3>1. PICK s : s = conn[k].toServer
      OBVIOUS
    <3>2. s \in Seq(PacketSet) /\ Len(s) = 1
      BY <1>0, <3>1
    <3> HIDE <1>a, <1>b
    <3>3. Tail(s) \in Seq(PacketSet) /\ Len(Tail(s)) = 0
      BY <3>2, HeadTailProperties, EmptySeq
    <3>4. all \in SUBSET Channels
      OBVIOUS
    <3> QED
      BY <3>1, <3>3, <3>4
  <2>3. out \in Seq(PacketSet) /\ Len(out) = 1
    <3> HIDE <1>a, <1>b
    <3>1. out = Append(<<>>, Sideband(CONNECTION_ACCEPT))
      BY <1>0
    <3> QED
      BY <3>1, PacketsAre
  <2> HIDE DEF all, rest, out
  <2>4. ConnTypes'
    <3>1. "running" \in Phases
      BY DEF Phases
    <3> QED
      BY <2>1, <2>2, <2>3, <3>1, ConnKept
  <2>5. ConnRule(k)'
    <3>1. /\ conn'[k].phase = "running" /\ conn'[k].toServer = rest /\ conn'[k].toClient = out
          /\ Len(rest) = 0 /\ Len(out) = 1
      BY <2>1, <2>2, <2>3 DEF ConnBecomes
    <3>2. Only(rest, DevicePackets)
      BY <3>1 DEF Only
    <3> QED
      BY <3>1, <3>2 DEF ConnRule
  <2>6. OneConn(k) /\ conn'[k].phase = "running"
    BY <2>1 DEF ConnBecomes
  <2> QED
    BY <1>0, <1>1, <2>4, <2>5, <2>6, ServerRules
<1> QED
  BY <1>2, <1>3

\* The end of a handler leaves the queues.
LEMMA CloseFlows ==
  ASSUME FlowInv, NEW k \in Conns, DrainFails(k) \/ ServerEnds(k)
  PROVE FlowInv'
<1>a. /\ ConnTypes /\ ClientTypes /\ ConnRule(k)
      /\ conn[k].phase \in Phases /\ conn[k].peer \in Peers /\ conn[k].tasks \in SUBSET Channels
      /\ conn[k].toServer \in Seq(PacketSet) /\ conn[k].toClient \in Seq(PacketSet)
  BY ConnIs
<1>b. conn[k].tlp \in SUBSET (0 .. 255)
  BY TlpIs
<1> USE <1>a, <1>b
<1>1. ConnBecomes(k, "closed", conn[k].peer, TRUE, conn[k].incoming, conn[k].tasks, conn[k].tlp,
                  conn[k].toServer, conn[k].toClient)
  BY CloseEffect
<1>2. conn[k].phase \in {"draining", "running"}
  BY DEF DrainFails, ServerEnds
<1>3. ConnTypes'
  <2>1. "closed" \in Phases
    BY DEF Phases
  <2> QED
    BY <1>1, <2>1, ConnKept
<1>4. ConnRule(k)'
  BY <1>1, <1>2 DEF ConnRule, ConnBecomes, Only
<1>5. PortTypes' /\ PortRule' /\ client' = client
  <2>1. PortTypes'
    BY PortIs DEF DrainFails, ServerEnds, FreePort, FlowInv, Types, PortTypes
  <2>2. PortRule'
    BY PortIs DEF DrainFails, ServerEnds, PortRule, Only
  <2> QED
    BY <2>1, <2>2 DEF DrainFails, ServerEnds
<1>6. OneConn(k) /\ conn'[k].phase = "closed" /\ conn'[k].toClient = conn[k].toClient
  BY <1>1 DEF ConnBecomes
<1> QED
  BY <1>3, <1>4, <1>5, <1>6, ServerRules DEF Only

\* What the server takes is a device's packet, and leaves its table.
LEMMA ServerTakeFlows ==
  ASSUME FlowInv, NEW k \in Conns, ServerTake(k)
  PROVE FlowInv'
<1>a. /\ ConnTypes /\ ClientTypes /\ ConnRule(k)
      /\ conn[k].phase \in Phases /\ conn[k].peer \in Peers /\ conn[k].tasks \in SUBSET Channels
      /\ conn[k].toServer \in Seq(PacketSet) /\ conn[k].toClient \in Seq(PacketSet)
  BY ConnIs
<1>b. conn[k].tlp \in SUBSET (0 .. 255)
  BY TlpIs
<1> USE <1>a, <1>b
<1> DEFINE p == Head(conn[k].toServer)
           table == TlpAfter(p, conn[k].tlp)
           rest == Tail(conn[k].toServer)
<1>1. ConnBecomes(k, conn[k].phase, conn[k].peer, conn[k].closed, conn[k].incoming, conn[k].tasks, table,
                  rest, conn[k].toClient)
  BY ServerTakeEffect
<1>2. conn[k].phase \in {"running", "closed"} /\ conn[k].toServer # <<>>
  BY DEF ServerTake, ConnRule
<1>3. p \in DevicePackets /\ Only(rest, DevicePackets) /\ rest \in Seq(PacketSet)
  <2>1. Only(conn[k].toServer, DevicePackets)
    BY <1>2 DEF ConnRule
  <2> QED
    BY <1>2, <2>1, OnlyTail
<1>4. table \in SUBSET (0 .. 255)
  <2>1. table = conn[k].tlp \ OwnTag(p)
    BY <1>3, TableDevice
  <2>2. conn[k].tlp \in SUBSET (0 .. 255)
    OBVIOUS
  <2> QED
    BY <2>1, <2>2
<1>5. PortTypes' /\ PortRule' /\ client' = client
  <2>1. waiting' \subseteq waiting
    BY DEF ServerTake
  <2>2. PortTypes'
    BY <2>1, PortIs DEF ServerTake, FlowInv, Types, PortTypes
  <2>3. PortRule'
    BY PortIs DEF ServerTake, PortRule, Only
  <2> QED
    BY <2>2, <2>3 DEF ServerTake
<1> HIDE DEF p, table, rest
<1>6. ConnTypes'
  BY <1>1, <1>3, <1>4, ConnKept
<1>7. ConnRule(k)'
  BY <1>1, <1>2, <1>3 DEF ConnRule, ConnBecomes, Only
<1>8. OneConn(k) /\ conn'[k].phase = conn[k].phase /\ conn'[k].toClient = conn[k].toClient
  BY <1>1 DEF ConnBecomes
<1> QED
  BY <1>2, <1>5, <1>6, <1>7, <1>8, ServerRules DEF Only

\* The end of the reader puts a notification into every FIFO.
LEMMA ServerLosesFlows ==
  ASSUME FlowInv, NEW k \in Conns, ServerLosesReader(k)
  PROVE FlowInv'
<1>a. /\ ConnTypes /\ ClientTypes /\ ConnRule(k)
      /\ conn[k].phase \in Phases /\ conn[k].peer \in Peers /\ conn[k].tasks \in SUBSET Channels
      /\ conn[k].toServer \in Seq(PacketSet) /\ conn[k].toClient \in Seq(PacketSet)
  BY ConnIs
<1>b. conn[k].tlp \in SUBSET (0 .. 255)
  BY TlpIs
<1> USE <1>a, <1>b
<1>1. ConnBecomes(k, conn[k].phase, conn[k].peer, conn[k].closed, FALSE, conn[k].tasks, conn[k].tlp,
                  <<>>, conn[k].toClient)
  BY ServerLosesEffect
<1>2. conn[k].phase \in {"running", "closed"}
  BY DEF ServerLosesReader, ConnRule
<1>3. ConnTypes'
  <2>1. <<>> \in Seq(PacketSet)
    OBVIOUS
  <2> QED
    BY <1>1, <2>1, ConnKept
<1>4. ConnRule(k)'
  BY <1>1, <1>2 DEF ConnRule, ConnBecomes, Only
<1>5. PortTypes' /\ PortRule' /\ client' = client
  <2>1. fifo' = [ch \in Channels |-> Append(fifo[ch], Notification)]
    BY PortIs DEF ServerLosesReader, ServerNotifies, Notified, Fifos
  <2>2. \A ch \in Channels : fifo'[ch] = Append(fifo[ch], Notification) /\ fifo[ch] \in Seq(PacketSet)
    BY <2>1, PortIs DEF Fifos
  <2>3. fifo' \in Fifos
    BY <2>1, <2>2, PacketsAre DEF Fifos
  <2>4. ASSUME NEW ch \in Channels PROVE Only(fifo'[ch], HostPackets \cup {Notification})
    <3>1. Only(fifo[ch], HostPackets \cup {Notification}) /\ Notification \in HostPackets \cup {Notification}
      BY PortIs DEF PortRule
    <3>2. PICK q : q = fifo[ch]
      OBVIOUS
    <3>3. q \in Seq(PacketSet) /\ fifo'[ch] = Append(q, Notification)
      BY <2>2, <3>2
    <3>4. Only(Append(q, Notification), HostPackets \cup {Notification})
      BY <3>1, <3>2, <3>3, OnlyAppend
    <3> QED
      BY <3>3, <3>4
  <2>5. history' \subseteq {"dropped", "unsent", "unpaired", "reused"}
    BY PortIs DEF ServerLosesReader
  <2> QED
    BY <2>3, <2>4, <2>5 DEF ServerLosesReader, PortTypes, PortRule, FlowInv, Types, Only
<1>6. OneConn(k) /\ conn'[k].phase = conn[k].phase /\ conn'[k].toClient = conn[k].toClient
  BY <1>1 DEF ConnBecomes
<1> QED
  BY <1>2, <1>3, <1>4, <1>5, <1>6, ServerRules DEF Only

\* Taking the first packet of a FIFO of the port
LEMMA FifoTaken ==
  ASSUME FlowInv, NEW ch \in Channels, fifo[ch] # <<>>, fifo' = [fifo EXCEPT ![ch] = Tail(fifo[ch])]
  PROVE /\ fifo[ch] \in Seq(PacketSet) /\ Head(fifo[ch]) \in HostPackets \cup {Notification}
        /\ fifo' \in Fifos /\ PortRule'
<1>1. fifo \in Fifos /\ PortRule
  BY PortIs
<1>2. PICK q : q = fifo[ch]
  OBVIOUS
<1>3. q \in Seq(PacketSet) /\ q # <<>> /\ Only(q, HostPackets \cup {Notification})
  BY <1>1, <1>2 DEF Fifos, PortRule
<1>4. Head(q) \in HostPackets \cup {Notification} /\ Only(Tail(q), HostPackets \cup {Notification})
  BY <1>3, OnlyTail
<1>5. Tail(q) \in Seq(PacketSet)
  BY <1>3, HeadTailProperties
<1>6. fifo' = [fifo EXCEPT ![ch] = Tail(q)]
  BY <1>2
<1>7. fifo' \in Fifos
  BY <1>1, <1>5, <1>6 DEF Fifos
<1>8. ASSUME NEW o \in Channels PROVE Only(fifo'[o], HostPackets \cup {Notification})
  <2>1. CASE o = ch
    BY <1>1, <1>4, <1>6, <2>1 DEF Fifos
  <2>2. CASE o # ch
    <3>1. fifo'[o] = fifo[o]
      BY <1>1, <1>6, <2>2 DEF Fifos
    <3> QED
      BY <1>1, <3>1 DEF PortRule
  <2> QED
    BY <2>1, <2>2
<1>9. PortRule'
  BY <1>8 DEF PortRule, Only
<1> QED
  BY <1>2, <1>3, <1>4, <1>7, <1>9

\* What the server sends is a packet of the host, behind the confirmation.
LEMMA ServerSendFlows ==
  ASSUME FlowInv, NEW k \in Conns, NEW ch \in Channels, ServerSend(k, ch)
  PROVE FlowInv'
<1>1. /\ ConnTypes /\ ConnRule(k) /\ conn[k].phase \in Phases /\ conn[k].peer \in Peers
      /\ conn[k].tasks \in SUBSET Channels /\ conn[k].tlp \in SUBSET (0 .. 255)
      /\ conn[k].toServer \in Seq(PacketSet) /\ conn[k].toClient \in Seq(PacketSet)
  <2>1. conn[k].tlp \in SUBSET (0 .. 255)
    BY TlpIs
  <2>2. /\ ConnTypes /\ ConnRule(k) /\ conn[k].phase \in Phases /\ conn[k].peer \in Peers
        /\ conn[k].tasks \in SUBSET Channels /\ conn[k].toServer \in Seq(PacketSet)
        /\ conn[k].toClient \in Seq(PacketSet)
    BY ConnIs
  <2> QED
    BY <2>1, <2>2
<1>2. conn[k].phase \in {"running", "closed"} /\ fifo[ch] # <<>> /\ client' = client
  BY <1>1 DEF ServerSend, ConnRule
<1>3. PICK p : p = Head(fifo[ch])
  OBVIOUS
<1>4. p \in HostPackets \cup {Notification} /\ fifo' \in Fifos /\ PortRule'
  BY <1>2, <1>3, FifoTaken DEF ServerSend
<1>5. PortTypes'
  BY <1>4, PortIs DEF ServerSend, FlowInv, Types, PortTypes
<1>6. CASE p = Notification
  <2>1. ConnBecomes(k, conn[k].phase, conn[k].peer, conn[k].closed, conn[k].incoming, conn[k].tasks \ {ch},
                    conn[k].tlp, conn[k].toServer, conn[k].toClient)
    BY <1>1, <1>3, <1>6, TaskEndsEffect
  <2>2. conn[k].tasks \ {ch} \in SUBSET Channels
    BY <1>1
  <2>3. ConnTypes'
    BY <1>1, <2>1, <2>2, ConnKept
  <2>4. ConnRule(k)'
    BY <1>1, <1>2, <2>1 DEF ConnRule, ConnBecomes, Only
  <2>5. OneConn(k) /\ conn'[k].phase = conn[k].phase /\ conn'[k].toClient = conn[k].toClient
    BY <2>1 DEF ConnBecomes
  <2> QED
    BY <1>2, <1>4, <1>5, <2>3, <2>4, <2>5, ServerRules DEF Only
<1>7. CASE p # Notification
  <2> DEFINE table == TlpAfter(Head(fifo[ch]), conn[k].tlp)
             peer == IF conn[k].peer = "eof" THEN "reset" ELSE conn[k].peer
             out == IF conn[k].peer = "open" THEN Append(conn[k].toClient, Head(fifo[ch])) ELSE conn[k].toClient
  <2>1. ConnBecomes(k, conn[k].phase, peer, conn[k].closed, conn[k].incoming, conn[k].tasks, table,
                    conn[k].toServer, out)
    BY <1>1, <1>3, <1>7, ServerSendEffect
  <2>2. peer \in Peers
    BY <1>1 DEF Peers
  <2>3. p \in HostPackets
    BY <1>4, <1>7
  <2>4. table \in SUBSET (0 .. 255)
    <3>1. table = conn[k].tlp \cup OwnTag(p) /\ OwnTag(p) \subseteq 0 .. 255
      BY <1>3, <2>3, TableHost
    <3> QED
      BY <1>1, <3>1
  <2>5. /\ out \in Seq(PacketSet)
        /\ \A i \in 2 .. Len(out) : out[i] \in HostPackets
        /\ Only(conn[k].toClient, HostPackets) => Only(out, HostPackets)
    <3>1. PICK s : s = conn[k].toClient
      OBVIOUS
    <3>2. s \in Seq(PacketSet) /\ p \in PacketSet /\ \A i \in 2 .. Len(s) : s[i] \in HostPackets
      BY <1>1, <2>3, <3>1, PacketsAre DEF ConnRule
    <3>3. out = IF conn[k].peer = "open" THEN Append(s, p) ELSE s
      BY <1>3, <3>1
    <3> HIDE DEF out
    <3>4. CASE conn[k].peer = "open"
      <4>1. out = Append(s, p)
        BY <3>3, <3>4
      <4>2. out \in Seq(PacketSet) /\ \A i \in 2 .. Len(out) : out[i] \in HostPackets
        <5>1. out \in Seq(PacketSet) /\ Len(out) = Len(s) + 1 /\ Len(s) \in Nat
          BY <3>2, <4>1, AppendProperties, LenProperties
        <5>2. out[Len(s) + 1] = p /\ \A i \in 1 .. Len(s) : out[i] = s[i]
          BY <3>2, <4>1, AppendProperties
        <5>3. ASSUME NEW i \in 2 .. Len(out) PROVE out[i] \in HostPackets
          <6>1. i = Len(s) + 1 \/ (i \in 2 .. Len(s) /\ i \in 1 .. Len(s))
            BY <5>1
          <6> QED
            BY <2>3, <3>2, <5>2, <6>1
        <5> QED
          BY <5>1, <5>3
      <4>3. Only(s, HostPackets) => Only(out, HostPackets)
        BY <2>3, <3>2, <4>1, OnlyAppend
      <4> QED
        BY <3>1, <4>2, <4>3
    <3>5. CASE conn[k].peer # "open"
      BY <3>1, <3>2, <3>3, <3>5
    <3> QED
      BY <3>4, <3>5
  <2> HIDE DEF table, peer, out
  <2>6. ConnTypes'
    BY <1>1, <2>1, <2>2, <2>4, <2>5, ConnKept
  <2>7. ConnRule(k)'
    BY <1>1, <1>2, <2>1, <2>5 DEF ConnRule, ConnBecomes, Only
  <2>8. OneConn(k) /\ conn'[k].phase = conn[k].phase /\ conn'[k].toClient = out
    BY <2>1 DEF ConnBecomes
  <2> QED
    BY <1>2, <1>4, <1>5, <2>5, <2>6, <2>7, <2>8, ServerRules DEF Only
<1> QED
  BY <1>6, <1>7

\* A failing task loses its packet.
LEMMA TaskFailsFlows ==
  ASSUME FlowInv, NEW k \in Conns, NEW ch \in Channels, ServerTaskFails(k, ch)
  PROVE FlowInv'
<1>1. /\ ConnTypes /\ ConnRule(k) /\ conn[k].phase \in Phases /\ conn[k].peer \in Peers
      /\ conn[k].tasks \in SUBSET Channels /\ conn[k].tlp \in SUBSET (0 .. 255)
      /\ conn[k].toServer \in Seq(PacketSet) /\ conn[k].toClient \in Seq(PacketSet)
  <2>1. conn[k].tlp \in SUBSET (0 .. 255)
    BY TlpIs
  <2>2. /\ ConnTypes /\ ConnRule(k) /\ conn[k].phase \in Phases /\ conn[k].peer \in Peers
        /\ conn[k].tasks \in SUBSET Channels /\ conn[k].toServer \in Seq(PacketSet)
        /\ conn[k].toClient \in Seq(PacketSet)
    BY ConnIs
  <2> QED
    BY <2>1, <2>2
<1>2. conn[k].phase \in {"running", "closed"} /\ fifo[ch] # <<>> /\ client' = client
  BY <1>1 DEF ServerTaskFails, ConnRule
<1>3. fifo' \in Fifos /\ PortRule'
  BY <1>2, FifoTaken DEF ServerTaskFails
<1>4. PortTypes'
  <2>1. connected' \in BOOLEAN
    BY DEF ServerTaskFails, FlowInv, Types, PortTypes
  <2>2. history' \subseteq {"dropped", "unsent", "unpaired", "reused"}
    BY PortIs DEF ServerTaskFails
  <2> QED
    BY <1>3, <2>1, <2>2 DEF ServerTaskFails, FlowInv, Types, PortTypes
<1> DEFINE phase == IF conn[k].phase = "running" THEN "closed" ELSE conn[k].phase
           closed == conn[k].closed \/ conn[k].phase = "running"
           left == conn[k].tasks \ {ch}
<1>5. ConnBecomes(k, phase, conn[k].peer, closed, conn[k].incoming, left, conn[k].tlp,
                  conn[k].toServer, conn[k].toClient)
  BY <1>1, TaskFailsEffect
<1>6. phase \in Phases /\ phase = "closed" /\ left \in SUBSET Channels
  BY <1>1, <1>2 DEF Phases
<1> HIDE DEF phase, closed, left
<1>7. ConnTypes'
  BY <1>1, <1>5, <1>6, ConnKept
<1>8. ConnRule(k)'
  BY <1>1, <1>2, <1>5, <1>6 DEF ConnRule, ConnBecomes, Only
<1>9. OneConn(k) /\ conn'[k].phase = "closed" /\ conn'[k].toClient = conn[k].toClient
  BY <1>5, <1>6 DEF ConnBecomes
<1> QED
  BY <1>2, <1>3, <1>4, <1>7, <1>8, <1>9, ServerRules DEF Only

\* The host's packet has a tag below the bound.
LEMMA HostSendFlows ==
  ASSUME FlowInv, NEW kind \in Kinds, HostSend(kind)
  PROVE FlowInv'
<1> DEFINE t == tag[Counter(kind)]
<1>1. Counter(kind) \in {"cfg", "mmio"} /\ t \in 0 .. Tags - 1
  BY DEF Counter, FlowInv, Types, PortTypes
<1>2. PICK p : p = Request(kind, t)
  OBVIOUS
<1>3. p \in HostPackets
  BY <1>1, <1>2 DEF HostPackets
<1>4. PICK ch : ch = ChannelOf(p)
  OBVIOUS
<1>5. fifo' = [fifo EXCEPT ![ch] = Append(fifo[ch], p)]
  BY <1>2, <1>4 DEF HostSend
<1>6. fifo \in Fifos /\ PortRule
  BY PortIs
<1>7. ASSUME NEW o \in Channels
      PROVE fifo'[o] \in Seq(PacketSet) /\ Only(fifo'[o], HostPackets \cup {Notification})
  <2>1. PICK q : q = fifo[o]
    OBVIOUS
  <2>2. q \in Seq(PacketSet) /\ Only(q, HostPackets \cup {Notification})
    BY <1>6, <2>1 DEF Fifos, PortRule
  <2>3. CASE o = ch
    <3>1. fifo'[o] = Append(q, p) /\ p \in PacketSet /\ p \in HostPackets \cup {Notification}
      BY <1>3, <1>5, <1>6, <2>1, <2>3, PacketsAre DEF Fifos
    <3>2. Only(Append(q, p), HostPackets \cup {Notification})
      BY <2>2, <3>1, OnlyAppend
    <3> QED
      BY <2>2, <3>1, <3>2
  <2>4. CASE o # ch
    BY <1>5, <1>6, <2>1, <2>2, <2>4 DEF Fifos
  <2> QED
    BY <2>3, <2>4
<1>8. fifo' \in Fifos
  BY <1>5, <1>6, <1>7 DEF Fifos
<1>9. PortRule'
  BY <1>7 DEF PortRule, Only
<1>10. tag' \in [{"cfg", "mmio"} -> 0 .. Tags - 1]
  <2>1. NextTag(t) \in 0 .. Tags - 1
    BY <1>1, ConnectionAssumption DEF NextTag
  <2>2. tag' = [tag EXCEPT ![Counter(kind)] = NextTag(t)] \/ tag' = tag
    BY DEF HostSend
  <2> HIDE DEF t
  <2> QED
    BY <1>1, <2>1, <2>2 DEF FlowInv, Types, PortTypes
<1>11. sent' \in 0 .. MaxSent /\ waiting' \subseteq 0 .. Tags - 1
       /\ history' \subseteq {"dropped", "unsent", "unpaired", "reused"}
  <2>1. sent' \in 0 .. MaxSent
    BY ConnectionAssumption DEF HostSend, FlowInv, Types, PortTypes
  <2>2. waiting' \subseteq waiting \cup {t} /\ history' \subseteq history \cup {"reused"}
    BY DEF HostSend
  <2> HIDE DEF t
  <2> QED
    BY <1>1, <2>1, <2>2 DEF FlowInv, Types, PortTypes
<1>12. PortTypes'
  BY <1>8, <1>10, <1>11 DEF HostSend, FlowInv, Types, PortTypes
<1>13. UNCHANGED <<conn, client>>
  BY DEF HostSend
<1>14. ConnTypes' /\ ClientTypes' /\ Alone'
  BY <1>13 DEF FlowInv, Types, Rules, ConnTypes, ClientTypes, Alone
<1>15. (\A k \in Conns : ConnRule(k)') /\ (\A c \in Clients : ClientRule(c)')
  BY <1>13 DEF FlowInv, Rules, ConnRule, ClientRule, Idle, Serves, Only
<1> QED
  BY <1>9, <1>12, <1>14, <1>15 DEF FlowInv, Types, Rules

----------------------------------------------------------------------------
(* The steps of a client.                                                  *)

\* A step of a client that keeps its connection, or gives it up
LEMMA ClientRulesSame ==
  ASSUME FlowInv, NEW c \in Clients, ClientTypes', OneClient(c), ConnTypes',
         UNCHANGED <<connected, fifo, tag, sent, waiting>>,
         history' \subseteq {"dropped", "unsent", "unpaired", "reused"},
         \A k \in Conns : ConnRule(k)', ClientRule(c)', client'[c].conn \in {None, client[c].conn},
         \A k \in Conns : client[c].conn # k => conn'[k] = conn[k]
  PROVE FlowInv'
<1>1. PortTypes'
  BY PortStays
<1>2. Alone'
  BY DEF FlowInv, Rules, Alone, OneClient
<1> QED
  BY <1>1, <1>2, ClientRules

\* A step of a client that leaves the connections
LEMMA ConnsStay ==
  ASSUME FlowInv, conn' = conn
  PROVE ConnTypes' /\ (\A k \in Conns : ConnRule(k)') /\ (\A k \in Conns : conn'[k] = conn[k])
BY DEF FlowInv, Types, Rules, ConnTypes, ConnRule, Only

\* A step of a client that changes its connection
LEMMA ConnsBut ==
  ASSUME FlowInv, NEW k \in Conns, OneConn(k), ConnRule(k)'
  PROVE (\A j \in Conns : ConnRule(j)') /\ (\A j \in Conns : k # j => conn'[j] = conn[j])
BY DEF FlowInv, Rules, ConnRule, OneConn, Only

\* New FIFOs
LEMMA EmptyQueues ==
  ASSUME NEW q, q = [ch \in Channels |-> <<>>]
  PROVE /\ q \in Fifos /\ \A ch \in Channels : q[ch] = <<>> /\ Only(q[ch], DevicePackets \cup {Notification})
<1>1. \A ch \in Channels : q[ch] = <<>>
  OBVIOUS
<1>2. q \in Fifos
  BY <1>1 DEF Fifos
<1> QED
  BY <1>1, <1>2 DEF Only

\* A client that has neither connection nor tasks is in order.
LEMMA IdleRule ==
  ASSUME NEW c \in Clients, Idle(c)', client'[c].conn = None
  PROVE ClientRule(c)'
<1>1. \A ch \in Channels : client'[c].fifo[ch] = <<>>
  BY DEF Idle
<1>2. \A ch \in Channels : Only(client[c].fifo[ch], DevicePackets \cup {Notification})'
  BY <1>1 DEF Only
<1>3. (client[c].tasks \subseteq ChannelsOf[c])'
  BY DEF Idle
<1>4. \A k \in Conns : client'[c].conn # k
  BY ConnectionAssumption
<1> QED
  BY <1>2, <1>3, <1>4 DEF ClientRule

\* A program that starts has new FIFOs.
LEMMA ClientStartFlows ==
  ASSUME FlowInv, NEW c \in Clients, ClientStart(c)
  PROVE FlowInv'
<1>1. ClientTypes
  BY ClientIs
<1>2. PICK q : q = [ch \in Channels |-> <<>>]
  OBVIOUS
<1>3. ClientBecomes(c, "STARTING", None, FALSE, {}, {}, q)
  BY <1>1, <1>2, ClientStartEffect
<1>4. q \in Fifos /\ \A ch \in Channels : q[ch] = <<>>
  BY <1>2, EmptyQueues
<1>5. ClientTypes'
  <2>1. "STARTING" \in Statuses /\ None \in Conns \cup {None} /\ {} \in SUBSET Channels /\ {} \in SUBSET (0 .. 255)
    BY DEF Statuses
  <2> QED
    BY <1>1, <1>3, <1>4, <2>1, ClientKept
<1>6. ClientRule(c)' /\ OneClient(c) /\ client'[c].conn = None
  BY <1>3, <1>4, IdleRule DEF ClientBecomes, Idle
<1>7. conn' = conn /\ UNCHANGED <<connected, fifo, tag, sent, waiting, history>>
  BY DEF ClientStart
<1> QED
  BY <1>5, <1>6, <1>7, ConnsStay, PortIs, ClientRulesSame

\* A program that ends leaves its connection, and nothing behind.
LEMMA ClientExitsFlows ==
  ASSUME FlowInv, NEW c \in Clients, ClientExits(c)
  PROVE FlowInv'
<1>1. ClientTypes /\ ClientRule(c) /\ client[c].conn \in Conns \cup {None}
  BY ClientIs
<1>2. PICK q : q = [ch \in Channels |-> <<>>]
  OBVIOUS
<1>3. ClientBecomes(c, "STOPPED", None, FALSE, {}, {}, q)
  BY <1>1, <1>2, ClientExitsEffect
<1>4. q \in Fifos /\ \A ch \in Channels : q[ch] = <<>>
  BY <1>2, EmptyQueues
<1>5. ClientTypes'
  <2>1. "STOPPED" \in Statuses /\ None \in Conns \cup {None} /\ {} \in SUBSET Channels /\ {} \in SUBSET (0 .. 255)
    BY DEF Statuses
  <2> QED
    BY <1>1, <1>3, <1>4, <2>1, ClientKept
<1>6. ClientRule(c)' /\ OneClient(c) /\ client'[c].conn = None
  BY <1>3, <1>4, IdleRule DEF ClientBecomes, Idle
<1>7. PICK k \in Conns : client[c].conn = k
  BY <1>1 DEF ClientExits
<1>8. /\ ConnTypes /\ ConnRule(k) /\ conn[k].phase \in Phases /\ conn[k].peer \in Peers
      /\ conn[k].tasks \in SUBSET Channels /\ conn[k].tlp \in SUBSET (0 .. 255)
      /\ conn[k].toServer \in Seq(PacketSet) /\ conn[k].toClient \in Seq(PacketSet)
  <2>1. conn[k].tlp \in SUBSET (0 .. 255)
    BY TlpIs
  <2>2. /\ ConnTypes /\ ConnRule(k) /\ conn[k].phase \in Phases /\ conn[k].peer \in Peers
        /\ conn[k].tasks \in SUBSET Channels /\ conn[k].toServer \in Seq(PacketSet)
        /\ conn[k].toClient \in Seq(PacketSet)
    BY ConnIs
  <2> QED
    BY <2>1, <2>2
<1>9. PICK how \in {"eof", "reset"} :
        ConnBecomes(k, conn[k].phase, how, conn[k].closed, conn[k].incoming, conn[k].tasks, conn[k].tlp,
                    conn[k].toServer, <<>>)
  BY <1>7, <1>8, ClientExitsPort
<1>10. ConnTypes'
  <2>1. how \in Peers /\ <<>> \in Seq(PacketSet)
    BY DEF Peers
  <2> QED
    BY <1>8, <1>9, <2>1, ConnKept
<1>11. ConnRule(k)' /\ OneConn(k)
  BY <1>8, <1>9 DEF ConnRule, ConnBecomes, Only
<1>12. UNCHANGED <<connected, fifo, tag, sent, waiting, history>>
  BY DEF ClientExits
<1> QED
  BY <1>5, <1>6, <1>7, <1>10, <1>11, <1>12, ConnsBut, PortIs, ClientRulesSame

\* Behind the confirmation there are only packets of the host.
LEMMA ConfirmedFlows ==
  ASSUME FlowInv, NEW c \in Clients, Confirmed(c)
  PROVE FlowInv'
<1>1. /\ ClientTypes /\ ClientRule(c) /\ client[c].conn \in Conns \cup {None}
      /\ client[c].tlp \in SUBSET (0 .. 255) /\ client[c].fifo \in Fifos
  BY ClientIs
<1>2. PICK k \in Conns : client[c].conn = k
  BY <1>1 DEF Confirmed, Answered
<1>3. /\ ConnTypes /\ ConnRule(k) /\ conn[k].phase \in Phases /\ conn[k].peer \in Peers
      /\ conn[k].tasks \in SUBSET Channels /\ conn[k].tlp \in SUBSET (0 .. 255)
      /\ conn[k].toServer \in Seq(PacketSet) /\ conn[k].toClient \in Seq(PacketSet)
  <2>1. conn[k].tlp \in SUBSET (0 .. 255)
    BY TlpIs
  <2>2. /\ ConnTypes /\ ConnRule(k) /\ conn[k].phase \in Phases /\ conn[k].peer \in Peers
        /\ conn[k].tasks \in SUBSET Channels /\ conn[k].toServer \in Seq(PacketSet)
        /\ conn[k].toClient \in Seq(PacketSet)
    BY ConnIs
  <2> QED
    BY <2>1, <2>2
<1>4. conn[k].phase \notin {"none", "asked"} /\ conn[k].toClient # <<>>
  BY <1>1, <1>2, <1>3 DEF Confirmed, Reply, ConnRule, ClientRule
<1>5. PICK s : s = conn[k].toClient
  OBVIOUS
<1>6. PICK rest : rest = Tail(s)
  OBVIOUS
<1>7. ConnBecomes(k, conn[k].phase, conn[k].peer, conn[k].closed, conn[k].incoming, conn[k].tasks, conn[k].tlp,
                  conn[k].toServer, rest)
  BY <1>2, <1>3, <1>5, <1>6, ConfirmedPort
<1>8. rest \in Seq(PacketSet) /\ Only(rest, HostPackets)
  <2>1. s \in Seq(PacketSet) /\ s # <<>> /\ \A i \in 2 .. Len(s) : s[i] \in HostPackets
    BY <1>3, <1>4, <1>5 DEF ConnRule
  <2>2. /\ rest \in Seq(PacketSet) /\ Len(rest) = Len(s) - 1 /\ Len(s) \in Nat
        /\ \A i \in 1 .. Len(rest) : rest[i] = s[i + 1]
    BY <1>6, <2>1, HeadTailProperties, LenProperties
  <2>3. ASSUME NEW i \in 1 .. Len(rest) PROVE rest[i] \in HostPackets
    <3>1. i + 1 \in 2 .. Len(s)
      BY <2>2
    <3> QED
      BY <2>1, <2>2, <3>1
  <2> QED
    BY <2>2, <2>3 DEF Only
<1>9. ConnTypes'
  BY <1>3, <1>7, <1>8, ConnKept
<1>10. ConnRule(k)' /\ OneConn(k) /\ Serves(k)'
  BY <1>3, <1>4, <1>7, <1>8 DEF ConnRule, ConnBecomes, Only, Serves
<1>11. ClientBecomes(c, "RUNNING", client[c].conn, TRUE, ChannelsOf[c], client[c].tlp, client[c].fifo)
  BY <1>1, ConfirmedEffect
<1>12. ClientTypes'
  <2>1. ChannelsOf[c] \in SUBSET Channels /\ "RUNNING" \in Statuses
    BY DEF ChannelsOf, Statuses
  <2> QED
    BY <1>1, <1>11, <2>1, ClientKept
<1>13. ClientRule(c)'
  <2>1. client'[c].status = "RUNNING" /\ client'[c].conn = k /\ client'[c].tasks = ChannelsOf[c]
        /\ client'[c].fifo = client[c].fifo
    BY <1>2, <1>11 DEF ClientBecomes
  <2>2. \A j \in Conns : client'[c].conn = j => Serves(j)' /\ conn'[j].phase # "none"
    BY <1>10, <2>1 DEF Serves
  <2> QED
    BY <1>1, <2>1, <2>2, ConnectionAssumption DEF ClientRule, Only
<1>14. UNCHANGED <<connected, fifo, tag, sent, waiting, history>> /\ OneClient(c) /\ client'[c].conn = client[c].conn
  BY <1>11 DEF Confirmed, ClientBecomes
<1> QED
  BY <1>2, <1>9, <1>10, <1>12, <1>13, <1>14, ConnsBut, PortIs, ClientRulesSame

\* A client that is refused has no connection and nothing to send.
LEMMA RefusedFlows ==
  ASSUME FlowInv, NEW c \in Clients, Refused(c)
  PROVE FlowInv'
<1>1. /\ ClientTypes /\ ClientRule(c) /\ client[c].conn \in Conns \cup {None} /\ client[c].tasks \in SUBSET Channels
      /\ client[c].tlp \in SUBSET (0 .. 255) /\ client[c].fifo \in Fifos
  BY ClientIs
<1>2. PICK k \in Conns : client[c].conn = k
  BY <1>1 DEF Refused, Answered
<1>3. /\ ConnTypes /\ ConnRule(k) /\ conn[k].phase \in Phases /\ conn[k].peer \in Peers
      /\ conn[k].tasks \in SUBSET Channels /\ conn[k].tlp \in SUBSET (0 .. 255)
      /\ conn[k].toServer \in Seq(PacketSet) /\ conn[k].toClient \in Seq(PacketSet)
  <2>1. conn[k].tlp \in SUBSET (0 .. 255)
    BY TlpIs
  <2>2. /\ ConnTypes /\ ConnRule(k) /\ conn[k].phase \in Phases /\ conn[k].peer \in Peers
        /\ conn[k].tasks \in SUBSET Channels /\ conn[k].toServer \in Seq(PacketSet)
        /\ conn[k].toClient \in Seq(PacketSet)
    BY ConnIs
  <2> QED
    BY <2>1, <2>2
<1>4. ConnBecomes(k, conn[k].phase, "eof", conn[k].closed, conn[k].incoming, conn[k].tasks, conn[k].tlp,
                  conn[k].toServer, <<>>)
  BY <1>2, <1>3, RefusedPort
<1>5. ConnTypes'
  <2>1. "eof" \in Peers /\ <<>> \in Seq(PacketSet)
    BY DEF Peers
  <2> QED
    BY <1>3, <1>4, <2>1, ConnKept
<1>6. ConnRule(k)' /\ OneConn(k)
  BY <1>3, <1>4 DEF ConnRule, ConnBecomes, Only
<1>7. PICK status : status = IF c \in Retry THEN "STARTING" ELSE "STOPPED"
  OBVIOUS
<1>8. ClientBecomes(c, status, None, client[c].incoming, client[c].tasks, client[c].tlp, client[c].fifo)
  BY <1>1, <1>7, RefusedEffect
<1>9. ClientTypes'
  <2>1. status \in Statuses /\ None \in Conns \cup {None}
    BY <1>7 DEF Statuses
  <2> QED
    BY <1>1, <1>8, <2>1, ClientKept
<1>10. ClientRule(c)' /\ OneClient(c) /\ client'[c].conn = None
  <2>1. Idle(c)
    BY <1>1 DEF Refused, Answered, ClientRule
  <2>2. Idle(c)' /\ client'[c].conn = None /\ OneClient(c)
    BY <1>8, <2>1 DEF Idle, ClientBecomes
  <2> QED
    BY <2>2, IdleRule
<1>11. UNCHANGED <<connected, fifo, tag, sent, waiting, history>>
  BY DEF Refused
<1> QED
  BY <1>2, <1>5, <1>6, <1>9, <1>10, <1>11, ConnsBut, PortIs, ClientRulesSame

\* A client that stops keeps all but its status.
LEMMA StoppedFlows ==
  ASSUME FlowInv, NEW c \in Clients, ClientTimesOut(c) \/ ClientEnds(c)
  PROVE FlowInv'
<1>1. /\ ClientTypes /\ ClientRule(c) /\ client[c].conn \in Conns \cup {None} /\ client[c].tasks \in SUBSET Channels
      /\ client[c].tlp \in SUBSET (0 .. 255) /\ client[c].fifo \in Fifos
  BY ClientIs
<1>2. ClientBecomes(c, "STOPPED", client[c].conn, client[c].incoming, client[c].tasks, client[c].tlp, client[c].fifo)
  BY <1>1, StoppedEffect
<1>3. ClientTypes'
  <2>1. "STOPPED" \in Statuses
    BY DEF Statuses
  <2> QED
    BY <1>1, <1>2, <2>1, ClientKept
<1>4. conn' = conn /\ UNCHANGED <<connected, fifo, tag, sent, waiting, history>>
  BY DEF ClientTimesOut, ClientEnds
<1>5. client[c].conn = None \/ client[c].status # "STARTING"
  BY DEF ClientTimesOut, ClientEnds
<1>6. ClientRule(c)'
  <2>1. /\ client'[c].status = "STOPPED" /\ client'[c].conn = client[c].conn /\ client'[c].tasks = client[c].tasks
        /\ client'[c].fifo = client[c].fifo /\ (Idle(c) => Idle(c)')
    BY <1>2 DEF ClientBecomes, Idle
  <2>2. \A k \in Conns : client[c].conn = k => conn'[k].phase # "none" /\ Serves(k)'
    BY <1>1, <1>4, <1>5, ConnectionAssumption DEF ClientRule, Serves, Only
  <2> QED
    BY <1>1, <2>1, <2>2 DEF ClientRule, Only
<1>7. OneClient(c) /\ client'[c].conn = client[c].conn
  BY <1>2 DEF ClientBecomes
<1> QED
  BY <1>3, <1>4, <1>6, <1>7, ConnsStay, PortIs, ClientRulesSame

\* Notifications among the answers
LEMMA NotifiedQueues ==
  ASSUME NEW queues \in Fifos, NEW S, \A ch \in Channels : Only(queues[ch], DevicePackets \cup {Notification}),
         NEW after, after = NotifiedOf(queues, S)
  PROVE after \in Fifos /\ \A ch \in Channels : Only(after[ch], DevicePackets \cup {Notification})
<1>1. after = [ch \in Channels |-> IF ch \in S THEN Append(queues[ch], Notification) ELSE queues[ch]]
  BY DEF NotifiedOf, Fifos
<1>2. ASSUME NEW ch \in Channels
      PROVE after[ch] \in Seq(PacketSet) /\ Only(after[ch], DevicePackets \cup {Notification})
  <2>1. PICK q : q = queues[ch]
    OBVIOUS
  <2>2. q \in Seq(PacketSet) /\ Only(q, DevicePackets \cup {Notification}) /\ Notification \in PacketSet
    BY <2>1, PacketsAre DEF Fifos
  <2>3. CASE ch \in S
    <3>1. after[ch] = Append(q, Notification)
      BY <1>1, <2>1, <2>3
    <3>2. Append(q, Notification) \in Seq(PacketSet)
      BY <2>2
    <3>3. Only(Append(q, Notification), DevicePackets \cup {Notification})
      <4>1. Notification \in DevicePackets \cup {Notification}
        OBVIOUS
      <4> QED
        BY <2>2, <4>1, OnlyAppend
    <3> QED
      BY <3>1, <3>2, <3>3
  <2>4. CASE ch \notin S
    BY <1>1, <2>1, <2>2, <2>4
  <2> QED
    BY <2>3, <2>4
<1> QED
  BY <1>1, <1>2 DEF Fifos

\* The end of the client's reader
LEMMA ClientLosesFlows ==
  ASSUME FlowInv, NEW c \in Clients, ClientLosesReader(c) \/ ClientStop(c)
  PROVE FlowInv'
<1>1. /\ ClientTypes /\ ClientRule(c) /\ client[c].conn \in Conns \cup {None} /\ client[c].tasks \in SUBSET Channels
      /\ client[c].tlp \in SUBSET (0 .. 255) /\ client[c].fifo \in Fifos /\ client[c].status \in Statuses
  BY ClientIs
<1>2. PICK q : q = NotifiedOf(client[c].fifo, ChannelsOf[c])
  OBVIOUS
<1>3. q \in Fifos /\ \A ch \in Channels : Only(q[ch], DevicePackets \cup {Notification})
  <2>1. PICK old : old = client[c].fifo
    OBVIOUS
  <2>2. old \in Fifos /\ \A ch \in Channels : Only(old[ch], DevicePackets \cup {Notification})
    BY <1>1, <2>1 DEF ClientRule
  <2> QED
    BY <1>2, <2>1, <2>2, NotifiedQueues
<1>4. PICK status \in Statuses :
        /\ status = client[c].status \/ status = "STOPPING"
        /\ ClientBecomes(c, status, client[c].conn, FALSE, client[c].tasks, client[c].tlp, q)
  <2>1. CASE ClientLosesReader(c)
    BY <1>1, <1>2, <2>1, ClientLosesEffect
  <2>2. CASE ClientStop(c)
    <3>1. "STOPPING" \in Statuses
      BY DEF Statuses
    <3> QED
      BY <1>1, <1>2, <2>2, <3>1, ClientStopEffect
  <2> QED
    BY <2>1, <2>2
<1>5. ClientTypes'
  BY <1>1, <1>3, <1>4, ClientKept
<1>6. client[c].incoming /\ conn' = conn /\ UNCHANGED <<connected, fifo, tag, sent, waiting>>
  BY DEF ClientLosesReader, ClientStop
<1>7. history' \subseteq {"dropped", "unsent", "unpaired", "reused"}
  BY PortIs DEF ClientLosesReader, ClientStop
<1>8. client[c].conn # None /\ client[c].status # "STARTING" /\ ~Idle(c)
  BY <1>1, <1>6 DEF ClientRule, Idle
<1>9. ClientRule(c)'
  <2>1. /\ client'[c].status # "STARTING" /\ client'[c].conn = client[c].conn /\ client'[c].tasks = client[c].tasks
        /\ client'[c].fifo = q
    BY <1>4, <1>8 DEF ClientBecomes
  <2>2. \A k \in Conns : client[c].conn = k => conn'[k].phase # "none" /\ Serves(k)'
    BY <1>1, <1>6, <1>8 DEF ClientRule, Serves, Only
  <2> QED
    BY <1>1, <1>3, <1>8, <2>1, <2>2 DEF ClientRule, Only
<1>10. OneClient(c) /\ client'[c].conn = client[c].conn
  BY <1>4 DEF ClientBecomes
<1> QED
  BY <1>5, <1>6, <1>7, <1>9, <1>10, ConnsStay, ClientRulesSame

\* What the client takes is a packet of the host; what enters its FIFO is an
\* answer to it.
LEMMA ClientTakeFlows ==
  ASSUME FlowInv, NEW c \in Clients, ClientTake(c)
  PROVE FlowInv'
<1>1. /\ ClientTypes /\ ClientRule(c) /\ client[c].conn \in Conns \cup {None} /\ client[c].tasks \in SUBSET Channels
      /\ client[c].tlp \in SUBSET (0 .. 255) /\ client[c].fifo \in Fifos /\ client[c].status \in Statuses
  BY ClientIs
<1>2. client[c].incoming /\ client[c].conn # None /\ client[c].status # "STARTING"
  BY <1>1 DEF ClientTake, ClientRule, Idle
<1>3. PICK k \in Conns : client[c].conn = k
  BY <1>1, <1>2
<1>4. /\ ConnTypes /\ ConnRule(k) /\ conn[k].phase \in Phases /\ conn[k].peer \in Peers
      /\ conn[k].tasks \in SUBSET Channels /\ conn[k].tlp \in SUBSET (0 .. 255)
      /\ conn[k].toServer \in Seq(PacketSet) /\ conn[k].toClient \in Seq(PacketSet)
  <2>1. conn[k].tlp \in SUBSET (0 .. 255)
    BY TlpIs
  <2>2. /\ ConnTypes /\ ConnRule(k) /\ conn[k].phase \in Phases /\ conn[k].peer \in Peers
        /\ conn[k].tasks \in SUBSET Channels /\ conn[k].toServer \in Seq(PacketSet)
        /\ conn[k].toClient \in Seq(PacketSet)
    BY ConnIs
  <2> QED
    BY <2>1, <2>2
<1>5. Serves(k) /\ conn[k].toClient # <<>>
  BY <1>1, <1>2, <1>3 DEF ClientRule, ClientTake, Reply
<1>6. PICK s : s = conn[k].toClient
  OBVIOUS
<1>7. PICK p : p = Head(s)
  OBVIOUS
<1>8. PICK rest : rest = Tail(s)
  OBVIOUS
<1>9. p \in HostPackets /\ rest \in Seq(PacketSet) /\ Only(rest, HostPackets)
  <2>1. s \in Seq(PacketSet) /\ s # <<>> /\ Only(s, HostPackets)
    BY <1>4, <1>5, <1>6 DEF Serves
  <2> QED
    BY <1>7, <1>8, <2>1, OnlyTail, HeadTailProperties
<1>10. ConnBecomes(k, conn[k].phase, conn[k].peer, conn[k].closed, conn[k].incoming, conn[k].tasks, conn[k].tlp,
                   conn[k].toServer, rest)
  BY <1>3, <1>4, <1>6, <1>8, ClientTakePort
<1>11. ConnTypes'
  BY <1>4, <1>9, <1>10, ConnKept
<1>12. ConnRule(k)' /\ OneConn(k) /\ Serves(k)'
  BY <1>4, <1>5, <1>9, <1>10 DEF ConnRule, ConnBecomes, Only, Serves
<1>13. PICK ch : ch = ChannelOf(p)
  OBVIOUS
<1>14. PICK queue : queue = IF ch \in ChannelsOf[c] THEN client[c].fifo[ch] \o Answers(p) ELSE client[c].fifo[ch]
  OBVIOUS
<1>15. PICK table : table = TlpAfter(p, client[c].tlp)
  OBVIOUS
<1>16. PICK queues : queues = [client[c].fifo EXCEPT ![ch] = queue]
  OBVIOUS
<1>17. ClientBecomes(c, client[c].status, client[c].conn, client[c].incoming, client[c].tasks, table, queues)
  BY <1>1, <1>3, <1>6, <1>7, <1>13, <1>14, <1>15, <1>16, ClientTakeEffect
<1>18. table \in SUBSET (0 .. 255)
  <2>1. table = client[c].tlp \cup OwnTag(p) /\ OwnTag(p) \subseteq 0 .. 255
    BY <1>9, <1>15, TableHost
  <2> QED
    BY <1>1, <2>1
<1>19. ch \in Channels => queue \in Seq(PacketSet) /\ Only(queue, DevicePackets \cup {Notification})
  <2> SUFFICES ASSUME ch \in Channels
               PROVE queue \in Seq(PacketSet) /\ Only(queue, DevicePackets \cup {Notification})
    OBVIOUS
  <2>1. PICK q : q = client[c].fifo[ch]
    OBVIOUS
  <2>2. q \in Seq(PacketSet) /\ Only(q, DevicePackets \cup {Notification})
    BY <1>1, <2>1 DEF ClientRule, Fifos
  <2>3. CASE queue = q
    BY <2>2, <2>3
  <2>4. CASE queue # q
    <3>1. queue = q \o Answers(p)
      BY <1>14, <2>1, <2>4
    <3>2. Answers(p) # <<>>
      BY <2>2, <2>4, <3>1, ConcatEmptySeq
    <3>3. PICK a \in DevicePackets : Answers(p) = <<a>>
      BY <1>9, <3>2, AnswerFacts
    <3>4. a \in PacketSet /\ a \in DevicePackets \cup {Notification}
      BY <3>3, PacketsAre
    <3>5. queue = Append(q, a)
      BY <2>2, <3>1, <3>3, <3>4, ConcatOne
    <3>6. Append(q, a) \in Seq(PacketSet)
      BY <2>2, <3>4
    <3>7. Only(Append(q, a), DevicePackets \cup {Notification})
      BY <2>2, <3>4, OnlyAppend
    <3> QED
      BY <3>5, <3>6, <3>7
  <2> QED
    BY <2>3, <2>4
<1>20. queues \in Fifos /\ \A o \in Channels : Only(queues[o], DevicePackets \cup {Notification})
  <2>1. PICK old : old = client[c].fifo
    OBVIOUS
  <2>2. old \in Fifos /\ \A o \in Channels : Only(old[o], DevicePackets \cup {Notification})
    BY <1>1, <2>1 DEF ClientRule
  <2>3. queues = [old EXCEPT ![ch] = queue]
    BY <1>16, <2>1
  <2>4. \A o \in Channels : queues[o] = IF o = ch THEN queue ELSE old[o]
    BY <2>2, <2>3 DEF Fifos
  <2>5. ASSUME NEW o \in Channels
        PROVE queues[o] \in Seq(PacketSet) /\ Only(queues[o], DevicePackets \cup {Notification})
    <3>1. old[o] \in Seq(PacketSet) /\ Only(old[o], DevicePackets \cup {Notification})
      BY <2>2 DEF Fifos
    <3> QED
      BY <1>19, <2>4, <3>1
  <2> QED
    BY <2>2, <2>3, <2>5 DEF Fifos
<1>21. ClientTypes'
  BY <1>1, <1>17, <1>18, <1>20, ClientKept
<1>22. ClientRule(c)'
  <2>1. /\ client'[c].status = client[c].status /\ client'[c].conn = k /\ client'[c].tasks = client[c].tasks
        /\ client'[c].fifo = queues
    BY <1>3, <1>17 DEF ClientBecomes
  <2>2. \A j \in Conns : client'[c].conn = j => conn'[j].phase # "none" /\ Serves(j)'
    BY <1>12, <2>1 DEF Serves
  <2>3. client'[c].status # "STARTING" /\ client'[c].conn # None
    BY <1>2, <1>3, <2>1
  <2> QED
    BY <1>1, <1>20, <2>1, <2>2, <2>3 DEF ClientRule, Only
<1>23. UNCHANGED <<connected, fifo, tag, sent, waiting, history>> /\ OneClient(c) /\ client'[c].conn = client[c].conn
  BY <1>17 DEF ClientTake, ClientBecomes
<1> QED
  BY <1>3, <1>11, <1>12, <1>21, <1>22, <1>23, ConnsBut, PortIs, ClientRulesSame

\* Taking the first packet of a FIFO of a client
LEMMA QueuesTaken ==
  ASSUME NEW queues \in Fifos, \A ch \in Channels : Only(queues[ch], DevicePackets \cup {Notification}),
         NEW ch \in Channels, queues[ch] # <<>>, NEW after, after = [queues EXCEPT ![ch] = Tail(queues[ch])]
  PROVE /\ Head(queues[ch]) \in DevicePackets \cup {Notification}
        /\ after \in Fifos /\ \A o \in Channels : Only(after[o], DevicePackets \cup {Notification})
<1>1. PICK q : q = queues[ch]
  OBVIOUS
<1>2. q \in Seq(PacketSet) /\ q # <<>> /\ Only(q, DevicePackets \cup {Notification})
  BY <1>1 DEF Fifos
<1>3. /\ Head(q) \in DevicePackets \cup {Notification} /\ Only(Tail(q), DevicePackets \cup {Notification})
      /\ Tail(q) \in Seq(PacketSet)
  BY <1>2, OnlyTail, HeadTailProperties
<1>4. \A o \in Channels : after[o] = IF o = ch THEN Tail(q) ELSE queues[o]
  BY <1>1 DEF Fifos
<1>5. after \in Fifos
  BY <1>1, <1>3 DEF Fifos
<1>6. ASSUME NEW o \in Channels PROVE Only(after[o], DevicePackets \cup {Notification})
  BY <1>3, <1>4
<1> QED
  BY <1>1, <1>3, <1>5, <1>6

\* What a client sends is an answer, or nothing.
LEMMA ClientSendFlows ==
  ASSUME FlowInv, NEW c \in Clients, NEW ch \in Channels, ClientSend(c, ch)
  PROVE FlowInv'
<1>1. /\ ClientTypes /\ ClientRule(c) /\ client[c].conn \in Conns \cup {None} /\ client[c].tasks \in SUBSET Channels
      /\ client[c].tlp \in SUBSET (0 .. 255) /\ client[c].fifo \in Fifos /\ client[c].status \in Statuses
  BY ClientIs
<1>2. client[c].conn # None /\ client[c].status # "STARTING" /\ ~Idle(c)
  BY <1>1 DEF ClientSend, ClientRule, Idle
<1>3. PICK k \in Conns : client[c].conn = k
  BY <1>1, <1>2
<1>4. /\ ConnTypes /\ ConnRule(k) /\ conn[k].phase \in Phases /\ conn[k].peer \in Peers
      /\ conn[k].tasks \in SUBSET Channels /\ conn[k].tlp \in SUBSET (0 .. 255)
      /\ conn[k].toServer \in Seq(PacketSet) /\ conn[k].toClient \in Seq(PacketSet)
  <2>1. conn[k].tlp \in SUBSET (0 .. 255)
    BY TlpIs
  <2>2. /\ ConnTypes /\ ConnRule(k) /\ conn[k].phase \in Phases /\ conn[k].peer \in Peers
        /\ conn[k].tasks \in SUBSET Channels /\ conn[k].toServer \in Seq(PacketSet)
        /\ conn[k].toClient \in Seq(PacketSet)
    BY ConnIs
  <2> QED
    BY <2>1, <2>2
<1>5. Serves(k)
  BY <1>1, <1>2, <1>3 DEF ClientRule
<1>6. PICK old : old = client[c].fifo
  OBVIOUS
<1>7. PICK p : p = Head(old[ch])
  OBVIOUS
<1>8. PICK queues : queues = [old EXCEPT ![ch] = Tail(old[ch])]
  OBVIOUS
<1>9. /\ p \in DevicePackets \cup {Notification} /\ queues \in Fifos
      /\ \A o \in Channels : Only(queues[o], DevicePackets \cup {Notification})
  <2>1. old \in Fifos /\ (\A o \in Channels : Only(old[o], DevicePackets \cup {Notification})) /\ old[ch] # <<>>
    BY <1>1, <1>6 DEF ClientRule, ClientSend
  <2> QED
    BY <1>7, <1>8, <2>1, QueuesTaken
<1>10. ConnTypes' /\ (\A j \in Conns : ConnRule(j)') /\ (\A j \in Conns : k # j => conn'[j] = conn[j]) /\ Serves(k)'
  <2>1. CASE p # Notification /\ ~TlpFails(p, client[c].tlp) /\ ~conn[k].closed
    <3>1. PICK s : s = Append(conn[k].toServer, p)
      OBVIOUS
    <3>2. ConnBecomes(k, conn[k].phase, conn[k].peer, conn[k].closed, conn[k].incoming, conn[k].tasks, conn[k].tlp,
                      s, conn[k].toClient)
      BY <1>3, <1>4, <1>6, <1>7, <2>1, <3>1, ClientSendPort
    <3>3. s \in Seq(PacketSet) /\ Only(s, DevicePackets)
      <4>1. PICK t : t = conn[k].toServer
        OBVIOUS
      <4>2. t \in Seq(PacketSet) /\ Only(t, DevicePackets)
        BY <1>4, <1>5, <4>1 DEF ConnRule, Serves
      <4>3. p \in DevicePackets /\ p \in PacketSet /\ s = Append(t, p)
        BY <1>9, <2>1, <3>1, <4>1, PacketsAre
      <4>4. s \in Seq(PacketSet)
        BY <4>2, <4>3
      <4> QED
        BY <4>2, <4>3, <4>4, OnlyAppend
    <3>4. ConnTypes'
      BY <1>4, <3>2, <3>3, ConnKept
    <3>5. ConnRule(k)' /\ OneConn(k) /\ Serves(k)'
      BY <1>4, <1>5, <3>2, <3>3 DEF ConnRule, ConnBecomes, Serves, Only
    <3> QED
      BY <3>4, <3>5, ConnsBut
  <2>2. CASE ~(p # Notification /\ ~TlpFails(p, client[c].tlp) /\ ~conn[k].closed)
    <3>1. conn' = conn
      BY <1>3, <1>4, <1>6, <1>7, <2>2, ClientSendPort
    <3> QED
      BY <1>5, <3>1, ConnsStay DEF Serves, Only
  <2> QED
    BY <2>1, <2>2
<1>11. PICK status \in Statuses, tasks \in SUBSET Channels, table \in SUBSET (0 .. 255) :
         /\ status # "STARTING" /\ tasks \subseteq client[c].tasks
         /\ ClientBecomes(c, status, client[c].conn, client[c].incoming, tasks, table, queues)
  <2>0. client[c].tasks \ {ch} \in SUBSET Channels /\ client[c].tasks \ {ch} \subseteq client[c].tasks
    BY <1>1
  <2>1. CASE p = Notification
    <3>1. ClientBecomes(c, client[c].status, client[c].conn, client[c].incoming, client[c].tasks \ {ch},
                        client[c].tlp, queues)
      BY <1>1, <1>3, <1>6, <1>7, <1>8, <2>1, ClientTaskEnds
    <3> QED
      BY <1>1, <1>2, <2>0, <3>1
  <2>2. CASE p # Notification /\ ~TlpFails(p, client[c].tlp) /\ ~conn[k].closed
    <3>1. PICK table : table = TlpAfter(p, client[c].tlp)
      OBVIOUS
    <3>2. ClientBecomes(c, client[c].status, client[c].conn, client[c].incoming, client[c].tasks, table, queues)
      BY <1>1, <1>3, <1>6, <1>7, <1>8, <2>2, <3>1, ClientSends
    <3>3. table = client[c].tlp \ OwnTag(p)
      BY <1>9, <2>2, <3>1, TableDevice
    <3>4. table \in SUBSET (0 .. 255)
      BY <1>1, <3>3
    <3> QED
      BY <1>1, <1>2, <3>2, <3>4
  <2>3. CASE p # Notification /\ (TlpFails(p, client[c].tlp) \/ conn[k].closed)
    <3>1. ClientBecomes(c, "STOPPED", client[c].conn, client[c].incoming, client[c].tasks \ {ch},
                        client[c].tlp, queues)
      BY <1>1, <1>3, <1>6, <1>7, <1>8, <2>3, ClientTaskFails
    <3>2. "STOPPED" \in Statuses
      BY DEF Statuses
    <3> QED
      BY <1>1, <2>0, <3>1, <3>2
  <2> QED
    BY <2>1, <2>2, <2>3
<1>12. ClientTypes'
  BY <1>1, <1>9, <1>11, ClientKept
<1>13. ClientRule(c)'
  <2>1. /\ client'[c].status # "STARTING" /\ client'[c].conn = k /\ client'[c].tasks \subseteq client[c].tasks
        /\ client'[c].fifo = queues
    BY <1>3, <1>11 DEF ClientBecomes
  <2>2. \A j \in Conns : client'[c].conn = j => conn'[j].phase # "none" /\ Serves(j)'
    BY <1>10, <2>1 DEF Serves
  <2>3. client'[c].conn # None
    BY <1>2, <1>3, <2>1
  <2> QED
    BY <1>1, <1>9, <2>1, <2>2, <2>3 DEF ClientRule, Only
<1>14. OneClient(c) /\ client'[c].conn = client[c].conn
  BY <1>11 DEF ClientBecomes
<1>15. UNCHANGED <<connected, fifo, tag, sent, waiting>> /\ history' \subseteq {"dropped", "unsent", "unpaired",
                                                                                "reused"}
  BY PortIs DEF ClientSend
<1> QED
  BY <1>3, <1>10, <1>12, <1>13, <1>14, <1>15, ClientRulesSame

\* A new connection is one that nobody has.
LEMMA FreshIsNew ==
  ASSUME PortInv, Fresh <= MaxConns
  PROVE Fresh \in Conns /\ conn[Fresh].phase = "none"
<1>1. PICK n \in 0 .. MaxConns : Opened = 1 .. n
  BY DEF PortInv, InOrder
<1>2. MaxConns \in Nat /\ n \in Nat /\ Cardinality(1 .. n) = n
  BY ConnectionAssumption, FS_Interval
<1>3. Fresh = Cardinality(Opened) + 1
  BY DEF Fresh, Opened
<1>4. Fresh \in Conns /\ Fresh \notin Opened
  BY <1>1, <1>2, <1>3 DEF Conns
<1> QED
  BY <1>4 DEF Opened

\* A new connection carries the client's request, and nothing else.
LEMMA ConnectFlows ==
  ASSUME FlowInv, PortInv, NEW c \in Clients, Connect(c)
  PROVE FlowInv'
<1>1. /\ ClientTypes /\ ClientRule(c) /\ client[c].conn \in Conns \cup {None} /\ client[c].tasks \in SUBSET Channels
      /\ client[c].tlp \in SUBSET (0 .. 255) /\ client[c].fifo \in Fifos /\ client[c].status \in Statuses
  BY ClientIs
<1>2. client[c].status = "STARTING" /\ client[c].conn = None /\ Idle(c)
  BY <1>1 DEF Connect, ClientRule
<1>3. PICK k : k = Fresh
  OBVIOUS
<1>4. k \in Conns /\ conn[k].phase = "none"
  BY <1>3, FreshIsNew DEF Connect
<1>5. ConnTypes
  BY <1>4, ConnIs
<1>6. PICK p \in Openings[c] : ConnBecomes(k, "asked", "open", FALSE, FALSE, {}, {}, <<p>>, <<>>)
  BY <1>3, <1>4, <1>5, ConnectPort
<1>7. p \in PacketSet
  BY DEF PacketSet, Openers
<1>8. ConnTypes'
  <2>1. "asked" \in Phases /\ "open" \in Peers /\ {} \in SUBSET Channels /\ {} \in SUBSET (0 .. 255)
    BY DEF Phases, Peers
  <2>2. <<p>> \in Seq(PacketSet) /\ <<>> \in Seq(PacketSet)
    BY <1>7
  <2> QED
    BY <1>4, <1>5, <1>6, <2>1, <2>2, ConnKept
<1>9. ConnRule(k)' /\ OneConn(k) /\ conn'[k].phase = "asked"
  BY <1>6 DEF ConnRule, ConnBecomes
<1>10. ClientBecomes(c, client[c].status, k, client[c].incoming, client[c].tasks, client[c].tlp, client[c].fifo)
  BY <1>1, <1>3, ConnectEffect
<1>11. ClientTypes'
  BY <1>1, <1>4, <1>10, ClientKept
<1>12. ClientRule(c)' /\ OneClient(c)
  <2>1. /\ client'[c].status = "STARTING" /\ client'[c].conn = k /\ client'[c].tasks = client[c].tasks
        /\ client'[c].fifo = client[c].fifo /\ OneClient(c) /\ Idle(c)'
    BY <1>2, <1>10 DEF ClientBecomes, Idle
  <2>2. \A j \in Conns : client'[c].conn = j => conn'[j].phase # "none"
    BY <1>9, <2>1
  <2> QED
    BY <1>1, <2>1, <2>2 DEF ClientRule, Only
<1>13. Alone'
  <2>1. \A d \in Clients : client[d].conn # k
    <3>1. ASSUME NEW d \in Clients, client[d].conn = k PROVE FALSE
      BY <1>4, <3>1 DEF FlowInv, Rules, ClientRule
    <3> QED
      BY <3>1
  <2>2. \A d \in Clients : client'[d].conn = IF d = c THEN k ELSE client[d].conn
    BY <1>10 DEF ClientBecomes, OneClient
  <2>3. Alone
    BY DEF FlowInv, Rules
  <2> QED
    BY <2>1, <2>2, <2>3 DEF Alone
<1>14. UNCHANGED <<connected, fifo, tag, sent, waiting, history>>
  BY DEF Connect
<1>15. PortTypes'
  BY <1>14, PortIs, PortStays
<1>16. \A j \in Conns : conn'[j] = conn[j] \/ conn[j].phase = "none"
  BY <1>4, <1>9 DEF OneConn
<1>17. \A j \in Conns : ConnRule(j)'
  BY <1>4, <1>9, ConnsBut
<1> QED
  BY <1>8, <1>11, <1>12, <1>13, <1>14, <1>15, <1>16, <1>17, ClientRules

\* FlowInv holds from the start.
LEMMA InitFlows == Init => FlowInv
<1> SUFFICES ASSUME Init PROVE FlowInv
  OBVIOUS
<1>1. \A k \in Conns : conn[k] = NoConn
  BY DEF Init
<1>2. NoConn \in ConnRecord
  BY DEF NoConn, ConnRecord, Phases, Peers
<1>3. ConnTypes
  BY <1>1, <1>2 DEF Init, ConnTypes
<1>4. \A k \in Conns : ConnRule(k)
  BY <1>1 DEF ConnRule, NoConn, Only
<1>5. PICK q : q = [ch \in Channels |-> <<>>]
  OBVIOUS
<1>6. q \in Fifos /\ \A ch \in Channels : q[ch] = <<>>
  BY <1>5, EmptyQueues
<1>7. \A c \in Clients : client[c] = NoClient /\ NoClient.fifo = q
  BY <1>5 DEF Init, NoClient
<1>8. NoClient \in ClientRecord
  BY <1>5, <1>6 DEF NoClient, ClientRecord, Statuses
<1>9. ClientTypes
  BY <1>7, <1>8 DEF Init, ClientTypes
<1>10. ASSUME NEW c \in Clients PROVE ClientRule(c) /\ client[c].conn = None
  <2>1. /\ ~client[c].incoming /\ client[c].tasks = {} /\ client[c].tlp = {} /\ client[c].conn = None
        /\ client[c].fifo = q
    BY <1>7 DEF NoClient
  <2>2. Idle(c)
    BY <1>6, <2>1 DEF Idle
  <2>3. \A k \in Conns : client[c].conn # k
    BY <2>1, ConnectionAssumption
  <2> QED
    BY <1>6, <2>1, <2>2, <2>3 DEF ClientRule, Only
<1>11. Alone
  BY <1>10 DEF Alone
<1>12. PortTypes
  <2>1. fifo \in Fifos
    BY <1>5, <1>6 DEF Init
  <2>2. tag \in [{"cfg", "mmio"} -> 0 .. Tags - 1] /\ sent \in 0 .. MaxSent
    BY ConnectionAssumption DEF Init
  <2> QED
    BY <2>1, <2>2 DEF Init, PortTypes
<1>13. PortRule
  BY <1>5, <1>6 DEF Init, PortRule, Only
<1> QED
  BY <1>3, <1>4, <1>9, <1>10, <1>11, <1>12, <1>13 DEF FlowInv, Types, Rules

\* Every step keeps FlowInv.
LEMMA NextFlows == FlowInv /\ PortInv /\ [Next]_vars => FlowInv'
<1> SUFFICES ASSUME FlowInv, PortInv, [Next]_vars PROVE FlowInv'
  OBVIOUS
<1>1. ASSUME NEW k \in Conns, ServerStep(k) PROVE FlowInv'
  <2>1. ASSUME NEW ch \in Channels, ServerSend(k, ch) \/ ServerTaskFails(k, ch) PROVE FlowInv'
    BY <2>1, ServerSendFlows, TaskFailsFlows
  <2> QED
    BY <1>1, <2>1, RejectFlows, AcceptFlows, CloseFlows, ServerTakeFlows, ServerLosesFlows DEF ServerStep
<1>2. ASSUME NEW c \in Clients, ClientStep(c) PROVE FlowInv'
  <2>1. ASSUME NEW ch \in Channels, ClientSend(c, ch) PROVE FlowInv'
    BY <2>1, ClientSendFlows
  <2> QED
    BY <1>2, <2>1, ConnectFlows, ConfirmedFlows, RefusedFlows, ClientTakeFlows, ClientLosesFlows, StoppedFlows
    DEF ClientStep
<1>3. ASSUME NEW c \in Clients, ClientStart(c) \/ ClientTimesOut(c) \/ ClientStop(c) \/ ClientExits(c) PROVE FlowInv'
  BY <1>3, ClientStartFlows, StoppedFlows, ClientLosesFlows, ClientExitsFlows
<1>4. ASSUME NEW kind \in Kinds, HostSend(kind) PROVE FlowInv'
  BY <1>4, HostSendFlows
<1>5. CASE UNCHANGED vars
  BY <1>5 DEF vars, FlowInv, Types, Rules, ConnTypes, ClientTypes, PortTypes, ConnRule, ClientRule, Idle, Serves,
              Alone, PortRule, Only
<1> QED
  BY <1>1, <1>2, <1>3, <1>4, <1>5 DEF Next

\* FlowInv gives the types.
LEMMA FlowTypes == FlowInv => TypeOK
<1> SUFFICES ASSUME FlowInv PROVE TypeOK
  OBVIOUS
<1>1. ASSUME NEW k \in Conns
      PROVE /\ conn[k].client \in Clients \cup {None} /\ conn[k].phase \in Phases /\ conn[k].peer \in Peers
            /\ conn[k].closed \in BOOLEAN /\ conn[k].incoming \in BOOLEAN
            /\ conn[k].tasks \subseteq Channels /\ conn[k].tlp \subseteq 0 .. 255
  <2>1. conn[k] \in ConnRecord
    BY DEF FlowInv, Types, ConnTypes
  <2>2. /\ conn[k].client \in Clients \cup {None} /\ conn[k].phase \in Phases /\ conn[k].peer \in Peers
        /\ conn[k].closed \in BOOLEAN /\ conn[k].incoming \in BOOLEAN /\ conn[k].tasks \subseteq Channels
    BY <2>1 DEF ConnRecord
  <2>3. conn[k].tlp \in SUBSET (0 .. 255)
    BY TlpIs
  <2> QED
    BY <2>2, <2>3
<1>2. ASSUME NEW c \in Clients
      PROVE /\ client[c].status \in Statuses /\ client[c].conn \in Conns \cup {None}
            /\ client[c].incoming \in BOOLEAN /\ client[c].tasks \subseteq ChannelsOf[c]
            /\ client[c].tlp \subseteq 0 .. 255
  BY DEF FlowInv, Types, Rules, ClientTypes, ClientRecord, ClientRule
<1>3. DOMAIN fifo = Channels
  BY DEF FlowInv, Types, PortTypes, Fifos
<1> QED
  BY <1>1, <1>2, <1>3 DEF TypeOK, FlowInv, Types, PortTypes, Phases, Peers, Statuses

\* All variables have their types; that the processors' tables
\* (CxlPacketProcessor._tlp_table) hold tags of 8 bits follows from whose packets
\* their queues carry.
THEOREM ConnectionTypes == Spec => []TypeOK
<1>1. Init => FlowInv /\ PortInv
  BY InitFlows, InitPort
<1>2. FlowInv /\ PortInv /\ [Next]_vars => (FlowInv /\ PortInv)'
  BY NextFlows, NextPort
<1>3. FlowInv => TypeOK
  BY FlowTypes
<1> QED
  BY <1>1, <1>2, <1>3, PTL DEF Spec

----------------------------------------------------------------------------
(* The readers of the FIFOs of the port.                                   *)

\* No task that writes has failed, and no port was freed under its owner.
Clean == history \cap {"dropped", "unsent", "unpaired"} = {}
\* A queue without notification, or with one
NoNote(q) == \A i \in 1 .. Len(q) : q[i] # Notification
OneNote(q) == \E i \in 1 .. Len(q) : q[i] = Notification /\ \A j \in 1 .. Len(q) : q[j] = Notification => j = i

\* A task whose reader has ended, so that a notification waits for it; a
\* connection that still has tasks
Ended(k, ch) == ch \in conn[k].tasks /\ ~conn[k].incoming
Works(k) == conn[k].incoming \/ conn[k].tasks # {}

\* The inductive invariant: a connection that works has the port; a FIFO holds
\* one notification while the task that reads it has yet to be told of the end
\* of its reader, and none otherwise.
ReaderInv ==
  Clean =>
    /\ \A k \in Conns : (conn[k].incoming => conn[k].tasks = Channels) /\ (Works(k) => conn[k].phase = "running")
    /\ \A ch \in Channels :
         /\ (\A k \in Conns : ~Ended(k, ch)) => NoNote(fifo[ch])
         /\ \A k \in Conns : Ended(k, ch) => OneNote(fifo[ch])

----------------------------------------------------------------------------
\* The notifications of a queue that takes or gives a packet
LEMMA NoteAppended ==
  ASSUME NEW S, Notification \in S, NEW q \in Seq(S), NoNote(q)
  PROVE OneNote(Append(q, Notification))
<1>1. Len(Append(q, Notification)) = Len(q) + 1 /\ Len(q) \in Nat
  BY AppendProperties, LenProperties
<1>2. /\ Append(q, Notification)[Len(q) + 1] = Notification
      /\ \A i \in 1 .. Len(q) : Append(q, Notification)[i] = q[i]
  BY AppendProperties
<1>3. ASSUME NEW j \in 1 .. Len(Append(q, Notification)), Append(q, Notification)[j] = Notification
      PROVE j = Len(q) + 1
  BY <1>1, <1>2, <1>3 DEF NoNote
<1> QED
  BY <1>1, <1>2, <1>3 DEF OneNote

LEMMA OtherAppended ==
  ASSUME NEW S, NEW p \in S, p # Notification, NEW q \in Seq(S)
  PROVE (NoNote(q) => NoNote(Append(q, p))) /\ (OneNote(q) => OneNote(Append(q, p)))
<1>1. Len(Append(q, p)) = Len(q) + 1 /\ Len(q) \in Nat
  BY AppendProperties, LenProperties
<1>2. Append(q, p)[Len(q) + 1] = p /\ \A i \in 1 .. Len(q) : Append(q, p)[i] = q[i]
  BY AppendProperties
<1>3. \A j \in 1 .. Len(Append(q, p)) : Append(q, p)[j] = Notification => j \in 1 .. Len(q) /\ q[j] = Notification
  BY <1>1, <1>2
<1>4. NoNote(q) => NoNote(Append(q, p))
  BY <1>3 DEF NoNote
<1>5. ASSUME OneNote(q) PROVE OneNote(Append(q, p))
  <2>1. PICK i \in 1 .. Len(q) : q[i] = Notification /\ \A j \in 1 .. Len(q) : q[j] = Notification => j = i
    BY <1>5 DEF OneNote
  <2>2. i \in 1 .. Len(Append(q, p)) /\ Append(q, p)[i] = Notification
    BY <1>1, <1>2, <2>1
  <2> QED
    BY <1>3, <2>1, <2>2 DEF OneNote
<1> QED
  BY <1>4, <1>5

LEMMA NoteTaken ==
  ASSUME NEW S, NEW q \in Seq(S), q # <<>>, Head(q) = Notification
  PROVE ~NoNote(q) /\ (OneNote(q) => NoNote(Tail(q)))
<1>1. Len(Tail(q)) = Len(q) - 1 /\ Len(q) \in Nat \ {0} /\ \A i \in 1 .. Len(Tail(q)) : Tail(q)[i] = q[i + 1]
  BY HeadTailProperties, EmptySeq
<1>2. q[1] = Notification /\ 1 \in 1 .. Len(q)
  BY <1>1
<1>3. ASSUME OneNote(q), NEW i \in 1 .. Len(Tail(q)), Tail(q)[i] = Notification PROVE FALSE
  <2>1. i + 1 \in 1 .. Len(q) /\ q[i + 1] = Notification /\ i + 1 # 1
    BY <1>1, <1>3
  <2> QED
    BY <1>2, <1>3, <2>1 DEF OneNote
<1> QED
  BY <1>2, <1>3 DEF NoNote

LEMMA OtherTaken ==
  ASSUME NEW S, NEW q \in Seq(S), q # <<>>, Head(q) # Notification
  PROVE (NoNote(q) => NoNote(Tail(q))) /\ (OneNote(q) => OneNote(Tail(q)))
<1>1. Len(Tail(q)) = Len(q) - 1 /\ Len(q) \in Nat \ {0} /\ \A i \in 1 .. Len(Tail(q)) : Tail(q)[i] = q[i + 1]
  BY HeadTailProperties, EmptySeq
<1>2. q[1] # Notification
  BY <1>1
<1>3. \A i \in 1 .. Len(Tail(q)) : i + 1 \in 1 .. Len(q)
  BY <1>1
<1>4. NoNote(q) => NoNote(Tail(q))
  BY <1>1, <1>3 DEF NoNote
<1>5. ASSUME OneNote(q) PROVE OneNote(Tail(q))
  <2>1. PICK i \in 1 .. Len(q) : q[i] = Notification /\ \A j \in 1 .. Len(q) : q[j] = Notification => j = i
    BY <1>5 DEF OneNote
  <2>2. i # 1
    BY <1>2, <2>1
  <2>3. i - 1 \in 1 .. Len(Tail(q)) /\ (i - 1) + 1 = i
    BY <1>1, <2>1, <2>2
  <2>4. Tail(q)[i - 1] = Notification
    BY <1>1, <2>1, <2>3
  <2>5. ASSUME NEW j \in 1 .. Len(Tail(q)), Tail(q)[j] = Notification PROVE j = i - 1
    <3>1. j + 1 = i
      BY <1>1, <1>3, <2>1, <2>5
    <3> QED
      BY <2>1, <3>1
  <2> QED
    BY <2>3, <2>4, <2>5 DEF OneNote
<1> QED
  BY <1>4, <1>5

----------------------------------------------------------------------------
\* A step that moves no task and no notification
LEMMA ReaderStays ==
  ASSUME ReaderInv, Remembers, fifo' = fifo,
         \A k \in Conns : conn'[k].tasks = conn[k].tasks /\ (conn'[k].incoming <=> conn[k].incoming),
         \A k \in Conns : Clean /\ Works(k) => conn'[k].phase = "running"
  PROVE ReaderInv'
<1> SUFFICES ASSUME Clean' PROVE ReaderInv'
  BY DEF ReaderInv
<1>1. Clean
  BY DEF Clean, Remembers
<1>2. \A k \in Conns, ch \in Channels : Ended(k, ch)' <=> Ended(k, ch)
  BY DEF Ended
<1>3. \A k \in Conns : Works(k)' <=> Works(k)
  BY DEF Works
<1>4. \A ch \in Channels : (NoNote(fifo[ch])' <=> NoNote(fifo[ch])) /\ (OneNote(fifo[ch])' <=> OneNote(fifo[ch]))
  BY DEF NoNote, OneNote
<1> QED
  BY <1>1, <1>2, <1>3, <1>4 DEF ReaderInv

\* A step after which a task has failed needs no proof.
LEMMA Dirty ==
  ASSUME ~Clean'
  PROVE ReaderInv'
BY DEF ReaderInv

\* Two connections that work are the same: both have the port.
LEMMA OneRuns ==
  ASSUME PortInv, ReaderInv, Clean, NEW j \in Conns, NEW k \in Conns, Works(j), Works(k)
  PROVE j = k
<1>1. j \in Running /\ k \in Running
  BY DEF ReaderInv, Running
<1>2. "dropped" \notin history
  BY DEF Clean
<1> QED
  BY <1>1, <1>2 DEF PortInv, Owned

\* The steps of the server: a rejected connection never had tasks,
LEMMA RejectReads ==
  ASSUME FlowInv, ReaderInv, NEW k \in Conns, Reject(k)
  PROVE ReaderInv'
<1>1. ConnTypes
  BY ConnIs
<1>2. ConnBecomes(k, "closed", conn[k].peer, TRUE, conn[k].incoming, conn[k].tasks, conn[k].tlp,
                  <<>>, Append(conn[k].toClient, Sideband(CONNECTION_REJECT)))
  BY <1>1, RejectEffect
<1>3. \A j \in Conns : conn'[j].tasks = conn[j].tasks /\ (conn'[j].incoming <=> conn[j].incoming)
  BY <1>2 DEF ConnBecomes, OneConn
<1>4. conn[k].phase = "asked" /\ fifo' = fifo /\ Remembers
  BY DEF Reject, Remembers
<1>5. \A j \in Conns : Clean /\ Works(j) => conn'[j].phase = "running"
  BY <1>2, <1>4 DEF ReaderInv, ConnBecomes, OneConn
<1> QED
  BY <1>3, <1>4, <1>5, ReaderStays

\* ... one that ends has none left,
LEMMA CloseReads ==
  ASSUME FlowInv, ReaderInv, NEW k \in Conns, DrainFails(k) \/ ServerEnds(k)
  PROVE ReaderInv'
<1>1. ConnTypes
  BY ConnIs
<1>2. ConnBecomes(k, "closed", conn[k].peer, TRUE, conn[k].incoming, conn[k].tasks, conn[k].tlp,
                  conn[k].toServer, conn[k].toClient)
  BY <1>1, CloseEffect
<1>3. \A j \in Conns : conn'[j].tasks = conn[j].tasks /\ (conn'[j].incoming <=> conn[j].incoming)
  BY <1>2 DEF ConnBecomes, OneConn
<1>4. (conn[k].phase = "draining" \/ ~Works(k)) /\ fifo' = fifo /\ Remembers
  BY DEF DrainFails, ServerEnds, Works, Remembers
<1>5. \A j \in Conns : Clean /\ Works(j) => conn'[j].phase = "running"
  BY <1>2, <1>4 DEF ReaderInv, ConnBecomes, OneConn
<1> QED
  BY <1>3, <1>4, <1>5, ReaderStays

\* ... and taking a packet moves neither task nor notification.
LEMMA ServerTakeReads ==
  ASSUME FlowInv, ReaderInv, NEW k \in Conns, ServerTake(k)
  PROVE ReaderInv'
<1>1. ConnTypes
  BY ConnIs
<1>2. ConnBecomes(k, conn[k].phase, conn[k].peer, conn[k].closed, conn[k].incoming, conn[k].tasks,
                  TlpAfter(Head(conn[k].toServer), conn[k].tlp), Tail(conn[k].toServer), conn[k].toClient)
  BY <1>1, ServerTakeEffect
<1>3. \A j \in Conns : /\ conn'[j].tasks = conn[j].tasks /\ (conn'[j].incoming <=> conn[j].incoming)
                       /\ conn'[j].phase = conn[j].phase
  BY <1>2 DEF ConnBecomes, OneConn
<1>4. fifo' = fifo /\ Remembers
  BY DEF ServerTake, Remembers
<1>5. \A j \in Conns : Clean /\ Works(j) => conn'[j].phase = "running"
  BY <1>3 DEF ReaderInv
<1> QED
  BY <1>3, <1>4, <1>5, ReaderStays

\* The tasks of a new connection find no notification: nobody else has tasks.
LEMMA AcceptReads ==
  ASSUME FlowInv, PortInv, ReaderInv, NEW k \in Conns, Accept(k)
  PROVE ReaderInv'
<1>1. ConnTypes
  BY ConnIs
<1>2. CASE conn[k].peer = "reset"
  BY <1>2, Dirty DEF Accept, Clean
<1>3. CASE conn[k].peer # "reset"
  <2> SUFFICES ASSUME Clean' PROVE ReaderInv'
    BY DEF ReaderInv
  <2>1. PICK all : all = FifosOf("DSP") \cap Channels
    OBVIOUS
  <2>2. ConnBecomes(k, "running", conn[k].peer, conn[k].closed, TRUE, all, conn[k].tlp,
                    Tail(conn[k].toServer), Append(conn[k].toClient, Sideband(CONNECTION_ACCEPT)))
    BY <1>1, <1>3, <2>1, AcceptEffect
  <2>3. all = Channels
    BY <2>1, ConnectionAssumption DEF FifosOf
  <2>4. ~connected /\ fifo' = fifo /\ history' = history
    BY <1>3 DEF Accept, Accepts
  <2>5. Clean /\ Running = {}
    BY <2>4 DEF Clean, PortInv, Owned
  <2>6. \A j \in Conns : ~Works(j)
    BY <2>5 DEF ReaderInv, Running
  <2>7. \A j \in Conns : (conn'[j].incoming => conn'[j].tasks = Channels) /\ (Works(j)' => conn'[j].phase = "running")
    <3>1. ASSUME NEW j \in Conns
          PROVE (conn'[j].incoming => conn'[j].tasks = Channels) /\ (Works(j)' => conn'[j].phase = "running")
      <4>1. CASE j = k
        BY <2>2, <2>3, <4>1 DEF ConnBecomes
      <4>2. CASE j # k
        BY <2>2, <2>6, <4>2 DEF ConnBecomes, OneConn, Works
      <4> QED
        BY <4>1, <4>2
    <3> QED
      BY <3>1
  <2>8. \A j \in Conns, ch \in Channels : ~Ended(j, ch)'
    <3>1. ASSUME NEW j \in Conns, NEW ch \in Channels PROVE ~Ended(j, ch)'
      <4>1. CASE j = k
        BY <2>2, <4>1 DEF ConnBecomes, Ended
      <4>2. CASE j # k
        BY <2>2, <2>6, <4>2 DEF ConnBecomes, OneConn, Works, Ended
      <4> QED
        BY <4>1, <4>2
    <3> QED
      BY <3>1
  <2>9. \A ch \in Channels : NoNote(fifo[ch])'
    <3>1. \A ch \in Channels : NoNote(fifo[ch])
      BY <2>5, <2>6 DEF ReaderInv, Works, Ended
    <3> QED
      BY <2>4, <3>1 DEF NoNote
  <2> QED
    BY <2>7, <2>8, <2>9 DEF ReaderInv
<1> QED
  BY <1>2, <1>3

\* A task is told once: its reader ends only once.
LEMMA ServerLosesReads ==
  ASSUME FlowInv, PortInv, ReaderInv, NEW k \in Conns, ServerLosesReader(k)
  PROVE ReaderInv'
<1> SUFFICES ASSUME Clean' PROVE ReaderInv'
  BY DEF ReaderInv
<1>1. ConnTypes
  BY ConnIs
<1>2. ConnBecomes(k, conn[k].phase, conn[k].peer, conn[k].closed, FALSE, conn[k].tasks, conn[k].tlp,
                  <<>>, conn[k].toClient)
  BY <1>1, ServerLosesEffect
<1>3. Clean /\ conn[k].incoming
  BY DEF ServerLosesReader, Clean
<1>4. conn[k].tasks = Channels /\ conn[k].phase = "running"
  BY <1>3 DEF ReaderInv, Works
<1>5. \A j \in Conns : j # k => ~Works(j)
  <2>1. ASSUME NEW j \in Conns, j # k, Works(j) PROVE FALSE
    BY <1>3, <2>1, OneRuns DEF Works
  <2> QED
    BY <2>1
<1>6. \A j \in Conns : (conn'[j].incoming => conn'[j].tasks = Channels) /\ (Works(j)' => conn'[j].phase = "running")
  <2>1. ASSUME NEW j \in Conns
        PROVE (conn'[j].incoming => conn'[j].tasks = Channels) /\ (Works(j)' => conn'[j].phase = "running")
    <3>1. CASE j = k
      BY <1>2, <1>4, <3>1 DEF ConnBecomes
    <3>2. CASE j # k
      BY <1>2, <1>5, <3>2 DEF ConnBecomes, OneConn, Works
    <3> QED
      BY <3>1, <3>2
  <2> QED
    BY <2>1
<1>7. ASSUME NEW ch \in Channels PROVE OneNote(fifo'[ch]) /\ Ended(k, ch)'
  <2>1. \A j \in Conns : ~Ended(j, ch)
    BY <1>3, <1>5 DEF Ended, Works
  <2>2. PICK q : q = fifo[ch]
    OBVIOUS
  <2>3. q \in Seq(PacketSet) /\ NoNote(q)
    BY <1>3, <2>1, <2>2, PortIs DEF ReaderInv, Fifos
  <2>4. OneNote(Append(q, Notification))
    BY <2>3, NoteAppended, PacketsAre
  <2>5. fifo'[ch] = Append(q, Notification)
    BY <2>2, PortIs DEF ServerLosesReader, ServerNotifies, Notified, Fifos
  <2>6. Ended(k, ch)'
    BY <1>2, <1>4 DEF Ended, ConnBecomes
  <2> QED
    BY <2>4, <2>5, <2>6
<1>8. \A ch \in Channels : OneNote(fifo[ch])'
  BY <1>7 DEF OneNote
<1> QED
  BY <1>6, <1>7, <1>8 DEF ReaderInv

\* A notification is taken by the task it is for; a packet leaves it in place.
LEMMA ServerSendReads ==
  ASSUME FlowInv, PortInv, ReaderInv, NEW k \in Conns, NEW ch \in Channels, ServerSend(k, ch)
  PROVE ReaderInv'
<1> SUFFICES ASSUME Clean' PROVE ReaderInv'
  BY DEF ReaderInv
<1>1. ConnTypes
  BY ConnIs
<1>2. Clean /\ ch \in conn[k].tasks /\ fifo[ch] # <<>> /\ fifo' = [fifo EXCEPT ![ch] = Tail(fifo[ch])]
  BY DEF ServerSend, Clean
<1>3. \A j \in Conns : j # k => ~Works(j)
  <2>1. ASSUME NEW j \in Conns, j # k, Works(j) PROVE FALSE
    BY <1>2, <2>1, OneRuns DEF Works
  <2> QED
    BY <2>1
<1>4. \A j \in Conns, o \in Channels : j # k => ~Ended(j, o)
  BY <1>3 DEF Ended, Works
<1>5. conn[k].phase = "running" /\ (conn[k].incoming => conn[k].tasks = Channels)
  BY <1>2 DEF ReaderInv, Works
<1>6. PICK q : q = fifo[ch]
  OBVIOUS
<1>7. q \in Seq(PacketSet) /\ q # <<>>
  BY <1>2, <1>6, PortIs DEF Fifos
<1>8. fifo'[ch] = Tail(q) /\ \A o \in Channels : o # ch => fifo'[o] = fifo[o]
  BY <1>2, <1>6, PortIs DEF Fifos
<1>9. \A o \in Channels : (Ended(k, o) => OneNote(fifo[o])) /\ (~Ended(k, o) => NoNote(fifo[o]))
  BY <1>2, <1>4 DEF ReaderInv
<1>10. CASE Head(fifo[ch]) = Notification
  <2>1. ConnBecomes(k, conn[k].phase, conn[k].peer, conn[k].closed, conn[k].incoming, conn[k].tasks \ {ch},
                    conn[k].tlp, conn[k].toServer, conn[k].toClient)
    BY <1>1, <1>10, TaskEndsEffect
  <2>2. ~NoNote(q) /\ (OneNote(q) => NoNote(Tail(q)))
    BY <1>6, <1>7, <1>10, NoteTaken
  <2>3. Ended(k, ch) /\ NoNote(fifo'[ch])
    BY <1>6, <1>8, <1>9, <2>2
  <2>4. ~conn[k].incoming
    BY <2>3 DEF Ended
  <2>5. \A o \in Channels : Ended(k, o)' <=> (o # ch /\ Ended(k, o))
    BY <2>1 DEF Ended, ConnBecomes
  <2>6. \A j \in Conns, o \in Channels : j # k => ~Ended(j, o)'
    BY <1>4, <2>1 DEF Ended, ConnBecomes, OneConn
  <2>7. \A j \in Conns : (conn'[j].incoming => conn'[j].tasks = Channels) /\ (Works(j)' => conn'[j].phase = "running")
    <3>1. ASSUME NEW j \in Conns
          PROVE (conn'[j].incoming => conn'[j].tasks = Channels) /\ (Works(j)' => conn'[j].phase = "running")
      <4>1. CASE j = k
        BY <1>5, <2>1, <2>4, <4>1 DEF ConnBecomes
      <4>2. CASE j # k
        BY <1>3, <2>1, <4>2 DEF ConnBecomes, OneConn, Works
      <4> QED
        BY <4>1, <4>2
    <3> QED
      BY <3>1
  <2>8. \A o \in Channels : (Ended(k, o)' => OneNote(fifo'[o])) /\ (~Ended(k, o)' => NoNote(fifo'[o]))
    BY <1>8, <1>9, <2>3, <2>5
  <2>9. \A o \in Channels : /\ OneNote(fifo'[o]) <=> OneNote(fifo[o])'
                            /\ NoNote(fifo'[o]) <=> NoNote(fifo[o])'
    BY DEF OneNote, NoNote
  <2> QED
    BY <2>6, <2>7, <2>8, <2>9 DEF ReaderInv
<1>11. CASE Head(fifo[ch]) # Notification
  <2> DEFINE table == TlpAfter(Head(fifo[ch]), conn[k].tlp)
             peer == IF conn[k].peer = "eof" THEN "reset" ELSE conn[k].peer
             out == IF conn[k].peer = "open" THEN Append(conn[k].toClient, Head(fifo[ch])) ELSE conn[k].toClient
  <2>1. ConnBecomes(k, conn[k].phase, peer, conn[k].closed, conn[k].incoming, conn[k].tasks, table,
                    conn[k].toServer, out)
    BY <1>1, <1>11, ServerSendEffect
  <2> HIDE DEF table, peer, out
  <2>2. (NoNote(q) => NoNote(Tail(q))) /\ (OneNote(q) => OneNote(Tail(q)))
    BY <1>6, <1>7, <1>11, OtherTaken
  <2>3. \A j \in Conns : /\ conn'[j].tasks = conn[j].tasks /\ (conn'[j].incoming <=> conn[j].incoming)
                         /\ conn'[j].phase = conn[j].phase
    BY <2>1 DEF ConnBecomes, OneConn
  <2>4. \A j \in Conns, o \in Channels : Ended(j, o)' <=> Ended(j, o)
    BY <2>3 DEF Ended
  <2>5. \A j \in Conns : (conn'[j].incoming => conn'[j].tasks = Channels) /\ (Works(j)' => conn'[j].phase = "running")
    BY <1>2, <2>3 DEF ReaderInv, Works
  <2>6. \A o \in Channels : (Ended(k, o) => OneNote(fifo'[o])) /\ (~Ended(k, o) => NoNote(fifo'[o]))
    BY <1>6, <1>8, <1>9, <2>2
  <2>7. \A o \in Channels : /\ OneNote(fifo'[o]) <=> OneNote(fifo[o])'
                            /\ NoNote(fifo'[o]) <=> NoNote(fifo[o])'
    BY DEF OneNote, NoNote
  <2> QED
    BY <1>4, <2>4, <2>5, <2>6, <2>7 DEF ReaderInv
<1> QED
  BY <1>10, <1>11

\* A packet of the host is no notification.
LEMMA HostSendReads ==
  ASSUME FlowInv, ReaderInv, NEW kind \in Kinds, HostSend(kind)
  PROVE ReaderInv'
<1> SUFFICES ASSUME Clean' PROVE ReaderInv'
  BY DEF ReaderInv
<1> DEFINE t == tag[Counter(kind)]
<1>1. Counter(kind) \in {"cfg", "mmio"} /\ t \in 0 .. Tags - 1
  BY DEF Counter, FlowInv, Types, PortTypes
<1>2. PICK p : p = Request(kind, t)
  OBVIOUS
<1>3. p \in HostPackets
  BY <1>1, <1>2 DEF HostPackets
<1>4. PICK ch : ch = ChannelOf(p)
  OBVIOUS
<1>5. fifo' = [fifo EXCEPT ![ch] = Append(fifo[ch], p)] /\ conn' = conn /\ Clean
  BY <1>2, <1>4 DEF HostSend, Clean
<1>6. ASSUME NEW o \in Channels
      PROVE (NoNote(fifo[o]) => NoNote(fifo'[o])) /\ (OneNote(fifo[o]) => OneNote(fifo'[o]))
  <2>1. PICK q : q = fifo[o]
    OBVIOUS
  <2>2. q \in Seq(PacketSet) /\ p # Notification /\ p \in PacketSet
    BY <1>3, <2>1, PortIs, HostFacts, PacketsAre DEF Fifos, Fine
  <2>3. fifo'[o] = Append(q, p) \/ fifo'[o] = q
    BY <1>5, <2>1, PortIs DEF Fifos
  <2>4. (NoNote(q) => NoNote(Append(q, p))) /\ (OneNote(q) => OneNote(Append(q, p)))
    BY <2>2, OtherAppended
  <2> QED
    BY <2>1, <2>3, <2>4
<1>7. \A o \in Channels : /\ OneNote(fifo'[o]) <=> OneNote(fifo[o])'
                          /\ NoNote(fifo'[o]) <=> NoNote(fifo[o])'
  BY DEF OneNote, NoNote
<1>8. \A j \in Conns, o \in Channels : (Ended(j, o)' <=> Ended(j, o)) /\ (Works(j)' <=> Works(j))
  BY <1>5 DEF Ended, Works
<1>9. \A j \in Conns : (conn'[j].incoming => conn'[j].tasks = Channels) /\ (Works(j)' => conn'[j].phase = "running")
  BY <1>5 DEF ReaderInv, Works
<1> QED
  BY <1>5, <1>6, <1>7, <1>8, <1>9 DEF ReaderInv

\* What the steps of a client leave of a connection
LEMMA ClientLeaves ==
  ASSUME FlowInv, NEW c \in Clients,
         ClientStep(c) \/ ClientStart(c) \/ ClientTimesOut(c) \/ ClientStop(c) \/ ClientExits(c),
         ~Connect(c), NEW j \in Conns
  PROVE /\ conn'[j].tasks = conn[j].tasks /\ (conn'[j].incoming <=> conn[j].incoming)
        /\ conn'[j].phase = conn[j].phase
<1> DEFINE Same == /\ conn'[j].tasks = conn[j].tasks /\ (conn'[j].incoming <=> conn[j].incoming)
                   /\ conn'[j].phase = conn[j].phase
<1>1. ClientRule(c) /\ client[c].conn \in Conns \cup {None} /\ ConnTypes
  BY ClientIs
<1>2. ASSUME NEW k \in Conns, client[c].conn = k, Confirmed(c) \/ ClientTake(c) PROVE Same
  BY <1>1, <1>2, ConfirmedPort, ClientTakePort DEF ConnBecomes, OneConn
<1>3. ASSUME NEW k \in Conns, client[c].conn = k, Refused(c) PROVE Same
  BY <1>1, <1>3, RefusedPort DEF ConnBecomes, OneConn
<1>4. ASSUME NEW k \in Conns, client[c].conn = k, ClientExits(c) PROVE Same
  <2>1. PICK how \in {"eof", "reset"} :
          ConnBecomes(k, conn[k].phase, how, conn[k].closed, conn[k].incoming, conn[k].tasks, conn[k].tlp,
                      conn[k].toServer, <<>>)
    BY <1>1, <1>4, ClientExitsPort
  <2> QED
    BY <2>1 DEF ConnBecomes, OneConn
<1>5. ASSUME NEW k \in Conns, client[c].conn = k, NEW ch \in Channels, ClientSend(c, ch) PROVE Same
  <2>1. PICK p : p = Head(client[c].fifo[ch])
    OBVIOUS
  <2>2. CASE p # Notification /\ ~TlpFails(p, client[c].tlp) /\ ~conn[k].closed
    <3>1. PICK s : s = Append(conn[k].toServer, p)
      OBVIOUS
    <3>2. ConnBecomes(k, conn[k].phase, conn[k].peer, conn[k].closed, conn[k].incoming, conn[k].tasks, conn[k].tlp,
                      s, conn[k].toClient)
      BY <1>1, <1>5, <2>1, <2>2, <3>1, ClientSendPort
    <3> QED
      BY <3>2 DEF ConnBecomes, OneConn
  <2>3. CASE ~(p # Notification /\ ~TlpFails(p, client[c].tlp) /\ ~conn[k].closed)
    <3>1. conn' = conn
      BY <1>1, <1>5, <2>1, <2>3, ClientSendPort
    <3> QED
      BY <3>1
  <2> QED
    BY <2>2, <2>3
<1>6. Confirmed(c) \/ Refused(c) \/ ClientTake(c) \/ ClientExits(c) \/ (\E ch \in Channels : ClientSend(c, ch))
        => client[c].conn \in Conns
  BY <1>1 DEF ClientRule, Idle, Confirmed, Refused, ClientTake, ClientExits, ClientSend, Answered
<1>7. CASE ClientLosesReader(c) \/ ClientEnds(c) \/ ClientStart(c) \/ ClientTimesOut(c) \/ ClientStop(c)
  BY <1>7 DEF ClientLosesReader, ClientEnds, ClientStart, ClientTimesOut, ClientStop
<1> QED
  BY <1>2, <1>3, <1>4, <1>5, <1>6, <1>7 DEF ClientStep

\* So a client disturbs no reader of the port.
LEMMA ClientReads ==
  ASSUME FlowInv, ReaderInv, NEW c \in Clients,
         ClientStep(c) \/ ClientStart(c) \/ ClientTimesOut(c) \/ ClientStop(c) \/ ClientExits(c), ~Connect(c)
  PROVE ReaderInv'
<1>1. \A j \in Conns : /\ conn'[j].tasks = conn[j].tasks /\ (conn'[j].incoming <=> conn[j].incoming)
                       /\ conn'[j].phase = conn[j].phase
  BY ClientLeaves
<1>2. fifo' = fifo /\ Remembers
  BY DEF ClientStep, ClientStart, ClientTimesOut, ClientStop, ClientExits, Confirmed, Refused, ClientTake,
         ClientLosesReader, ClientEnds, ClientSend, Remembers
<1>3. \A j \in Conns : Clean /\ Works(j) => conn'[j].phase = "running"
  BY <1>1 DEF ReaderInv
<1> QED
  BY <1>1, <1>2, <1>3, ReaderStays

\* A new connection has no tasks.
LEMMA ConnectReads ==
  ASSUME FlowInv, PortInv, ReaderInv, NEW c \in Clients, Connect(c)
  PROVE ReaderInv'
<1> SUFFICES ASSUME Clean' PROVE ReaderInv'
  BY DEF ReaderInv
<1>1. PICK k : k = Fresh
  OBVIOUS
<1>2. k \in Conns /\ conn[k].phase = "none"
  BY <1>1, FreshIsNew DEF Connect
<1>3. ConnTypes
  BY <1>2, ConnIs
<1>4. PICK p \in Openings[c] : ConnBecomes(k, "asked", "open", FALSE, FALSE, {}, {}, <<p>>, <<>>)
  BY <1>1, <1>2, <1>3, ConnectPort
<1>5. fifo' = fifo /\ Remembers /\ Clean
  BY DEF Connect, Remembers, Clean
<1>6. ~Works(k)
  BY <1>2, <1>5 DEF ReaderInv
<1>7. \A j \in Conns : conn'[j].tasks = conn[j].tasks /\ (conn'[j].incoming <=> conn[j].incoming)
  BY <1>4, <1>6 DEF ConnBecomes, OneConn, Works
<1>8. \A j \in Conns : Clean /\ Works(j) => conn'[j].phase = "running"
  BY <1>4, <1>6 DEF ConnBecomes, OneConn, ReaderInv
<1> QED
  BY <1>5, <1>7, <1>8, ReaderStays

\* ReaderInv holds from the start.
LEMMA InitReads == Init => ReaderInv
<1> SUFFICES ASSUME Init PROVE ReaderInv
  OBVIOUS
<1>1. \A k \in Conns : ~conn[k].incoming /\ conn[k].tasks = {}
  BY DEF Init, NoConn
<1>2. \A ch \in Channels : NoNote(fifo[ch])
  BY DEF Init, NoNote
<1> QED
  BY <1>1, <1>2 DEF ReaderInv, Works, Ended

\* Every step keeps ReaderInv.
LEMMA NextReads == FlowInv /\ PortInv /\ ReaderInv /\ [Next]_vars => ReaderInv'
<1> SUFFICES ASSUME FlowInv, PortInv, ReaderInv, [Next]_vars PROVE ReaderInv'
  OBVIOUS
<1>1. ASSUME NEW k \in Conns, ServerStep(k) PROVE ReaderInv'
  <2>1. ASSUME NEW ch \in Channels, ServerSend(k, ch) PROVE ReaderInv'
    BY <2>1, ServerSendReads
  <2>2. ASSUME NEW ch \in Channels, ServerTaskFails(k, ch) PROVE ReaderInv'
    BY <2>2, Dirty DEF ServerTaskFails, Clean
  <2> QED
    BY <1>1, <2>1, <2>2, RejectReads, AcceptReads, CloseReads, ServerTakeReads, ServerLosesReads DEF ServerStep
<1>2. ASSUME NEW c \in Clients,
             ClientStep(c) \/ ClientStart(c) \/ ClientTimesOut(c) \/ ClientStop(c) \/ ClientExits(c)
      PROVE ReaderInv'
  BY <1>2, ConnectReads, ClientReads
<1>3. ASSUME NEW kind \in Kinds, HostSend(kind) PROVE ReaderInv'
  BY <1>3, HostSendReads
<1>4. CASE UNCHANGED vars
  <2>1. fifo' = fifo /\ conn' = conn /\ Remembers
    BY <1>4 DEF vars, Remembers
  <2>2. \A k \in Conns : Clean /\ Works(k) => conn'[k].phase = "running"
    BY <2>1 DEF ReaderInv
  <2> QED
    BY <2>1, <2>2, ReaderStays
<1> QED
  BY <1>1, <1>2, <1>3, <1>4 DEF Next

\* ReaderInv gives the property: the sets it counts have one element, or none.
LEMMA ReadsAlone == FlowInv /\ PortInv /\ ReaderInv => OneReader
<1> SUFFICES ASSUME FlowInv, PortInv, ReaderInv, history \cap {"dropped", "unsent",
                                                               "unpaired"} = {}, NEW ch \in Channels
             PROVE /\ Cardinality({k \in Conns : ch \in conn[k].tasks}) <= 1
                   /\ Cardinality(NotificationsIn(fifo[ch])) =
                        Cardinality({k \in Conns : ch \in conn[k].tasks /\ ~conn[k].incoming})
  BY DEF OneReader
<1>1. Clean
  BY DEF Clean
<1> DEFINE readers == {k \in Conns : ch \in conn[k].tasks}
           ended == {k \in Conns : ch \in conn[k].tasks /\ ~conn[k].incoming}
           notes == NotificationsIn(fifo[ch])
<1>2. \A j, k \in readers : j = k
  BY <1>1, OneRuns DEF Works
<1>3. PICK q : q = fifo[ch]
  OBVIOUS
<1>4. q \in Seq(PacketSet)
  BY <1>3, PortIs DEF Fifos
<1>5. notes = {i \in 1 .. Len(q) : q[i] = Notification}
  BY <1>3, <1>4 DEF NotificationsIn
<1>6. ended \subseteq readers /\ \A k \in Conns : k \in ended <=> Ended(k, ch)
  BY DEF Ended
<1>7. (ended = {} => NoNote(q)) /\ (ended # {} => OneNote(q))
  BY <1>1, <1>3, <1>6 DEF ReaderInv
<1> HIDE DEF readers, ended, notes
<1>8. Cardinality(readers) <= 1
  <2>1. CASE readers = {}
    BY <2>1, FS_EmptySet
  <2>2. CASE readers # {}
    <3>1. PICK k : readers = {k}
      BY <1>2, <2>2
    <3>2. Cardinality({k}) = 1
      BY FS_Singleton
    <3> QED
      BY <3>1, <3>2
  <2> QED
    BY <2>1, <2>2
<1>9. Cardinality(notes) = Cardinality(ended)
  <2>1. CASE ended = {}
    <3>1. notes = {}
      BY <1>5, <1>7, <2>1 DEF NoNote
    <3> QED
      BY <2>1, <3>1
  <2>2. CASE ended # {}
    <3>0. PICK k : k \in ended
      BY <2>2
    <3>1. ended = {k}
      <4>1. ASSUME NEW j \in ended PROVE j = k
        BY <1>2, <1>6, <3>0
      <4> QED
        BY <3>0, <4>1
    <3>2. PICK i : notes = {i}
      <4>1. PICK i \in 1 .. Len(q) : q[i] = Notification /\ \A j \in 1 .. Len(q) : q[j] = Notification => j = i
        BY <1>7, <2>2 DEF OneNote
      <4>2. notes = {i}
        BY <1>5, <4>1
      <4> QED
        BY <4>2
    <3>3. Cardinality({k}) = 1 /\ Cardinality({i}) = 1
      BY FS_Singleton
    <3> QED
      BY <3>1, <3>2, <3>3
  <2> QED
    BY <2>1, <2>2
<1> QED
  BY <1>8, <1>9 DEF readers, ended, notes

\* As long as no task that writes fails and nobody resets a connection during
\* its handshake, a FIFO of a port has one reader, and the notifications in it
\* are for that reader (CxlPacketProcessor._notify_disconnection and its
\* _process_outgoing tasks): none ends a task of the connection that comes next.
THEOREM OneReaderAlways == Spec => []OneReader
<1>1. Init => FlowInv /\ PortInv /\ ReaderInv
  BY InitFlows, InitPort, InitReads
<1>2. FlowInv /\ PortInv /\ ReaderInv /\ [Next]_vars => (FlowInv /\ PortInv /\ ReaderInv)'
  BY NextFlows, NextPort, NextReads
<1>3. FlowInv /\ PortInv /\ ReaderInv => OneReader
  BY ReadsAlone
<1> QED
  BY <1>1, <1>2, <1>3, PTL DEF Spec

----------------------------------------------------------------------------
(* Where the transactions of the host are.                                 *)

\* The transactions of the packets of a queue, and that each is there once
TagsOf(s) == UNION {OwnTag(s[i]) : i \in 1 .. Len(s)}
Once(s) == \A i, j \in 1 .. Len(s) : OwnTag(s[i]) \cap OwnTag(s[j]) # {} => i = j

\* Where a transaction of the host is: in a FIFO of the port, in the table of
\* the connection's processor, on the way to the client, in the client's
\* table, in one of its FIFOs, on the way back.
Queued(ch) == TagsOf(fifo[ch])
Table(k) == conn[k].tlp
Out(k) == TagsOf(conn[k].toClient)
Back(k) == IF conn[k].phase = "asked" THEN {} ELSE TagsOf(conn[k].toServer)
Theirs(c) == client[c].tlp
Held(c, ch) == TagsOf(client[c].fifo[ch])

\* The transactions in the FIFOs of the port are apart and in no table.
PortTag(ch) ==
  /\ Once(fifo[ch]) /\ Queued(ch) \subseteq waiting
  /\ \A k \in Conns : Queued(ch) \cap Table(k) = {}
  /\ \A o \in Channels : o # ch => Queued(ch) \cap Queued(o) = {}
\* What is on its way is in the table of the server's processor, and only goes
\* in one direction; no two tables share a transaction.
ConnTag(k) ==
  /\ Once(conn[k].toClient) /\ (conn[k].phase # "asked" => Once(conn[k].toServer))
  /\ Out(k) \subseteq Table(k) /\ Back(k) \subseteq Table(k) /\ Out(k) \cap Back(k) = {}
  /\ Table(k) \subseteq waiting
  /\ \A j \in Conns : j # k => Table(j) \cap Table(k) = {}
\* What a client is yet to answer is in its table.
QueueTag(c, ch) ==
  /\ Once(client[c].fifo[ch]) /\ Held(c, ch) \subseteq Theirs(c)
  /\ \A o \in Channels : o # ch => Held(c, ch) \cap Held(c, o) = {}
\* What is in a client's table is in that of its connection, and not on its way.
LinkTag(c, k) == Theirs(c) \subseteq Table(k) /\ Theirs(c) \cap Out(k) = {} /\ Theirs(c) \cap Back(k) = {}

\* The inductive invariant: until a tag is reused, a transaction is at one of
\* these places, so no processor misses the one it looks up or meets one twice.
Paired ==
  /\ "unpaired" \notin history
  /\ \A ch \in Channels : PortTag(ch)
  /\ \A k \in Conns : ConnTag(k)
  /\ \A c \in Clients, ch \in Channels : QueueTag(c, ch)
  /\ \A c \in Clients, k \in Conns : client[c].conn = k => LinkTag(c, k)
TagInv == "reused" \notin history => Paired

----------------------------------------------------------------------------
\* The transactions of a queue under the operations of the model
LEMMA TagsEmpty == TagsOf(<<>>) = {} /\ Once(<<>>)
BY DEF TagsOf, Once

LEMMA TagsAppend ==
  ASSUME NEW S, NEW s \in Seq(S), NEW p \in S
  PROVE /\ TagsOf(Append(s, p)) = TagsOf(s) \cup OwnTag(p)
        /\ Once(s) /\ TagsOf(s) \cap OwnTag(p) = {} => Once(Append(s, p))
<1>1. PICK t : t = Append(s, p)
  OBVIOUS
<1>2. PICK n \in Nat : n = Len(s)
  BY LenProperties
<1>3. Len(t) = n + 1 /\ t[n + 1] = p /\ \A i \in 1 .. n : t[i] = s[i]
  BY <1>1, <1>2, AppendProperties
<1>4. 1 .. (n + 1) = (1 .. n) \cup {n + 1}
  OBVIOUS
<1>5. TagsOf(t) = TagsOf(s) \cup OwnTag(p)
  <2>1. \A x : x \in TagsOf(t) <=> \E i \in 1 .. (n + 1) : x \in OwnTag(t[i])
    BY <1>3 DEF TagsOf
  <2>2. \A x : x \in TagsOf(s) <=> \E i \in 1 .. n : x \in OwnTag(s[i])
    BY <1>2 DEF TagsOf
  <2>3. \A x : x \in TagsOf(t) <=> x \in TagsOf(s) \/ x \in OwnTag(p)
    BY <1>3, <1>4, <2>1, <2>2
  <2> QED
    BY <2>3
<1>6. ASSUME Once(s), TagsOf(s) \cap OwnTag(p) = {} PROVE Once(t)
  <2>1. ASSUME NEW i \in 1 .. n PROVE OwnTag(t[i]) \cap OwnTag(t[n + 1]) = {}
    <3>1. OwnTag(s[i]) \subseteq TagsOf(s)
      BY <1>2 DEF TagsOf
    <3>2. OwnTag(t[i]) = OwnTag(s[i]) /\ OwnTag(t[n + 1]) = OwnTag(p)
      BY <1>3
    <3> QED
      BY <1>6, <3>1, <3>2
  <2>2. ASSUME NEW i \in 1 .. n, NEW j \in 1 .. n, OwnTag(t[i]) \cap OwnTag(t[j]) # {} PROVE i = j
    <3>1. OwnTag(t[i]) = OwnTag(s[i]) /\ OwnTag(t[j]) = OwnTag(s[j])
      BY <1>3
    <3> QED
      BY <1>2, <1>6, <2>2, <3>1 DEF Once
  <2>3. ASSUME NEW i \in 1 .. (n + 1), NEW j \in 1 .. (n + 1), OwnTag(t[i]) \cap OwnTag(t[j]) # {} PROVE i = j
    <3>1. CASE i \in 1 .. n /\ j \in 1 .. n
      BY <2>2, <2>3, <3>1
    <3>2. CASE i = n + 1 /\ j \in 1 .. n
      <4>1. OwnTag(t[j]) \cap OwnTag(t[n + 1]) = {}
        BY <2>1, <3>2
      <4> QED
        BY <2>3, <3>2, <4>1
    <3>3. CASE i \in 1 .. n /\ j = n + 1
      <4>1. OwnTag(t[i]) \cap OwnTag(t[n + 1]) = {}
        BY <2>1, <3>3
      <4> QED
        BY <2>3, <3>3, <4>1
    <3> QED
      BY <1>4, <3>1, <3>2, <3>3
  <2> QED
    BY <1>3, <2>3 DEF Once
<1> QED
  BY <1>1, <1>5, <1>6

LEMMA TagsTail ==
  ASSUME NEW S, NEW s \in Seq(S), s # <<>>
  PROVE /\ OwnTag(Head(s)) \subseteq TagsOf(s) /\ TagsOf(Tail(s)) \subseteq TagsOf(s)
        /\ Once(s) => TagsOf(Tail(s)) = TagsOf(s) \ OwnTag(Head(s)) /\ Once(Tail(s))
<1>1. PICK t : t = Tail(s)
  OBVIOUS
<1>2. PICK n \in Nat : Len(s) = n + 1
  <2>1. Len(s) \in Nat /\ Len(s) # 0
    BY LenProperties, EmptySeq
  <2>2. Len(s) = (Len(s) - 1) + 1 /\ Len(s) - 1 \in Nat
    BY <2>1
  <2> QED
    BY <2>2
<1>3. Len(t) = n /\ Head(s) = s[1] /\ \A i \in 1 .. n : t[i] = s[i + 1]
  BY <1>1, <1>2, HeadTailProperties
<1>4. \A i \in 1 .. (n + 1) : i = 1 \/ (i - 1 \in 1 .. n /\ i = (i - 1) + 1)
  OBVIOUS
<1>5. \A i \in 1 .. n : i + 1 \in 1 .. (n + 1) /\ i + 1 # 1
  OBVIOUS
<1>6. 1 \in 1 .. (n + 1)
  OBVIOUS
<1>7. \A x : x \in TagsOf(s) <=> \E i \in 1 .. (n + 1) : x \in OwnTag(s[i])
  BY <1>2 DEF TagsOf
<1>8. \A x : x \in TagsOf(t) <=> \E i \in 1 .. n : x \in OwnTag(s[i + 1])
  BY <1>3 DEF TagsOf
<1>9. OwnTag(Head(s)) \subseteq TagsOf(s) /\ TagsOf(t) \subseteq TagsOf(s)
  BY <1>3, <1>5, <1>6, <1>7, <1>8
<1>10. ASSUME Once(s) PROVE TagsOf(t) = TagsOf(s) \ OwnTag(Head(s)) /\ Once(t)
  <2>1. ASSUME NEW i \in 1 .. (n + 1), NEW j \in 1 .. (n + 1), NEW x, x \in OwnTag(s[i]), x \in OwnTag(s[j])
        PROVE i = j
    BY <1>2, <1>10, <2>1 DEF Once
  <2>2. ASSUME NEW x \in TagsOf(t) PROVE x \notin OwnTag(Head(s))
    <3>1. PICK i \in 1 .. n : x \in OwnTag(s[i + 1])
      BY <1>8, <2>2
    <3> QED
      BY <1>3, <1>5, <1>6, <2>1, <3>1
  <2>3. ASSUME NEW x \in TagsOf(s), x \notin OwnTag(Head(s)) PROVE x \in TagsOf(t)
    <3>1. PICK i \in 1 .. (n + 1) : x \in OwnTag(s[i])
      BY <1>7, <2>3
    <3>2. i - 1 \in 1 .. n /\ i = (i - 1) + 1
      BY <1>3, <1>4, <2>3, <3>1
    <3> QED
      BY <1>8, <3>1, <3>2
  <2>4. ASSUME NEW i \in 1 .. n, NEW j \in 1 .. n, OwnTag(t[i]) \cap OwnTag(t[j]) # {} PROVE i = j
    <3>1. PICK x : x \in OwnTag(s[i + 1]) /\ x \in OwnTag(s[j + 1])
      BY <1>3, <2>4
    <3>2. i + 1 = j + 1
      BY <1>5, <2>1, <3>1
    <3> QED
      BY <3>2
  <2>5. Once(t)
    BY <1>3, <2>4 DEF Once
  <2> QED
    BY <1>9, <2>2, <2>3, <2>5
<1> QED
  BY <1>1, <1>9, <1>10

\* Sideband packets have no transaction.
LEMMA NoTag ==
  /\ OwnTag(Notification) = {}
  /\ \A type : OwnTag(Sideband(type)) = {}
<1>1. \A type : Sideband(type).type = "SIDEBAND"
  BY DEF Sideband, Made
<1>2. \A type : OwnTag(Sideband(type)) = {}
  BY <1>1 DEF OwnTag, Tagged, Enters, Leaves, IsCfgType0, IsCfgType1, IsMemRead, IsCompletion, Fmt
<1> QED
  BY <1>2 DEF Notification

----------------------------------------------------------------------------
\* Parts of the state that a step leaves
LEMMA ConnSame ==
  ASSUME NEW k \in Conns, conn'[k] = conn[k]
  PROVE /\ Table(k)' = Table(k) /\ Out(k)' = Out(k) /\ Back(k)' = Back(k)
        /\ Once(conn[k].toClient)' <=> Once(conn[k].toClient)
        /\ Once(conn[k].toServer)' <=> Once(conn[k].toServer)
        /\ conn'[k].phase = conn[k].phase
BY DEF Table, Out, Back, Once, TagsOf

LEMMA ConnNow ==
  ASSUME NEW k \in Conns, NEW phase, NEW tlp, NEW toServer, NEW toClient,
         conn'[k].phase = phase, conn'[k].tlp = tlp, conn'[k].toServer = toServer, conn'[k].toClient = toClient
  PROVE /\ Table(k)' = tlp /\ Out(k)' = TagsOf(toClient)
        /\ Back(k)' = IF phase = "asked" THEN {} ELSE TagsOf(toServer)
        /\ Once(conn[k].toClient)' <=> Once(toClient)
        /\ Once(conn[k].toServer)' <=> Once(toServer)
BY DEF Table, Out, Back, Once, TagsOf

LEMMA ClientSame ==
  ASSUME NEW c \in Clients, client'[c] = client[c]
  PROVE /\ Theirs(c)' = Theirs(c) /\ client'[c].conn = client[c].conn
        /\ \A ch \in Channels : Held(c, ch)' = Held(c, ch) /\ (Once(client[c].fifo[ch])' <=> Once(client[c].fifo[ch]))
BY DEF Theirs, Held, Once, TagsOf

LEMMA ClientNow ==
  ASSUME NEW c \in Clients, NEW status, NEW its, NEW incoming, NEW tasks, NEW tlp, NEW queues,
         ClientBecomes(c, status, its, incoming, tasks, tlp, queues)
  PROVE /\ OneClient(c) /\ client'[c].conn = its /\ Theirs(c)' = tlp
        /\ \A ch \in Channels : Held(c, ch)' = TagsOf(queues[ch]) /\ (Once(client[c].fifo[ch])' <=> Once(queues[ch]))
BY DEF ClientBecomes, Theirs, Held, Once, TagsOf

LEMMA FifoNow ==
  ASSUME NEW ch \in Channels, NEW q, fifo'[ch] = q
  PROVE Queued(ch)' = TagsOf(q) /\ (Once(fifo[ch])' <=> Once(q))
BY DEF Queued, Once, TagsOf

----------------------------------------------------------------------------
(* The steps of the server.                                                *)

\* The queues of the port after a step that adds no transaction to them
QueuesShrink ==
  \A ch \in Channels : Once(fifo[ch])' /\ Queued(ch)' \subseteq Queued(ch)

\* A step of the server that changes one connection: what remains to be shown
LEMMA ServerPaired ==
  ASSUME Paired, NEW k \in Conns, OneConn(k), client' = client, "unpaired" \notin history', QueuesShrink,
         \A ch \in Channels : Queued(ch)' \subseteq waiting' /\ Queued(ch)' \cap Table(k)' = {},
         Once(conn[k].toClient)', Once(conn[k].toServer)',
         Out(k)' \subseteq Table(k)', Back(k)' \subseteq Table(k)', Out(k)' \cap Back(k)' = {},
         Table(k)' \subseteq waiting',
         \A j \in Conns : j # k => Table(j) \cap Table(k)' = {} /\ Table(j) \subseteq waiting',
         \A c \in Clients : client[c].conn = k => LinkTag(c, k)'
  PROVE Paired'
<1>1. \A j \in Conns : j # k => conn'[j] = conn[j]
  BY DEF OneConn
<1>2. \A j \in Conns : j # k => /\ Table(j)' = Table(j) /\ Out(j)' = Out(j) /\ Back(j)' = Back(j)
                                /\ Once(conn[j].toClient)' <=> Once(conn[j].toClient)
                                /\ Once(conn[j].toServer)' <=> Once(conn[j].toServer)
                                /\ conn'[j].phase = conn[j].phase
  BY <1>1, ConnSame
<1>3. ASSUME NEW ch \in Channels PROVE PortTag(ch)'
  <2>1. PortTag(ch)
    BY DEF Paired
  <2>2. ASSUME NEW j \in Conns PROVE Queued(ch)' \cap Table(j)' = {}
    <3>1. CASE j = k
      BY <3>1
    <3>2. CASE j # k
      BY <1>2, <2>1, <3>2 DEF PortTag, QueuesShrink
    <3> QED
      BY <3>1, <3>2
  <2>3. ASSUME NEW o \in Channels, o # ch PROVE Queued(ch)' \cap Queued(o)' = {}
    BY <2>1, <2>3 DEF PortTag, QueuesShrink
  <2> QED
    BY <2>2, <2>3 DEF PortTag, QueuesShrink
<1>4. ASSUME NEW j \in Conns PROVE ConnTag(j)'
  <2>1. CASE j = k
    <3>1. \A i \in Conns : i # k => Table(i)' \cap Table(k)' = {}
      BY <1>2
    <3> QED
      BY <2>1, <3>1 DEF ConnTag
  <2>2. CASE j # k
    <3>1. ConnTag(j)
      BY DEF Paired
    <3>2. ASSUME NEW i \in Conns, i # j PROVE Table(i)' \cap Table(j)' = {}
      <4>1. CASE i = k
        BY <1>2, <2>2, <4>1
      <4>2. CASE i # k
        BY <1>2, <2>2, <3>1, <3>2, <4>2 DEF ConnTag
      <4> QED
        BY <4>1, <4>2
    <3> QED
      BY <1>2, <2>2, <3>1, <3>2 DEF ConnTag
  <2> QED
    BY <2>1, <2>2
<1>5. ASSUME NEW c \in Clients, NEW ch \in Channels PROVE QueueTag(c, ch)'
  <2>1. QueueTag(c, ch) /\ client'[c] = client[c]
    BY DEF Paired
  <2> QED
    BY <2>1, ClientSame DEF QueueTag
<1>6. ASSUME NEW c \in Clients, NEW j \in Conns, client'[c].conn = j PROVE LinkTag(c, j)'
  <2>1. client[c].conn = j /\ Theirs(c)' = Theirs(c)
    BY <1>6 DEF Theirs
  <2>2. CASE j = k
    BY <2>1, <2>2
  <2>3. CASE j # k
    <3>1. LinkTag(c, j)
      BY <2>1 DEF Paired
    <3> QED
      BY <1>2, <2>1, <2>3, <3>1 DEF LinkTag
  <2> QED
    BY <2>2, <2>3
<1> QED
  BY <1>3, <1>4, <1>5, <1>6 DEF Paired

\* A step that leaves the queues of the port
LEMMA QueuesSame ==
  ASSUME Paired, fifo' = fifo
  PROVE QueuesShrink /\ \A ch \in Channels : Queued(ch)' = Queued(ch)
BY DEF Paired, PortTag, QueuesShrink, Queued, Once, TagsOf

\* ... and at most forgets transactions of a connection
LEMMA ServerQuiet ==
  ASSUME Paired, NEW k \in Conns, OneConn(k), client' = client, "unpaired" \notin history',
         fifo' = fifo, waiting' = waiting,
         Once(conn[k].toClient)', Once(conn[k].toServer)', Table(k)' = Table(k),
         Out(k)' \subseteq Out(k), Back(k)' \subseteq Back(k)
  PROVE Paired'
<1>1. QueuesShrink /\ \A ch \in Channels : Queued(ch)' = Queued(ch)
  BY QueuesSame
<1>2. \A ch \in Channels : Queued(ch)' \subseteq waiting' /\ Queued(ch)' \cap Table(k)' = {}
  BY <1>1 DEF Paired, PortTag
<1>3. ConnTag(k)
  BY DEF Paired
<1>4. /\ Out(k)' \subseteq Table(k)' /\ Back(k)' \subseteq Table(k)' /\ Out(k)' \cap Back(k)' = {}
      /\ Table(k)' \subseteq waiting'
  BY <1>3 DEF ConnTag
<1>5. \A j \in Conns : j # k => Table(j) \cap Table(k)' = {} /\ Table(j) \subseteq waiting'
  BY DEF Paired, ConnTag
<1>6. ASSUME NEW c \in Clients, client[c].conn = k PROVE LinkTag(c, k)'
  <2>1. LinkTag(c, k) /\ Theirs(c)' = Theirs(c)
    BY <1>6 DEF Paired, Theirs
  <2> QED
    BY <2>1 DEF LinkTag
<1> QED
  BY <1>1, <1>2, <1>4, <1>5, <1>6, ServerPaired

\* The rejection carries no transaction, and nothing is taken to the client.
LEMMA RejectPairs ==
  ASSUME FlowInv, Paired, NEW k \in Conns, Reject(k)
  PROVE Paired'
<1>1. ConnTypes /\ ConnRule(k) /\ conn[k].phase = "asked"
  BY ConnIs DEF Reject
<1>2. PICK out : out = Append(conn[k].toClient, Sideband(CONNECTION_REJECT))
  OBVIOUS
<1>3. ConnBecomes(k, "closed", conn[k].peer, TRUE, conn[k].incoming, conn[k].tasks, conn[k].tlp, <<>>, out)
  BY <1>1, <1>2, RejectEffect
<1>4. TagsOf(out) = {} /\ Once(out)
  <2>1. <<>> \in Seq(PacketSet) /\ Sideband(CONNECTION_REJECT) \in PacketSet
    BY PacketsAre
  <2>2. out = Append(<<>>, Sideband(CONNECTION_REJECT))
    BY <1>1, <1>2 DEF ConnRule
  <2>3. OwnTag(Sideband(CONNECTION_REJECT)) = {}
    BY NoTag
  <2> QED
    <3>1. PICK e : e = <<>>
      OBVIOUS
    <3>2. e \in Seq(PacketSet) /\ TagsOf(e) = {} /\ Once(e)
      BY <2>1, <3>1, TagsEmpty
    <3>3. PICK p \in PacketSet : p = Sideband(CONNECTION_REJECT)
      BY <2>1
    <3>4. out = Append(e, p) /\ OwnTag(p) = {}
      BY <2>2, <2>3, <3>1, <3>3
    <3>5. TagsOf(Append(e, p)) = TagsOf(e) \cup OwnTag(p) /\ Once(Append(e, p))
      BY <3>2, <3>4, TagsAppend
    <3> QED
      BY <3>2, <3>4, <3>5
<1>5. OneConn(k) /\ Table(k)' = Table(k) /\ Out(k)' = {} /\ Back(k)' = {}
      /\ Once(conn[k].toClient)' /\ Once(conn[k].toServer)'
  <2>1. /\ OneConn(k) /\ conn'[k].phase = "closed" /\ Table(k)' = conn[k].tlp /\ Out(k)' = TagsOf(out)
        /\ Back(k)' = IF "closed" = "asked" THEN {} ELSE TagsOf(<<>>)
        /\ (Once(conn[k].toClient)' <=> Once(out)) /\ (Once(conn[k].toServer)' <=> Once(<<>>))
    <3>1. /\ OneConn(k) /\ conn'[k].phase = "closed" /\ conn'[k].tlp = conn[k].tlp
          /\ conn'[k].toServer = <<>> /\ conn'[k].toClient = out
      BY <1>3 DEF ConnBecomes
    <3> QED
      BY <3>1, ConnNow
  <2>2. Table(k) = conn[k].tlp
    BY DEF Table
  <2> QED
    BY <1>4, <2>1, <2>2, TagsEmpty
<1>6. client' = client /\ fifo' = fifo /\ waiting' = waiting /\ "unpaired" \notin history'
  BY DEF Reject, Paired
<1> QED
  BY <1>5, <1>6, ServerQuiet

\* The confirmation carries no transaction; nothing has come back yet.
LEMMA AcceptPairs ==
  ASSUME FlowInv, Paired, NEW k \in Conns, Accept(k)
  PROVE Paired'
<1>1. ConnTypes /\ ConnRule(k) /\ conn[k].phase = "asked" /\ conn[k].toServer \in Seq(PacketSet)
  BY ConnIs DEF Accept
<1>2. conn[k].toClient = <<>> /\ Len(conn[k].toServer) <= 1 /\ conn[k].toServer # <<>>
  BY <1>1 DEF Accept, ConnRule
<1>3. client' = client /\ fifo' = fifo /\ waiting' = waiting /\ "unpaired" \notin history'
  BY DEF Accept, Paired
<1>4. CASE conn[k].peer = "reset"
  <2>1. ConnBecomes(k, "draining", conn[k].peer, conn[k].closed, conn[k].incoming, conn[k].tasks, conn[k].tlp,
                    <<>>, conn[k].toClient)
    BY <1>1, <1>4, DrainEffect
  <2>2. OneConn(k) /\ Table(k)' = Table(k) /\ Out(k)' = {} /\ Back(k)' = {}
        /\ Once(conn[k].toClient)' /\ Once(conn[k].toServer)'
    <3>1. /\ OneConn(k) /\ conn'[k].phase = "draining" /\ conn'[k].tlp = conn[k].tlp
          /\ conn'[k].toServer = <<>> /\ conn'[k].toClient = <<>>
      BY <1>2, <2>1 DEF ConnBecomes
    <3>2. /\ Table(k)' = conn[k].tlp /\ Out(k)' = TagsOf(<<>>)
          /\ Back(k)' = IF "draining" = "asked" THEN {} ELSE TagsOf(<<>>)
          /\ Once(conn[k].toClient)' <=> Once(<<>>)
          /\ Once(conn[k].toServer)' <=> Once(<<>>)
      BY <3>1, ConnNow
    <3>3. Table(k) = conn[k].tlp
      BY DEF Table
    <3> QED
      BY <3>1, <3>2, <3>3, TagsEmpty
  <2> QED
    BY <1>3, <2>2, ServerQuiet
<1>5. CASE conn[k].peer # "reset"
  <2>1. PICK s : s = conn[k].toServer
    OBVIOUS
  <2>2. PICK rest : rest = Tail(s)
    OBVIOUS
  <2>3. PICK out : out = Append(conn[k].toClient, Sideband(CONNECTION_ACCEPT))
    OBVIOUS
  <2>4. PICK all : all = FifosOf("DSP") \cap Channels
    OBVIOUS
  <2>5. ConnBecomes(k, "running", conn[k].peer, conn[k].closed, TRUE, all, conn[k].tlp, rest, out)
    BY <1>1, <1>5, <2>1, <2>2, <2>3, <2>4, AcceptEffect
  <2>6. rest = <<>>
    <3>1. s \in Seq(PacketSet) /\ s # <<>> /\ Len(s) <= 1
      BY <1>1, <1>2, <2>1
    <3>2. Len(s) \in Nat \ {0} /\ rest \in Seq(PacketSet) /\ Len(rest) = Len(s) - 1
      BY <2>2, <3>1, LenProperties, EmptySeq, HeadTailProperties
    <3>3. Len(rest) = 0
      BY <3>1, <3>2
    <3> QED
      BY <3>2, <3>3, EmptySeq
  <2>7. TagsOf(out) = {} /\ Once(out)
    <3>1. <<>> \in Seq(PacketSet) /\ Sideband(CONNECTION_ACCEPT) \in PacketSet
      BY PacketsAre
    <3>2. out = Append(<<>>, Sideband(CONNECTION_ACCEPT))
      BY <1>2, <2>3
    <3>3. OwnTag(Sideband(CONNECTION_ACCEPT)) = {}
      BY NoTag
    <3> QED
      <4>1. PICK e : e = <<>>
        OBVIOUS
      <4>2. e \in Seq(PacketSet) /\ TagsOf(e) = {} /\ Once(e)
        BY <3>1, <4>1, TagsEmpty
      <4>3. PICK p \in PacketSet : p = Sideband(CONNECTION_ACCEPT)
        BY <3>1
      <4>4. out = Append(e, p) /\ OwnTag(p) = {}
        BY <3>2, <3>3, <4>1, <4>3
      <4>5. TagsOf(Append(e, p)) = TagsOf(e) \cup OwnTag(p) /\ Once(Append(e, p))
        BY <4>2, <4>4, TagsAppend
      <4> QED
        BY <4>2, <4>4, <4>5
  <2>8. OneConn(k) /\ Table(k)' = Table(k) /\ Out(k)' = {} /\ Back(k)' = {}
        /\ Once(conn[k].toClient)' /\ Once(conn[k].toServer)'
    <3>1. /\ OneConn(k) /\ Table(k)' = conn[k].tlp /\ Out(k)' = TagsOf(out)
          /\ Back(k)' = IF "running" = "asked" THEN {} ELSE TagsOf(rest)
          /\ (Once(conn[k].toClient)' <=> Once(out)) /\ (Once(conn[k].toServer)' <=> Once(rest))
      <4>1. /\ OneConn(k) /\ conn'[k].phase = "running" /\ conn'[k].tlp = conn[k].tlp
            /\ conn'[k].toServer = rest /\ conn'[k].toClient = out
        BY <2>5 DEF ConnBecomes
      <4> QED
        BY <4>1, ConnNow
    <3>2. Table(k) = conn[k].tlp
      BY DEF Table
    <3> QED
      BY <2>6, <2>7, <3>1, <3>2, TagsEmpty
  <2> QED
    BY <1>3, <2>8, ServerQuiet
<1> QED
  BY <1>4, <1>5

\* The end of a handler leaves tables and queues.
LEMMA ClosePairs ==
  ASSUME FlowInv, Paired, NEW k \in Conns, DrainFails(k) \/ ServerEnds(k)
  PROVE Paired'
<1>1. ConnTypes /\ ConnTag(k) /\ conn[k].phase # "asked"
  BY ConnIs DEF DrainFails, ServerEnds, Paired
<1>2. ConnBecomes(k, "closed", conn[k].peer, TRUE, conn[k].incoming, conn[k].tasks, conn[k].tlp,
                  conn[k].toServer, conn[k].toClient)
  BY <1>1, CloseEffect
<1>3. OneConn(k) /\ Table(k)' = Table(k) /\ Out(k)' = Out(k) /\ Back(k)' = Back(k)
      /\ Once(conn[k].toClient)' /\ Once(conn[k].toServer)'
  <2>1. /\ OneConn(k) /\ Table(k)' = conn[k].tlp /\ Out(k)' = TagsOf(conn[k].toClient)
        /\ Back(k)' = IF "closed" = "asked" THEN {} ELSE TagsOf(conn[k].toServer)
        /\ Once(conn[k].toClient)' <=> Once(conn[k].toClient)
        /\ Once(conn[k].toServer)' <=> Once(conn[k].toServer)
    <3>1. /\ OneConn(k) /\ conn'[k].phase = "closed" /\ conn'[k].tlp = conn[k].tlp
          /\ conn'[k].toServer = conn[k].toServer /\ conn'[k].toClient = conn[k].toClient
      BY <1>2 DEF ConnBecomes
    <3> QED
      BY <3>1, ConnNow
  <2>2. Table(k) = conn[k].tlp /\ Out(k) = TagsOf(conn[k].toClient) /\ Back(k) = TagsOf(conn[k].toServer)
    BY <1>1 DEF Table, Out, Back
  <2>3. Once(conn[k].toClient) /\ Once(conn[k].toServer)
    BY <1>1 DEF ConnTag
  <2> QED
    BY <2>1, <2>2, <2>3
<1>4. client' = client /\ fifo' = fifo /\ waiting' = waiting /\ "unpaired" \notin history'
  BY DEF DrainFails, ServerEnds, Paired
<1> QED
  BY <1>3, <1>4, ServerQuiet

\* What a device packet does to the tables
LEMMA ServerTakePairs ==
  ASSUME FlowInv, Paired, NEW k \in Conns, ServerTake(k)
  PROVE Paired'
<1>1. /\ ConnTypes /\ ConnRule(k) /\ ConnTag(k) /\ conn[k].toServer \in Seq(PacketSet)
      /\ conn[k].phase # "asked" /\ conn[k].toServer # <<>>
  BY ConnIs DEF ServerTake, Paired, ConnRule
<1>2. PICK s : s = conn[k].toServer
  OBVIOUS
<1>3. PICK p : p = Head(s)
  OBVIOUS
<1>4. PICK rest : rest = Tail(s)
  OBVIOUS
<1>5. PICK g : g = OwnTag(p)
  OBVIOUS
<1>6. PICK table : table = TlpAfter(p, conn[k].tlp)
  OBVIOUS
<1>7. ConnBecomes(k, conn[k].phase, conn[k].peer, conn[k].closed, conn[k].incoming, conn[k].tasks, table,
                  rest, conn[k].toClient)
  BY <1>1, <1>2, <1>3, <1>4, <1>6, ServerTakeEffect
<1>8. p \in DevicePackets
  BY <1>1, <1>2, <1>3, OnlyTail DEF ConnRule
<1>9. table = Table(k) \ g
  BY <1>5, <1>6, <1>8, TableDevice DEF Table
<1>10. g \subseteq Back(k) /\ TagsOf(rest) = Back(k) \ g /\ Once(rest) /\ Once(conn[k].toClient)
  <2>1. Once(s) /\ Back(k) = TagsOf(s)
    BY <1>1, <1>2 DEF ConnTag, Back
  <2>2. s \in Seq(PacketSet) /\ s # <<>>
    BY <1>1, <1>2
  <2>3. OwnTag(Head(s)) \subseteq TagsOf(s) /\ TagsOf(Tail(s)) = TagsOf(s) \ OwnTag(Head(s)) /\ Once(Tail(s))
    BY <2>1, <2>2, TagsTail
  <2> QED
    BY <1>1, <1>3, <1>4, <1>5, <2>1, <2>3 DEF ConnTag
<1>11. OneConn(k) /\ Table(k)' = Table(k) \ g /\ Out(k)' = Out(k) /\ Back(k)' = Back(k) \ g
       /\ Once(conn[k].toClient)' /\ Once(conn[k].toServer)'
  <2>1. /\ OneConn(k) /\ conn'[k].phase = conn[k].phase /\ conn'[k].tlp = table
        /\ conn'[k].toServer = rest /\ conn'[k].toClient = conn[k].toClient
    BY <1>7 DEF ConnBecomes
  <2>2. /\ Table(k)' = table /\ Out(k)' = TagsOf(conn[k].toClient)
        /\ Back(k)' = IF conn[k].phase = "asked" THEN {} ELSE TagsOf(rest)
        /\ Once(conn[k].toClient)' <=> Once(conn[k].toClient)
        /\ Once(conn[k].toServer)' <=> Once(rest)
    BY <2>1, ConnNow
  <2>3. Out(k) = TagsOf(conn[k].toClient)
    BY DEF Out
  <2> QED
    BY <1>1, <1>9, <1>10, <2>1, <2>2, <2>3
<1>12. waiting' = waiting \ g
  <2>1. IsCompletion(p) => g = {p.heads[3].tag}
    BY <1>5, <1>8, DeviceFacts
  <2>2. ~IsCompletion(p) => g = {}
    BY <1>5, <1>8, DeviceFacts DEF OwnTag, Tagged, Leaves
  <2>3. waiting' = IF IsCompletion(p) THEN waiting \ {p.heads[3].tag} ELSE waiting
    BY <1>2, <1>3 DEF ServerTake
  <2> QED
    BY <2>1, <2>2, <2>3
<1>13. client' = client /\ fifo' = fifo /\ "unpaired" \notin history'
  BY DEF ServerTake, Paired
<1>14. QueuesShrink /\ \A ch \in Channels : Queued(ch)' = Queued(ch)
  BY <1>13, QueuesSame
<1>15. g \subseteq Table(k)
  BY <1>1, <1>10 DEF ConnTag
<1>16. \A ch \in Channels : Queued(ch)' \subseteq waiting' /\ Queued(ch)' \cap Table(k)' = {}
  <2>1. ASSUME NEW ch \in Channels PROVE Queued(ch) \subseteq waiting /\ Queued(ch) \cap Table(k) = {}
    BY DEF Paired, PortTag
  <2> QED
    BY <1>11, <1>12, <1>14, <1>15, <2>1
<1>17. /\ Out(k)' \subseteq Table(k)' /\ Back(k)' \subseteq Table(k)' /\ Out(k)' \cap Back(k)' = {}
       /\ Table(k)' \subseteq waiting'
  BY <1>1, <1>10, <1>11, <1>12 DEF ConnTag
<1>18. \A j \in Conns : j # k => Table(j) \cap Table(k)' = {} /\ Table(j) \subseteq waiting'
  <2>1. ASSUME NEW j \in Conns, j # k PROVE Table(j) \cap Table(k) = {} /\ Table(j) \subseteq waiting
    BY <2>1 DEF Paired, ConnTag
  <2> QED
    BY <1>11, <1>12, <1>15, <2>1
<1>19. ASSUME NEW c \in Clients, client[c].conn = k PROVE LinkTag(c, k)'
  <2>1. LinkTag(c, k) /\ Theirs(c)' = Theirs(c)
    BY <1>13, <1>19 DEF Paired, Theirs
  <2> QED
    BY <1>10, <1>11, <2>1 DEF LinkTag
<1> QED
  BY <1>11, <1>13, <1>14, <1>16, <1>17, <1>18, <1>19, ServerPaired

\* What the server's reader meets is in its table; what it drops stays there.
LEMMA ServerLosesPairs ==
  ASSUME FlowInv, Paired, NEW k \in Conns, ServerLosesReader(k)
  PROVE Paired'
<1>1. /\ ConnTypes /\ ConnRule(k) /\ ConnTag(k) /\ conn[k].toServer \in Seq(PacketSet)
      /\ conn[k].phase # "asked"
  BY ConnIs DEF ServerLosesReader, Paired, ConnRule
<1>2. ConnBecomes(k, conn[k].phase, conn[k].peer, conn[k].closed, FALSE, conn[k].tasks, conn[k].tlp,
                  <<>>, conn[k].toClient)
  BY <1>1, ServerLosesEffect
<1>3. OneConn(k) /\ Table(k)' = Table(k) /\ Out(k)' = Out(k) /\ Back(k)' = {}
      /\ Once(conn[k].toClient)' /\ Once(conn[k].toServer)'
  <2>1. /\ OneConn(k) /\ Table(k)' = conn[k].tlp /\ Out(k)' = TagsOf(conn[k].toClient)
        /\ Back(k)' = IF conn[k].phase = "asked" THEN {} ELSE TagsOf(<<>>)
        /\ Once(conn[k].toClient)' <=> Once(conn[k].toClient)
        /\ Once(conn[k].toServer)' <=> Once(<<>>)
    <3>1. /\ OneConn(k) /\ conn'[k].phase = conn[k].phase /\ conn'[k].tlp = conn[k].tlp
          /\ conn'[k].toServer = <<>> /\ conn'[k].toClient = conn[k].toClient
      BY <1>2 DEF ConnBecomes
    <3> QED
      BY <3>1, ConnNow
  <2>2. Table(k) = conn[k].tlp /\ Out(k) = TagsOf(conn[k].toClient)
    BY DEF Table, Out
  <2>3. Once(conn[k].toClient)
    BY <1>1 DEF ConnTag
  <2> QED
    BY <2>1, <2>2, <2>3, TagsEmpty
<1>4. conn[k].toServer # <<>> => ~Bad(Head(conn[k].toServer), conn[k].tlp)
  <2> SUFFICES ASSUME conn[k].toServer # <<>> PROVE ~Bad(Head(conn[k].toServer), conn[k].tlp)
    OBVIOUS
  <2>1. PICK s : s = conn[k].toServer
    OBVIOUS
  <2>2. PICK p : p = Head(s)
    OBVIOUS
  <2>3. p \in DevicePackets
    BY <1>1, <2>1, <2>2, OnlyTail DEF ConnRule
  <2>4. OwnTag(p) \subseteq conn[k].tlp
    <3>1. OwnTag(p) \subseteq TagsOf(s)
      BY <1>1, <2>1, <2>2, TagsTail
    <3>2. TagsOf(s) \subseteq conn[k].tlp
      BY <1>1, <2>1 DEF ConnTag, Back, Table
    <3> QED
      BY <3>1, <3>2
  <2>5. ~TlpFails(p, conn[k].tlp)
    BY <2>3, <2>4, TableDevice
  <2>6. Fine(p)
    BY <2>3, DeviceFacts
  <2> QED
    BY <2>1, <2>2, <2>5, <2>6 DEF Bad, Fine
<1>5. "unpaired" \notin history' /\ client' = client /\ waiting' = waiting
  BY <1>4 DEF ServerLosesReader, Paired
<1>6. ASSUME NEW ch \in Channels PROVE Once(fifo[ch])' /\ Queued(ch)' = Queued(ch)
  <2>1. PICK q : q = fifo[ch]
    OBVIOUS
  <2>2. q \in Seq(PacketSet) /\ Notification \in PacketSet /\ OwnTag(Notification) = {} /\ Once(q)
    BY <2>1, PortIs, PacketsAre, NoTag DEF Fifos, Paired, PortTag
  <2>3. TagsOf(Append(q, Notification)) = TagsOf(q) /\ Once(Append(q, Notification))
    BY <2>2, TagsAppend
  <2>4. fifo'[ch] = Append(q, Notification)
    BY <2>1, PortIs DEF ServerLosesReader, ServerNotifies, Notified, Fifos
  <2>5. Queued(ch)' = TagsOf(Append(q, Notification)) /\ (Once(fifo[ch])' <=> Once(Append(q, Notification)))
    BY <2>4, FifoNow
  <2> QED
    BY <2>1, <2>3, <2>5 DEF Queued
<1>7. QueuesShrink
  BY <1>6 DEF QueuesShrink
<1>8. \A ch \in Channels : Queued(ch)' \subseteq waiting' /\ Queued(ch)' \cap Table(k)' = {}
  BY <1>3, <1>5, <1>6 DEF Paired, PortTag
<1>9. \A j \in Conns : j # k => Table(j) \cap Table(k)' = {} /\ Table(j) \subseteq waiting'
  BY <1>3, <1>5 DEF Paired, ConnTag
<1>10. ASSUME NEW c \in Clients, client[c].conn = k PROVE LinkTag(c, k)'
  <2>1. LinkTag(c, k) /\ Theirs(c)' = Theirs(c)
    BY <1>5, <1>10 DEF Paired, Theirs
  <2> QED
    BY <1>3, <2>1 DEF LinkTag
<1>11. /\ Out(k)' \subseteq Table(k)' /\ Back(k)' \subseteq Table(k)' /\ Out(k)' \cap Back(k)' = {}
       /\ Table(k)' \subseteq waiting'
  BY <1>1, <1>3, <1>5 DEF ConnTag
<1> QED
  BY <1>3, <1>5, <1>7, <1>8, <1>9, <1>10, <1>11, ServerPaired

\* A step that leaves what a connection carries
LEMMA ConnStill ==
  ASSUME NEW k \in Conns, ConnTag(k), conn[k].phase # "asked", conn'[k].phase # "asked", conn'[k].tlp = conn[k].tlp,
         conn'[k].toServer = conn[k].toServer, conn'[k].toClient = conn[k].toClient
  PROVE /\ Table(k)' = Table(k) /\ Out(k)' = Out(k) /\ Back(k)' = Back(k)
        /\ Once(conn[k].toClient)' /\ Once(conn[k].toServer)'
<1>1. Once(conn[k].toClient) /\ Once(conn[k].toServer)
  BY DEF ConnTag
<1>2. Once(conn[k].toClient)' /\ Once(conn[k].toServer)'
  BY <1>1 DEF Once
<1>3. Table(k)' = Table(k) /\ Out(k)' = Out(k) /\ Back(k)' = Back(k)
  BY DEF Table, Out, Back, TagsOf
<1> QED
  BY <1>2, <1>3

\* The first packet of a queue of the port leaves it.
LEMMA QueueTaken ==
  ASSUME FlowInv, Paired, NEW ch \in Channels, fifo[ch] # <<>>, fifo' = [fifo EXCEPT ![ch] = Tail(fifo[ch])],
         NEW g, g = OwnTag(Head(fifo[ch]))
  PROVE /\ QueuesShrink /\ g \subseteq Queued(ch) /\ Queued(ch)' = Queued(ch) \ g
        /\ \A o \in Channels : o # ch => Queued(o)' = Queued(o)
<1>1. PICK q : q = fifo[ch]
  OBVIOUS
<1>2. q \in Seq(PacketSet) /\ q # <<>> /\ Once(q)
  BY <1>1, PortIs DEF Fifos, Paired, PortTag
<1>3. g \subseteq TagsOf(q) /\ TagsOf(Tail(q)) = TagsOf(q) \ g /\ Once(Tail(q))
  <2>1. /\ OwnTag(Head(q)) \subseteq TagsOf(q) /\ TagsOf(Tail(q)) = TagsOf(q) \ OwnTag(Head(q))
        /\ Once(Tail(q))
    BY <1>2, TagsTail
  <2> QED
    BY <1>1, <2>1
<1>4. fifo'[ch] = Tail(q) /\ \A o \in Channels : o # ch => fifo'[o] = fifo[o]
  BY <1>1, PortIs DEF Fifos
<1>5. Queued(ch)' = TagsOf(Tail(q)) /\ (Once(fifo[ch])' <=> Once(Tail(q))) /\ Queued(ch) = TagsOf(q)
  <2>1. PICK t : t = Tail(q)
    OBVIOUS
  <2>2. fifo'[ch] = t
    BY <1>4, <2>1
  <2>3. Queued(ch)' = TagsOf(t) /\ (Once(fifo[ch])' <=> Once(t))
    BY <2>2, FifoNow
  <2> QED
    BY <1>1, <2>1, <2>3 DEF Queued
<1>6. ASSUME NEW o \in Channels, o # ch PROVE Queued(o)' = Queued(o) /\ Once(fifo[o])'
  <2>1. fifo'[o] = fifo[o] /\ Once(fifo[o])
    BY <1>4, <1>6 DEF Paired, PortTag
  <2> QED
    BY <2>1 DEF Queued, Once, TagsOf
<1> QED
  BY <1>3, <1>5, <1>6 DEF QueuesShrink

\* The transaction of a request moves from the FIFO into the table, and is on
\* its way unless the client is gone.
LEMMA ServerSendPairs ==
  ASSUME FlowInv, Paired, NEW k \in Conns, NEW ch \in Channels, ServerSend(k, ch)
  PROVE Paired'
<1>1. /\ ConnTypes /\ ConnRule(k) /\ ConnTag(k) /\ PortTag(ch) /\ conn[k].phase # "asked"
      /\ conn[k].toClient \in Seq(PacketSet)
  BY ConnIs DEF ServerSend, Paired, ConnRule
<1>2. PICK p : p = Head(fifo[ch])
  OBVIOUS
<1>3. PICK g : g = OwnTag(p)
  OBVIOUS
<1>4. /\ fifo[ch] # <<>> /\ fifo' = [fifo EXCEPT ![ch] = Tail(fifo[ch])]
      /\ client' = client /\ waiting' = waiting /\ "unpaired" \notin history'
  BY DEF ServerSend, Paired
<1>5. /\ QueuesShrink /\ g \subseteq Queued(ch) /\ Queued(ch)' = Queued(ch) \ g
      /\ \A o \in Channels : o # ch => Queued(o)' = Queued(o)
  BY <1>2, <1>3, <1>4, QueueTaken
<1>6. p \in HostPackets \cup {Notification}
  BY <1>2, <1>4, FifoTaken
<1>7. \A o \in Channels : Queued(o)' \subseteq waiting'
  BY <1>4, <1>5 DEF Paired, PortTag, QueuesShrink
<1>8. \A o \in Channels : Queued(o) \cap Table(k) = {}
  BY DEF Paired, PortTag
<1>9. \A j \in Conns : j # k =>
        Table(j) \cap Table(k) = {} /\ Table(j) \subseteq waiting /\ Queued(ch) \cap Table(j) = {}
  BY <1>1 DEF Paired, PortTag, ConnTag
<1>10. CASE p = Notification
  <2>1. ConnBecomes(k, conn[k].phase, conn[k].peer, conn[k].closed, conn[k].incoming, conn[k].tasks \ {ch},
                    conn[k].tlp, conn[k].toServer, conn[k].toClient)
    BY <1>1, <1>2, <1>10, TaskEndsEffect
  <2>2. /\ OneConn(k) /\ conn'[k].phase = conn[k].phase /\ conn'[k].tlp = conn[k].tlp
        /\ conn'[k].toServer = conn[k].toServer /\ conn'[k].toClient = conn[k].toClient
    BY <2>1 DEF ConnBecomes
  <2>3. /\ Table(k)' = Table(k) /\ Out(k)' = Out(k) /\ Back(k)' = Back(k)
        /\ Once(conn[k].toClient)' /\ Once(conn[k].toServer)'
    BY <1>1, <2>2, ConnStill
  <2>4. \A o \in Channels : Queued(o)' \cap Table(k)' = {}
    BY <1>5, <1>8, <2>3 DEF QueuesShrink
  <2>5. /\ Out(k)' \subseteq Table(k)' /\ Back(k)' \subseteq Table(k)' /\ Out(k)' \cap Back(k)' = {}
        /\ Table(k)' \subseteq waiting'
    BY <1>1, <1>4, <2>3 DEF ConnTag
  <2>6. \A j \in Conns : j # k => Table(j) \cap Table(k)' = {} /\ Table(j) \subseteq waiting'
    BY <1>4, <1>9, <2>3
  <2>7. ASSUME NEW c \in Clients, client[c].conn = k PROVE LinkTag(c, k)'
    <3>1. LinkTag(c, k) /\ Theirs(c)' = Theirs(c)
      BY <1>4, <2>7 DEF Paired, Theirs
    <3> QED
      BY <2>3, <3>1 DEF LinkTag
  <2> QED
    BY <1>4, <1>5, <1>7, <2>2, <2>3, <2>4, <2>5, <2>6, <2>7, ServerPaired
<1>11. CASE p # Notification
  <2>1. PICK table : table = TlpAfter(p, conn[k].tlp)
    OBVIOUS
  <2>2. PICK peer : peer = IF conn[k].peer = "eof" THEN "reset" ELSE conn[k].peer
    OBVIOUS
  <2>3. PICK out : out = IF conn[k].peer = "open" THEN Append(conn[k].toClient, p) ELSE conn[k].toClient
    OBVIOUS
  <2>4. ConnBecomes(k, conn[k].phase, peer, conn[k].closed, conn[k].incoming, conn[k].tasks, table,
                    conn[k].toServer, out)
    BY <1>1, <1>2, <1>11, <2>1, <2>2, <2>3, ServerSendEffect
  <2>5. p \in HostPackets
    BY <1>6, <1>11
  <2>6. table = Table(k) \cup g /\ g \cap Table(k) = {}
    <3>1. table = Table(k) \cup g
      BY <1>3, <2>1, <2>5, TableHost DEF Table
    <3> QED
      BY <1>5, <1>8, <3>1
  <2>7. TagsOf(out) \subseteq Out(k) \cup g /\ Once(out)
    <3>1. PICK s : s = conn[k].toClient
      OBVIOUS
    <3>2. s \in Seq(PacketSet) /\ p \in PacketSet /\ Once(s) /\ TagsOf(s) = Out(k)
      BY <1>1, <2>5, <3>1, PacketsAre DEF ConnTag, Out
    <3>3. TagsOf(s) \cap OwnTag(p) = {}
      BY <1>1, <1>3, <2>6, <3>2 DEF ConnTag
    <3>4. TagsOf(Append(s, p)) = TagsOf(s) \cup OwnTag(p) /\ Once(Append(s, p))
      BY <3>2, <3>3, TagsAppend
    <3>5. out = Append(s, p) \/ out = s
      BY <2>3, <3>1
    <3> QED
      BY <1>3, <3>2, <3>4, <3>5
  <2>8. /\ OneConn(k) /\ conn'[k].phase = conn[k].phase /\ conn'[k].tlp = table
        /\ conn'[k].toServer = conn[k].toServer /\ conn'[k].toClient = out
    BY <2>4 DEF ConnBecomes
  <2>9. /\ Table(k)' = Table(k) \cup g /\ Out(k)' \subseteq Out(k) \cup g /\ Back(k)' = Back(k)
        /\ Once(conn[k].toClient)' /\ Once(conn[k].toServer)'
    <3>1. /\ Table(k)' = table /\ Out(k)' = TagsOf(out)
          /\ Back(k)' = IF conn[k].phase = "asked" THEN {} ELSE TagsOf(conn[k].toServer)
          /\ Once(conn[k].toClient)' <=> Once(out)
          /\ Once(conn[k].toServer)' <=> Once(conn[k].toServer)
      BY <2>8, ConnNow
    <3>2. Back(k) = TagsOf(conn[k].toServer) /\ Once(conn[k].toServer)
      BY <1>1 DEF Back, ConnTag
    <3> QED
      BY <1>1, <2>6, <2>7, <3>1, <3>2
  <2>10. ASSUME NEW o \in Channels PROVE Queued(o)' \cap Table(k)' = {}
    <3>1. CASE o = ch
      BY <1>5, <1>8, <2>9, <3>1
    <3>2. CASE o # ch
      <4>1. Queued(o)' = Queued(o) /\ Queued(ch) \cap Queued(o) = {} /\ Queued(o) \cap Table(k) = {}
        BY <1>1, <1>5, <1>8, <3>2 DEF PortTag
      <4> QED
        BY <1>5, <2>9, <4>1
    <3> QED
      BY <3>1, <3>2
  <2>11. /\ Out(k)' \subseteq Table(k)' /\ Back(k)' \subseteq Table(k)' /\ Out(k)' \cap Back(k)' = {}
         /\ Table(k)' \subseteq waiting'
    <3>1. /\ Out(k) \subseteq Table(k) /\ Back(k) \subseteq Table(k) /\ Out(k) \cap Back(k) = {}
          /\ Table(k) \subseteq waiting /\ Queued(ch) \subseteq waiting
      BY <1>1 DEF ConnTag, PortTag
    <3> QED
      BY <1>4, <1>5, <2>6, <2>9, <3>1
  <2>12. \A j \in Conns : j # k => Table(j) \cap Table(k)' = {} /\ Table(j) \subseteq waiting'
    BY <1>4, <1>5, <1>9, <2>9
  <2>13. ASSUME NEW c \in Clients, client[c].conn = k PROVE LinkTag(c, k)'
    <3>1. LinkTag(c, k) /\ Theirs(c)' = Theirs(c)
      BY <1>4, <2>13 DEF Paired, Theirs
    <3> QED
      BY <2>6, <2>9, <3>1 DEF LinkTag
  <2> QED
    BY <1>4, <1>5, <1>7, <2>8, <2>9, <2>10, <2>11, <2>12, <2>13, ServerPaired
<1> QED
  BY <1>10, <1>11

\* A task of the server never fails for a transaction it finds in the table.
LEMMA TaskFailsPairs ==
  ASSUME FlowInv, Paired, NEW k \in Conns, NEW ch \in Channels, ServerTaskFails(k, ch)
  PROVE Paired'
<1>1. /\ ConnTypes /\ ConnRule(k) /\ ConnTag(k) /\ PortTag(ch) /\ conn[k].phase # "asked"
  BY ConnIs DEF ServerTaskFails, Paired, ConnRule
<1>2. PICK p : p = Head(fifo[ch])
  OBVIOUS
<1>3. PICK g : g = OwnTag(p)
  OBVIOUS
<1>4. /\ fifo[ch] # <<>> /\ fifo' = [fifo EXCEPT ![ch] = Tail(fifo[ch])]
      /\ client' = client /\ waiting' = waiting /\ p # Notification
  BY <1>2 DEF ServerTaskFails
<1>5. /\ QueuesShrink /\ g \subseteq Queued(ch) /\ Queued(ch)' = Queued(ch) \ g
      /\ \A o \in Channels : o # ch => Queued(o)' = Queued(o)
  BY <1>2, <1>3, <1>4, QueueTaken
<1>6. ~TlpFails(p, conn[k].tlp)
  <2>1. p \in HostPackets
    BY <1>2, <1>4, FifoTaken
  <2>2. g \cap conn[k].tlp = {}
    BY <1>1, <1>5 DEF PortTag, Table
  <2> QED
    BY <1>3, <2>1, <2>2, TableHost
<1>7. "unpaired" \notin history'
  BY <1>2, <1>6 DEF ServerTaskFails, Paired
<1> DEFINE phase == IF conn[k].phase = "running" THEN "closed" ELSE conn[k].phase
           closed == conn[k].closed \/ conn[k].phase = "running"
           left == conn[k].tasks \ {ch}
<1>8. ConnBecomes(k, phase, conn[k].peer, closed, conn[k].incoming, left, conn[k].tlp,
                  conn[k].toServer, conn[k].toClient)
  BY <1>1, TaskFailsEffect
<1>9. /\ OneConn(k) /\ conn'[k].phase # "asked" /\ conn'[k].tlp = conn[k].tlp
      /\ conn'[k].toServer = conn[k].toServer /\ conn'[k].toClient = conn[k].toClient
  BY <1>1, <1>8 DEF ConnBecomes
<1>10. /\ Table(k)' = Table(k) /\ Out(k)' = Out(k) /\ Back(k)' = Back(k)
       /\ Once(conn[k].toClient)' /\ Once(conn[k].toServer)'
  BY <1>1, <1>9, ConnStill
<1>11. \A o \in Channels : Queued(o)' \subseteq waiting' /\ Queued(o)' \cap Table(k)' = {}
  BY <1>4, <1>5, <1>10 DEF Paired, PortTag, QueuesShrink
<1>12. /\ Out(k)' \subseteq Table(k)' /\ Back(k)' \subseteq Table(k)' /\ Out(k)' \cap Back(k)' = {}
       /\ Table(k)' \subseteq waiting'
  BY <1>1, <1>4, <1>10 DEF ConnTag
<1>13. \A j \in Conns : j # k => Table(j) \cap Table(k)' = {} /\ Table(j) \subseteq waiting'
  BY <1>4, <1>10 DEF Paired, ConnTag
<1>14. ASSUME NEW c \in Clients, client[c].conn = k PROVE LinkTag(c, k)'
  <2>1. LinkTag(c, k) /\ Theirs(c)' = Theirs(c)
    BY <1>4, <1>14 DEF Paired, Theirs
  <2> QED
    BY <1>10, <2>1 DEF LinkTag
<1> QED
  BY <1>4, <1>5, <1>7, <1>9, <1>10, <1>11, <1>12, <1>13, <1>14, ServerPaired

\* A request enters with a tag that nobody waits for.
LEMMA HostSendPairs ==
  ASSUME FlowInv, Paired, NEW kind \in Kinds, HostSend(kind), "reused" \notin history'
  PROVE Paired'
<1>1. PICK t \in 0 .. Tags - 1 : t = tag[Counter(kind)]
  BY DEF Counter, FlowInv, Types, PortTypes
<1>2. PICK p : p = Request(kind, t)
  OBVIOUS
<1>3. p \in HostPackets /\ OwnTag(p) = IF Enters(p) THEN {t} ELSE {}
  <2>1. p \in HostPackets
    BY <1>1, <1>2 DEF HostPackets
  <2>2. OwnTag(p) = IF Enters(p) THEN {t} ELSE {}
    BY <1>1, <1>2, RequestFacts
  <2> QED
    BY <2>1, <2>2
<1>4. PICK ch : ch = ChannelOf(p)
  OBVIOUS
<1>5. PICK g : g = OwnTag(p)
  OBVIOUS
<1>6. /\ fifo' = [fifo EXCEPT ![ch] = Append(fifo[ch], p)] /\ conn' = conn /\ client' = client
      /\ waiting' = waiting \cup g /\ g \cap waiting = {} /\ "unpaired" \notin history'
  BY <1>1, <1>2, <1>3, <1>4, <1>5 DEF HostSend, Paired
<1>7. \A k \in Conns : conn'[k] = conn[k]
  BY <1>6
<1>8. \A k \in Conns : /\ Table(k)' = Table(k) /\ Out(k)' = Out(k) /\ Back(k)' = Back(k)
                       /\ Once(conn[k].toClient)' <=> Once(conn[k].toClient)
                       /\ Once(conn[k].toServer)' <=> Once(conn[k].toServer)
                       /\ conn'[k].phase = conn[k].phase
  BY <1>7, ConnSame
<1>9. ASSUME NEW k \in Conns PROVE ConnTag(k)'
  <2>1. ConnTag(k)
    BY DEF Paired
  <2> QED
    BY <1>6, <1>8, <2>1 DEF ConnTag
<1>10. ASSUME NEW o \in Channels
       PROVE Once(fifo[o])' /\ (o = ch => Queued(o)' = Queued(o) \cup g) /\ (o # ch => Queued(o)' = Queued(o))
  <2>1. PICK q : q = fifo[o]
    OBVIOUS
  <2>2. q \in Seq(PacketSet) /\ p \in PacketSet /\ Once(q) /\ TagsOf(q) = Queued(o) /\ Queued(o) \subseteq waiting
    BY <1>3, <2>1, PortIs, PacketsAre DEF Fifos, Paired, PortTag, Queued
  <2>3. CASE o = ch
    <3>1. PICK r : r = Append(q, p)
      OBVIOUS
    <3>2. fifo'[o] = r
      BY <1>6, <2>1, <2>3, <3>1, PortIs DEF Fifos
    <3>3. TagsOf(q) \cap OwnTag(p) = {}
      BY <1>5, <1>6, <2>2
    <3>4. TagsOf(r) = TagsOf(q) \cup g /\ Once(r)
      BY <1>5, <2>2, <3>1, <3>3, TagsAppend
    <3>5. Queued(o)' = TagsOf(r) /\ (Once(fifo[o])' <=> Once(r))
      BY <3>2, FifoNow
    <3> QED
      BY <2>2, <2>3, <3>4, <3>5
  <2>4. CASE o # ch
    <3>1. fifo'[o] = q
      BY <1>6, <2>1, <2>4, PortIs DEF Fifos
    <3>2. Queued(o)' = TagsOf(q) /\ (Once(fifo[o])' <=> Once(q))
      BY <3>1, FifoNow
    <3> QED
      BY <2>2, <2>4, <3>2
  <2> QED
    BY <2>3, <2>4
<1>11. ASSUME NEW o \in Channels PROVE PortTag(o)'
  <2>0. \A i \in Channels : Queued(i) \subseteq waiting
    BY DEF Paired, PortTag
  <2>1. \A k \in Conns : Queued(o) \cap Table(k) = {} /\ Table(k) \subseteq waiting
    BY DEF Paired, PortTag, ConnTag
  <2>2. \A k \in Conns : Queued(o)' \cap Table(k)' = {}
    BY <1>6, <1>8, <1>10, <2>1
  <2>3. ASSUME NEW i \in Channels, i # o PROVE Queued(o)' \cap Queued(i)' = {}
    <3>1. Queued(o) \cap Queued(i) = {} /\ Queued(o) \subseteq waiting /\ Queued(i) \subseteq waiting
      BY <2>0, <2>3 DEF Paired, PortTag
    <3>2. (o = ch => i # ch) /\ (i = ch => o # ch)
      BY <2>3
    <3> QED
      BY <1>6, <1>10, <3>1, <3>2
  <2>4. Queued(o)' \subseteq waiting'
    BY <1>6, <1>10, <2>0
  <2> QED
    BY <1>10, <2>2, <2>3, <2>4 DEF PortTag
<1>12. ASSUME NEW c \in Clients PROVE \A o \in Channels : QueueTag(c, o)'
  <2>1. client'[c] = client[c] /\ \A o \in Channels : QueueTag(c, o)
    BY <1>6 DEF Paired
  <2> QED
    BY <2>1, ClientSame DEF QueueTag
<1>13. ASSUME NEW c \in Clients, NEW k \in Conns, client'[c].conn = k PROVE LinkTag(c, k)'
  <2>1. LinkTag(c, k) /\ Theirs(c)' = Theirs(c)
    BY <1>6, <1>13 DEF Paired, Theirs
  <2> QED
    BY <1>8, <2>1 DEF LinkTag
<1> QED
  BY <1>6, <1>9, <1>11, <1>12, <1>13 DEF Paired

----------------------------------------------------------------------------
(* The steps of a client.                                                  *)

\* A step that changes one connection, and adds nothing to its table
LEMMA ConnsPaired ==
  ASSUME Paired, NEW k \in Conns, OneConn(k), waiting' = waiting, Table(k)' \subseteq Table(k),
         Once(conn[k].toClient)', conn'[k].phase # "asked" => Once(conn[k].toServer)',
         Out(k)' \subseteq Table(k)', Back(k)' \subseteq Table(k)', Out(k)' \cap Back(k)' = {}
  PROVE (\A j \in Conns : ConnTag(j)') /\ (\A j \in Conns : Table(j)' \subseteq Table(j))
<1>1. \A j \in Conns : j # k => conn'[j] = conn[j]
  BY DEF OneConn
<1>2. \A j \in Conns : j # k => /\ Table(j)' = Table(j) /\ Out(j)' = Out(j) /\ Back(j)' = Back(j)
                                /\ Once(conn[j].toClient)' <=> Once(conn[j].toClient)
                                /\ Once(conn[j].toServer)' <=> Once(conn[j].toServer)
                                /\ conn'[j].phase = conn[j].phase
  BY <1>1, ConnSame
<1>3. \A j \in Conns : Table(j)' \subseteq Table(j)
  BY <1>2
<1>4. ASSUME NEW j \in Conns PROVE ConnTag(j)'
  <2>1. ConnTag(j)
    BY DEF Paired
  <2>2. \A i \in Conns : i # j => Table(i)' \cap Table(j)' = {}
    BY <1>3, <2>1 DEF ConnTag
  <2>3. Table(j)' \subseteq waiting'
    BY <1>3, <2>1 DEF ConnTag
  <2>4. CASE j = k
    BY <2>2, <2>3, <2>4 DEF ConnTag
  <2>5. CASE j # k
    BY <1>2, <2>1, <2>2, <2>3, <2>5 DEF ConnTag
  <2> QED
    BY <2>4, <2>5
<1> QED
  BY <1>3, <1>4

\* A step that changes no connection
LEMMA ConnsUnmoved ==
  ASSUME Paired, conn' = conn, waiting' = waiting
  PROVE /\ (\A j \in Conns : ConnTag(j)') /\ (\A j \in Conns : conn'[j] = conn[j])
        /\ (\A j \in Conns : Table(j)' = Table(j) /\ Out(j)' = Out(j) /\ Back(j)' = Back(j))
<1>1. \A j \in Conns : conn'[j] = conn[j]
  OBVIOUS
<1>2. \A j \in Conns : /\ Table(j)' = Table(j) /\ Out(j)' = Out(j) /\ Back(j)' = Back(j)
                       /\ Once(conn[j].toClient)' <=> Once(conn[j].toClient)
                       /\ Once(conn[j].toServer)' <=> Once(conn[j].toServer)
                       /\ conn'[j].phase = conn[j].phase
  BY <1>1, ConnSame
<1>3. ASSUME NEW j \in Conns PROVE ConnTag(j)'
  <2>1. ConnTag(j)
    BY DEF Paired
  <2> QED
    BY <1>2, <2>1 DEF ConnTag
<1> QED
  BY <1>1, <1>2, <1>3

\* A step of one client: what remains to be shown of it and its connection
LEMMA ClientPaired ==
  ASSUME FlowInv, Paired, NEW c \in Clients, OneClient(c), fifo' = fifo, waiting' = waiting,
         "unpaired" \notin history',
         \A j \in Conns : client[c].conn # j => conn'[j] = conn[j] \/ conn[j].phase = "none",
         \A j \in Conns : ConnTag(j)', \A j \in Conns : Table(j)' \subseteq Table(j),
         \A ch \in Channels : QueueTag(c, ch)',
         \A k \in Conns : client'[c].conn = k => LinkTag(c, k)'
  PROVE Paired'
<1>1. \A ch \in Channels : Queued(ch)' = Queued(ch) /\ Once(fifo[ch])'
  BY QueuesSame DEF QueuesShrink
<1>2. ASSUME NEW ch \in Channels PROVE PortTag(ch)'
  <2>1. PortTag(ch)
    BY DEF Paired
  <2>2. \A j \in Conns : Queued(ch)' \cap Table(j)' = {}
    BY <1>1, <2>1 DEF PortTag
  <2> QED
    BY <1>1, <2>1, <2>2 DEF PortTag
<1>3. ASSUME NEW d \in Clients PROVE \A ch \in Channels : QueueTag(d, ch)'
  <2>1. CASE d = c
    BY <2>1
  <2>2. CASE d # c
    <3>1. client'[d] = client[d] /\ \A ch \in Channels : QueueTag(d, ch)
      BY <2>2 DEF OneClient, Paired
    <3> QED
      BY <3>1, ClientSame DEF QueueTag
  <2> QED
    BY <2>1, <2>2
<1>4. ASSUME NEW d \in Clients, NEW j \in Conns, client'[d].conn = j PROVE LinkTag(d, j)'
  <2>1. CASE d = c
    BY <1>4, <2>1
  <2>2. CASE d # c
    <3>1. client'[d] = client[d]
      BY <2>2 DEF OneClient
    <3>2. client[d].conn = j /\ Theirs(d)' = Theirs(d)
      BY <1>4, <3>1 DEF Theirs
    <3>3. LinkTag(d, j) /\ ClientRule(d) /\ Alone
      BY <3>2 DEF Paired, FlowInv, Rules
    <3>4. client[c].conn # j
      BY <2>2, <3>2, <3>3, ConnectionAssumption DEF Alone
    <3>5. conn'[j] = conn[j]
      BY <3>2, <3>3, <3>4 DEF ClientRule
    <3>6. Table(j)' = Table(j) /\ Out(j)' = Out(j) /\ Back(j)' = Back(j)
      BY <3>5, ConnSame
    <3> QED
      BY <3>2, <3>3, <3>6 DEF LinkTag
  <2> QED
    BY <2>1, <2>2
<1> QED
  BY <1>2, <1>3, <1>4 DEF Paired

\* A client with nothing in its table and its queues
LEMMA NothingHeld ==
  ASSUME NEW c \in Clients, client'[c].tlp = {}, \A ch \in Channels : client'[c].fifo[ch] = <<>>
  PROVE (\A ch \in Channels : QueueTag(c, ch)') /\ (\A k \in Conns : LinkTag(c, k)')
<1>1. Theirs(c)' = {}
  BY DEF Theirs
<1>2. ASSUME NEW ch \in Channels PROVE Held(c, ch)' = {} /\ Once(client[c].fifo[ch])'
  BY DEF Held, Once, TagsOf
<1> QED
  BY <1>1, <1>2 DEF QueueTag, LinkTag

\* A client that keeps its table and its queues
LEMMA AllHeld ==
  ASSUME Paired, NEW c \in Clients, client'[c].tlp = client[c].tlp, client'[c].fifo = client[c].fifo
  PROVE (\A ch \in Channels : QueueTag(c, ch)') /\ Theirs(c)' = Theirs(c)
<1>1. Theirs(c)' = Theirs(c)
  BY DEF Theirs
<1>2. ASSUME NEW ch \in Channels
      PROVE Held(c, ch)' = Held(c, ch) /\ (Once(client[c].fifo[ch])' <=> Once(client[c].fifo[ch]))
  BY DEF Held, Once, TagsOf
<1>3. ASSUME NEW ch \in Channels PROVE QueueTag(c, ch)'
  <2>1. QueueTag(c, ch)
    BY DEF Paired
  <2> QED
    BY <1>1, <1>2, <2>1 DEF QueueTag
<1> QED
  BY <1>1, <1>3

\* A program that starts holds nothing.
LEMMA StartPairs ==
  ASSUME FlowInv, Paired, NEW c \in Clients, ClientStart(c)
  PROVE Paired'
<1>1. ClientTypes
  BY ClientIs
<1>2. PICK q : q = [ch \in Channels |-> <<>>]
  OBVIOUS
<1>3. ClientBecomes(c, "STARTING", None, FALSE, {}, {}, q)
  BY <1>1, <1>2, ClientStartEffect
<1>4. OneClient(c) /\ client'[c].tlp = {} /\ \A ch \in Channels : client'[c].fifo[ch] = <<>>
  BY <1>2, <1>3 DEF ClientBecomes
<1>5. conn' = conn /\ fifo' = fifo /\ waiting' = waiting /\ "unpaired" \notin history'
  BY DEF ClientStart, Paired
<1>6. /\ (\A j \in Conns : ConnTag(j)') /\ (\A j \in Conns : conn'[j] = conn[j])
      /\ (\A j \in Conns : Table(j)' \subseteq Table(j))
  BY <1>5, ConnsUnmoved
<1> QED
  BY <1>4, <1>5, <1>6, NothingHeld, ClientPaired

\* A client that stops keeps its table.
LEMMA StoppedPairs ==
  ASSUME FlowInv, Paired, NEW c \in Clients, ClientTimesOut(c) \/ ClientEnds(c)
  PROVE Paired'
<1>1. ClientTypes
  BY ClientIs
<1>2. ClientBecomes(c, "STOPPED", client[c].conn, client[c].incoming, client[c].tasks, client[c].tlp, client[c].fifo)
  BY <1>1, StoppedEffect
<1>3. /\ OneClient(c) /\ client'[c].conn = client[c].conn /\ client'[c].tlp = client[c].tlp
      /\ client'[c].fifo = client[c].fifo
  BY <1>2 DEF ClientBecomes
<1>4. conn' = conn /\ fifo' = fifo /\ waiting' = waiting /\ "unpaired" \notin history'
  BY DEF ClientTimesOut, ClientEnds, Paired
<1>5. /\ (\A j \in Conns : ConnTag(j)') /\ (\A j \in Conns : conn'[j] = conn[j])
      /\ (\A j \in Conns : Table(j)' = Table(j) /\ Out(j)' = Out(j) /\ Back(j)' = Back(j))
  BY <1>4, ConnsUnmoved
<1>6. (\A ch \in Channels : QueueTag(c, ch)') /\ Theirs(c)' = Theirs(c)
  BY <1>3, AllHeld
<1>7. ASSUME NEW k \in Conns, client'[c].conn = k PROVE LinkTag(c, k)'
  <2>1. LinkTag(c, k)
    BY <1>3, <1>7 DEF Paired
  <2>2. Table(k)' = Table(k) /\ Out(k)' = Out(k) /\ Back(k)' = Back(k)
    BY <1>5
  <2> QED
    BY <1>6, <2>1, <2>2 DEF LinkTag
<1> QED
  BY <1>3, <1>4, <1>5, <1>6, <1>7, ClientPaired

\* A connection whose way to the client is shortened or emptied
LEMMA WayShortened ==
  ASSUME Paired, NEW k \in Conns, OneConn(k), waiting' = waiting, conn'[k].phase = conn[k].phase,
         conn'[k].tlp = conn[k].tlp, conn'[k].toServer = conn[k].toServer,
         NEW rest, conn'[k].toClient = rest, Once(rest), TagsOf(rest) \subseteq Out(k)
  PROVE /\ (\A j \in Conns : ConnTag(j)') /\ (\A j \in Conns : Table(j)' \subseteq Table(j))
        /\ Table(k)' = Table(k) /\ Back(k)' = Back(k) /\ Out(k)' = TagsOf(rest)
        /\ (\A j \in Conns : k # j => conn'[j] = conn[j])
<1>1. ConnTag(k)
  BY DEF Paired
<1>2. /\ Table(k)' = conn[k].tlp /\ Out(k)' = TagsOf(rest)
      /\ Back(k)' = IF conn[k].phase = "asked" THEN {} ELSE TagsOf(conn[k].toServer)
      /\ Once(conn[k].toClient)' <=> Once(rest)
      /\ Once(conn[k].toServer)' <=> Once(conn[k].toServer)
  BY ConnNow
<1>3. Table(k) = conn[k].tlp /\ Back(k) = IF conn[k].phase = "asked" THEN {} ELSE TagsOf(conn[k].toServer)
  BY DEF Table, Back
<1>4. /\ Table(k)' \subseteq Table(k) /\ Once(conn[k].toClient)'
      /\ conn'[k].phase # "asked" => Once(conn[k].toServer)'
  BY <1>1, <1>2, <1>3 DEF ConnTag
<1>5. Out(k)' \subseteq Table(k)' /\ Back(k)' \subseteq Table(k)' /\ Out(k)' \cap Back(k)' = {}
  BY <1>1, <1>2, <1>3 DEF ConnTag
<1>6. \A j \in Conns : k # j => conn'[j] = conn[j]
  BY DEF OneConn
<1>7. (\A j \in Conns : ConnTag(j)') /\ (\A j \in Conns : Table(j)' \subseteq Table(j))
  BY <1>4, <1>5, ConnsPaired
<1>8. Table(k)' = Table(k) /\ Back(k)' = Back(k) /\ Out(k)' = TagsOf(rest)
  BY <1>2, <1>3
<1> QED
  BY <1>6, <1>7, <1>8

\* What a program that ends was to answer stays in the server's table.
LEMMA ExitsPairs ==
  ASSUME FlowInv, Paired, NEW c \in Clients, ClientExits(c)
  PROVE Paired'
<1>1. ClientTypes /\ client[c].conn \in Conns \cup {None}
  BY ClientIs
<1>2. PICK q : q = [ch \in Channels |-> <<>>]
  OBVIOUS
<1>3. ClientBecomes(c, "STOPPED", None, FALSE, {}, {}, q)
  BY <1>1, <1>2, ClientExitsEffect
<1>4. OneClient(c) /\ client'[c].tlp = {} /\ \A ch \in Channels : client'[c].fifo[ch] = <<>>
  BY <1>2, <1>3 DEF ClientBecomes
<1>5. PICK k \in Conns : client[c].conn = k
  BY <1>1 DEF ClientExits
<1>6. ConnTypes
  BY <1>5, ConnIs
<1>7. PICK how \in {"eof", "reset"} :
        ConnBecomes(k, conn[k].phase, how, conn[k].closed, conn[k].incoming, conn[k].tasks, conn[k].tlp,
                    conn[k].toServer, <<>>)
  BY <1>5, <1>6, ClientExitsPort
<1>8. PICK rest : rest = <<>>
  OBVIOUS
<1>9. /\ OneConn(k) /\ conn'[k].phase = conn[k].phase /\ conn'[k].tlp = conn[k].tlp
      /\ conn'[k].toServer = conn[k].toServer /\ conn'[k].toClient = rest
  BY <1>7, <1>8 DEF ConnBecomes
<1>10. fifo' = fifo /\ waiting' = waiting /\ "unpaired" \notin history'
  BY DEF ClientExits, Paired
<1>11. Once(rest) /\ TagsOf(rest) \subseteq Out(k)
  BY <1>8, TagsEmpty
<1>12. /\ (\A j \in Conns : ConnTag(j)') /\ (\A j \in Conns : Table(j)' \subseteq Table(j))
       /\ (\A j \in Conns : k # j => conn'[j] = conn[j])
  BY <1>9, <1>10, <1>11, WayShortened
<1> QED
  BY <1>4, <1>5, <1>10, <1>12, NothingHeld, ClientPaired

\* A client that is refused leaves what was on its way to it.
LEMMA RefusedPairs ==
  ASSUME FlowInv, Paired, NEW c \in Clients, Refused(c)
  PROVE Paired'
<1>1. ClientTypes /\ client[c].conn \in Conns \cup {None}
  BY ClientIs
<1>2. PICK status : status = IF c \in Retry THEN "STARTING" ELSE "STOPPED"
  OBVIOUS
<1>3. ClientBecomes(c, status, None, client[c].incoming, client[c].tasks, client[c].tlp, client[c].fifo)
  BY <1>1, <1>2, RefusedEffect
<1>4. /\ OneClient(c) /\ client'[c].conn = None /\ client'[c].tlp = client[c].tlp
      /\ client'[c].fifo = client[c].fifo
  BY <1>3 DEF ClientBecomes
<1>5. PICK k \in Conns : client[c].conn = k
  BY <1>1 DEF Refused, Answered
<1>6. ConnTypes
  BY <1>5, ConnIs
<1>7. ConnBecomes(k, conn[k].phase, "eof", conn[k].closed, conn[k].incoming, conn[k].tasks, conn[k].tlp,
                  conn[k].toServer, <<>>)
  BY <1>5, <1>6, RefusedPort
<1>8. PICK rest : rest = <<>>
  OBVIOUS
<1>9. /\ OneConn(k) /\ conn'[k].phase = conn[k].phase /\ conn'[k].tlp = conn[k].tlp
      /\ conn'[k].toServer = conn[k].toServer /\ conn'[k].toClient = rest
  BY <1>7, <1>8 DEF ConnBecomes
<1>10. fifo' = fifo /\ waiting' = waiting /\ "unpaired" \notin history'
  BY DEF Refused, Paired
<1>11. Once(rest) /\ TagsOf(rest) \subseteq Out(k)
  BY <1>8, TagsEmpty
<1>12. /\ (\A j \in Conns : ConnTag(j)') /\ (\A j \in Conns : Table(j)' \subseteq Table(j))
       /\ (\A j \in Conns : k # j => conn'[j] = conn[j])
  BY <1>9, <1>10, <1>11, WayShortened
<1>13. \A ch \in Channels : QueueTag(c, ch)'
  BY <1>4, AllHeld
<1>14. \A j \in Conns : client'[c].conn # j
  BY <1>4, ConnectionAssumption
<1> QED
  BY <1>4, <1>5, <1>10, <1>12, <1>13, <1>14, ClientPaired

\* The confirmation is taken from the way to the client.
LEMMA ConfirmedPairs ==
  ASSUME FlowInv, Paired, NEW c \in Clients, Confirmed(c)
  PROVE Paired'
<1>1. ClientTypes /\ client[c].conn \in Conns \cup {None}
  BY ClientIs
<1>2. ClientBecomes(c, "RUNNING", client[c].conn, TRUE, ChannelsOf[c], client[c].tlp, client[c].fifo)
  BY <1>1, ConfirmedEffect
<1>3. /\ OneClient(c) /\ client'[c].conn = client[c].conn /\ client'[c].tlp = client[c].tlp
      /\ client'[c].fifo = client[c].fifo
  BY <1>2 DEF ClientBecomes
<1>4. PICK k \in Conns : client[c].conn = k
  BY <1>1 DEF Confirmed, Answered
<1>5. ConnTypes /\ conn[k].toClient \in Seq(PacketSet) /\ conn[k].toClient # <<>>
  BY <1>4, ConnIs DEF Confirmed, Reply
<1>6. PICK s : s = conn[k].toClient
  OBVIOUS
<1>7. PICK rest : rest = Tail(s)
  OBVIOUS
<1>8. ConnBecomes(k, conn[k].phase, conn[k].peer, conn[k].closed, conn[k].incoming, conn[k].tasks, conn[k].tlp,
                  conn[k].toServer, rest)
  BY <1>4, <1>5, <1>6, <1>7, ConfirmedPort
<1>9. /\ OneConn(k) /\ conn'[k].phase = conn[k].phase /\ conn'[k].tlp = conn[k].tlp
      /\ conn'[k].toServer = conn[k].toServer /\ conn'[k].toClient = rest
  BY <1>8 DEF ConnBecomes
<1>10. fifo' = fifo /\ waiting' = waiting /\ "unpaired" \notin history'
  BY DEF Confirmed, Paired
<1>11. Once(rest) /\ TagsOf(rest) \subseteq Out(k)
  <2>1. s \in Seq(PacketSet) /\ s # <<>> /\ Once(s) /\ Out(k) = TagsOf(s)
    BY <1>5, <1>6 DEF Paired, ConnTag, Out
  <2>2. TagsOf(Tail(s)) \subseteq TagsOf(s) /\ Once(Tail(s))
    BY <2>1, TagsTail
  <2> QED
    BY <1>7, <2>1, <2>2
<1>12. /\ (\A j \in Conns : ConnTag(j)') /\ (\A j \in Conns : Table(j)' \subseteq Table(j))
       /\ Table(k)' = Table(k) /\ Back(k)' = Back(k) /\ Out(k)' = TagsOf(rest)
       /\ (\A j \in Conns : k # j => conn'[j] = conn[j])
  BY <1>9, <1>10, <1>11, WayShortened
<1>13. (\A ch \in Channels : QueueTag(c, ch)') /\ Theirs(c)' = Theirs(c)
  BY <1>3, AllHeld
<1>14. LinkTag(c, k)'
  <2>1. LinkTag(c, k)
    BY <1>4 DEF Paired
  <2> QED
    BY <1>11, <1>12, <1>13, <2>1 DEF LinkTag
<1> QED
  BY <1>3, <1>4, <1>10, <1>12, <1>13, <1>14, ClientPaired

\* A client that changes its table and the queue of one channel
LEMMA QueueChanged ==
  ASSUME Paired, NEW c \in Clients, NEW queues, client'[c].fifo = queues, NEW ch,
         \A o \in Channels : o # ch => queues[o] = client[c].fifo[o] /\ Held(c, o) \subseteq Theirs(c)',
         ch \in Channels => /\ Once(queues[ch]) /\ TagsOf(queues[ch]) \subseteq Theirs(c)'
                            /\ \A o \in Channels : o # ch => TagsOf(queues[ch]) \cap Held(c, o) = {}
  PROVE \A o \in Channels : QueueTag(c, o)'
<1>1. ASSUME NEW o \in Channels
      PROVE Held(c, o)' = TagsOf(queues[o]) /\ (Once(client[c].fifo[o])' <=> Once(queues[o]))
  BY DEF Held, Once, TagsOf
<1>2. ASSUME NEW o \in Channels, o # ch PROVE Held(c, o)' = Held(c, o) /\ Once(client[c].fifo[o])'
  <2>1. Once(client[c].fifo[o]) /\ Held(c, o) = TagsOf(client[c].fifo[o])
    BY DEF Paired, QueueTag, Held
  <2> QED
    BY <1>1, <1>2, <2>1
<1>3. ASSUME NEW o \in Channels PROVE QueueTag(c, o)'
  <2>1. QueueTag(c, o)
    BY DEF Paired
  <2>2. CASE o = ch
    <3>1. \A i \in Channels : i # o => Held(c, i)' = Held(c, i)
      BY <1>2, <2>2
    <3> QED
      BY <1>1, <2>2, <3>1 DEF QueueTag
  <2>3. CASE o # ch
    <3>1. ASSUME NEW i \in Channels, i # o PROVE Held(c, o)' \cap Held(c, i)' = {}
      <4>1. CASE i = ch
        BY <1>1, <1>2, <2>3, <4>1
      <4>2. CASE i # ch
        BY <1>2, <2>1, <2>3, <3>1, <4>2 DEF QueueTag
      <4> QED
        BY <4>1, <4>2
    <3> QED
      BY <1>2, <2>3, <3>1 DEF QueueTag
  <2> QED
    BY <2>2, <2>3
<1> QED
  BY <1>3

\* The client's table takes the transaction of a request, its queue that of
\* the answer.
LEMMA TakePairs ==
  ASSUME FlowInv, Paired, NEW c \in Clients, ClientTake(c)
  PROVE Paired'
<1>1. /\ ClientTypes /\ ClientRule(c) /\ client[c].conn \in Conns \cup {None} /\ client[c].fifo \in Fifos
  BY ClientIs
<1>2. client[c].incoming /\ client[c].conn # None /\ client[c].status # "STARTING"
  BY <1>1 DEF ClientTake, ClientRule, Idle
<1>3. PICK k \in Conns : client[c].conn = k
  BY <1>1, <1>2
<1>4. ConnTypes /\ conn[k].toClient \in Seq(PacketSet) /\ LinkTag(c, k)
  BY <1>3, ConnIs DEF Paired
<1>5. Only(conn[k].toClient, HostPackets) /\ conn[k].toClient # <<>>
  BY <1>1, <1>2, <1>3 DEF ClientRule, ClientTake, Reply, Serves
<1>6. PICK s : s = conn[k].toClient
  OBVIOUS
<1>7. PICK p : p = Head(s)
  OBVIOUS
<1>8. PICK rest : rest = Tail(s)
  OBVIOUS
<1>9. PICK g : g = OwnTag(p)
  OBVIOUS
<1>10. p \in HostPackets
  BY <1>4, <1>5, <1>6, <1>7, OnlyTail
<1>11. g \subseteq Out(k) /\ TagsOf(rest) = Out(k) \ g /\ Once(rest)
  <2>1. s \in Seq(PacketSet) /\ s # <<>> /\ Once(s) /\ Out(k) = TagsOf(s)
    BY <1>4, <1>5, <1>6 DEF Paired, ConnTag, Out
  <2>2. OwnTag(Head(s)) \subseteq TagsOf(s) /\ TagsOf(Tail(s)) = TagsOf(s) \ OwnTag(Head(s)) /\ Once(Tail(s))
    BY <2>1, TagsTail
  <2> QED
    BY <1>7, <1>8, <1>9, <2>1, <2>2
<1>12. ConnBecomes(k, conn[k].phase, conn[k].peer, conn[k].closed, conn[k].incoming, conn[k].tasks, conn[k].tlp,
                   conn[k].toServer, rest)
  BY <1>3, <1>4, <1>6, <1>8, ClientTakePort
<1>13. /\ OneConn(k) /\ conn'[k].phase = conn[k].phase /\ conn'[k].tlp = conn[k].tlp
       /\ conn'[k].toServer = conn[k].toServer /\ conn'[k].toClient = rest
  BY <1>12 DEF ConnBecomes
<1>14. fifo' = fifo /\ waiting' = waiting /\ "unpaired" \notin history'
  BY DEF ClientTake, Paired
<1>15. /\ (\A j \in Conns : ConnTag(j)') /\ (\A j \in Conns : Table(j)' \subseteq Table(j))
       /\ Table(k)' = Table(k) /\ Back(k)' = Back(k) /\ Out(k)' = TagsOf(rest)
       /\ (\A j \in Conns : k # j => conn'[j] = conn[j])
  <2>1. TagsOf(rest) \subseteq Out(k)
    BY <1>11
  <2> QED
    BY <1>11, <1>13, <1>14, <2>1, WayShortened
<1>16. PICK ch : ch = ChannelOf(p)
  OBVIOUS
<1>17. PICK queue : queue = IF ch \in ChannelsOf[c] THEN client[c].fifo[ch] \o Answers(p) ELSE client[c].fifo[ch]
  OBVIOUS
<1>18. PICK table : table = TlpAfter(p, client[c].tlp)
  OBVIOUS
<1>19. PICK queues : queues = [client[c].fifo EXCEPT ![ch] = queue]
  OBVIOUS
<1>20. ClientBecomes(c, client[c].status, client[c].conn, client[c].incoming, client[c].tasks, table, queues)
  BY <1>1, <1>3, <1>6, <1>7, <1>16, <1>17, <1>18, <1>19, ClientTakeEffect
<1>21. /\ OneClient(c) /\ client'[c].conn = k /\ client'[c].tlp = table /\ client'[c].fifo = queues
  BY <1>3, <1>20 DEF ClientBecomes
<1>22. Theirs(c)' = Theirs(c) \cup g
  <2>1. table = client[c].tlp \cup g
    BY <1>9, <1>10, <1>18, TableHost
  <2> QED
    BY <1>21, <2>1 DEF Theirs
<1>23. g \cap Theirs(c) = {} /\ g \subseteq Table(k) /\ g \cap Back(k) = {}
  <2>1. Out(k) \subseteq Table(k) /\ Out(k) \cap Back(k) = {}
    BY DEF Paired, ConnTag
  <2> QED
    BY <1>4, <1>11, <2>1 DEF LinkTag
<1>24. LinkTag(c, k)'
  BY <1>4, <1>11, <1>15, <1>22, <1>23 DEF LinkTag
<1>25. \A o \in Channels : Held(c, o) \subseteq Theirs(c)
  BY DEF Paired, QueueTag
<1>26. ch \in Channels => Once(queue) /\ TagsOf(queue) \subseteq Held(c, ch) \cup g
  <2> SUFFICES ASSUME ch \in Channels PROVE Once(queue) /\ TagsOf(queue) \subseteq Held(c, ch) \cup g
    OBVIOUS
  <2>1. PICK q : q = client[c].fifo[ch]
    OBVIOUS
  <2>2. q \in Seq(PacketSet) /\ Once(q) /\ Held(c, ch) = TagsOf(q)
    BY <1>1, <2>1 DEF Fifos, Paired, QueueTag, Held
  <2>3. CASE queue = q
    BY <2>2, <2>3
  <2>4. CASE queue # q
    <3>1. queue = q \o Answers(p)
      BY <1>17, <2>1, <2>4
    <3>2. Answers(p) # <<>>
      BY <2>2, <2>4, <3>1, ConcatEmptySeq
    <3>3. PICK a \in DevicePackets : Answers(p) = <<a>> /\ OwnTag(a) = OwnTag(p)
      BY <1>10, <3>2, AnswerFacts
    <3>4. a \in PacketSet /\ OwnTag(a) = g
      BY <1>9, <3>3, PacketsAre
    <3>5. queue = Append(q, a)
      BY <2>2, <3>1, <3>3, <3>4, ConcatOne
    <3>6. TagsOf(q) \cap OwnTag(a) = {}
      BY <1>23, <1>25, <2>2, <3>4
    <3>7. TagsOf(Append(q, a)) = TagsOf(q) \cup OwnTag(a) /\ Once(Append(q, a))
      BY <2>2, <3>4, <3>6, TagsAppend
    <3> QED
      BY <2>2, <3>4, <3>5, <3>7
  <2> QED
    BY <2>3, <2>4
<1>27. \A o \in Channels : queues[o] = IF o = ch THEN queue ELSE client[c].fifo[o]
  BY <1>1, <1>19 DEF Fifos
<1>28. \A o \in Channels : o # ch => queues[o] = client[c].fifo[o] /\ Held(c, o) \subseteq Theirs(c)'
  BY <1>22, <1>25, <1>27
<1>29. ch \in Channels => /\ Once(queues[ch]) /\ TagsOf(queues[ch]) \subseteq Theirs(c)'
                          /\ \A o \in Channels : o # ch => TagsOf(queues[ch]) \cap Held(c, o) = {}
  <2> SUFFICES ASSUME ch \in Channels
               PROVE /\ Once(queues[ch]) /\ TagsOf(queues[ch]) \subseteq Theirs(c)'
                     /\ \A o \in Channels : o # ch => TagsOf(queues[ch]) \cap Held(c, o) = {}
    OBVIOUS
  <2>1. queues[ch] = queue
    BY <1>27
  <2>2. \A o \in Channels : o # ch => Held(c, ch) \cap Held(c, o) = {}
    BY DEF Paired, QueueTag
  <2>3. Once(queues[ch]) /\ TagsOf(queues[ch]) \subseteq Held(c, ch) \cup g
    BY <1>26, <2>1
  <2> QED
    BY <1>22, <1>23, <1>25, <2>2, <2>3
<1>30. \A o \in Channels : QueueTag(c, o)'
  BY <1>21, <1>28, <1>29, QueueChanged
<1> QED
  BY <1>3, <1>14, <1>15, <1>21, <1>24, <1>30, ClientPaired

\* What the client reads is a packet of the host, and its transaction is not
\* in the client's table.
LEMMA ClientLosesPairs ==
  ASSUME FlowInv, Paired, NEW c \in Clients, ClientLosesReader(c) \/ ClientStop(c)
  PROVE Paired'
<1>1. /\ ClientTypes /\ ClientRule(c) /\ client[c].conn \in Conns \cup {None} /\ client[c].fifo \in Fifos
  BY ClientIs
<1>2. client[c].incoming
  BY DEF ClientLosesReader, ClientStop
<1>3. client[c].conn # None /\ client[c].status # "STARTING"
  BY <1>1, <1>2 DEF ClientRule, Idle
<1>4. PICK k \in Conns : client[c].conn = k
  BY <1>1, <1>3
<1>5. conn[k].toClient \in Seq(PacketSet) /\ LinkTag(c, k) /\ Only(conn[k].toClient, HostPackets)
  BY <1>1, <1>3, <1>4, ConnIs DEF Paired, ClientRule, Serves
<1>6. conn[k].toClient # <<>> => ~Bad(Head(conn[k].toClient), client[c].tlp)
  <2> SUFFICES ASSUME conn[k].toClient # <<>> PROVE ~Bad(Head(conn[k].toClient), client[c].tlp)
    OBVIOUS
  <2>1. PICK s : s = conn[k].toClient
    OBVIOUS
  <2>2. PICK p : p = Head(s)
    OBVIOUS
  <2>3. p \in HostPackets
    BY <1>5, <2>1, <2>2, OnlyTail
  <2>4. OwnTag(p) \subseteq Out(k)
    BY <1>5, <2>1, <2>2, TagsTail DEF Out
  <2>5. OwnTag(p) \cap client[c].tlp = {}
    BY <1>5, <2>4 DEF LinkTag, Theirs
  <2>6. ~TlpFails(p, client[c].tlp) /\ Fine(p)
    BY <2>3, <2>5, TableHost, HostFacts
  <2> QED
    BY <2>1, <2>2, <2>6 DEF Bad, Fine
<1>7. conn' = conn /\ fifo' = fifo /\ waiting' = waiting /\ "unpaired" \notin history'
  BY <1>4, <1>6 DEF ClientLosesReader, ClientStop, Reply, Paired
<1>8. PICK queues : queues = NotifiedOf(client[c].fifo, ChannelsOf[c])
  OBVIOUS
<1>9. /\ OneClient(c) /\ client'[c].conn = client[c].conn /\ client'[c].tlp = client[c].tlp
      /\ client'[c].fifo = queues
  <2>1. CASE ClientLosesReader(c)
    BY <1>1, <1>8, <2>1, ClientLosesEffect DEF ClientBecomes
  <2>2. CASE ClientStop(c)
    BY <1>1, <1>8, <2>2, ClientStopEffect DEF ClientBecomes
  <2> QED
    BY <2>1, <2>2
<1>10. Theirs(c)' = Theirs(c)
  BY <1>9 DEF Theirs
<1>11. ASSUME NEW ch \in Channels PROVE Once(client[c].fifo[ch])' /\ Held(c, ch)' = Held(c, ch)
  <2>1. PICK q : q = client[c].fifo[ch]
    OBVIOUS
  <2>2. q \in Seq(PacketSet) /\ Notification \in PacketSet /\ OwnTag(Notification) = {} /\ Once(q)
        /\ Held(c, ch) = TagsOf(q)
    BY <1>1, <2>1, PacketsAre, NoTag DEF Fifos, Paired, QueueTag, Held
  <2>3. TagsOf(Append(q, Notification)) = TagsOf(q) /\ Once(Append(q, Notification))
    <3>1. PICK note : note = Notification
      OBVIOUS
    <3>2. note \in PacketSet /\ OwnTag(note) = {}
      BY <2>2, <3>1
    <3>3. q \in Seq(PacketSet) /\ Once(q) /\ TagsOf(q) \cap OwnTag(note) = {}
      BY <2>2, <3>2
    <3>4. TagsOf(Append(q, note)) = TagsOf(q) \cup OwnTag(note) /\ Once(Append(q, note))
      BY <3>2, <3>3, TagsAppend
    <3>5. TagsOf(q) \cup OwnTag(note) = TagsOf(q)
      BY <3>2
    <3> QED
      BY <3>1, <3>4, <3>5
  <2>4. queues[ch] = Append(q, Notification) \/ queues[ch] = q
    BY <1>1, <1>8, <2>1 DEF NotifiedOf, Fifos
  <2>5. PICK r : r = queues[ch]
    OBVIOUS
  <2>6. Once(r) /\ TagsOf(r) = TagsOf(q)
    BY <2>2, <2>3, <2>4, <2>5
  <2>7. client'[c].fifo[ch] = r
    BY <1>9, <2>5
  <2>8. Held(c, ch)' = TagsOf(r) /\ (Once(client[c].fifo[ch])' <=> Once(r))
    BY <2>7 DEF Held, Once, TagsOf
  <2> QED
    BY <2>2, <2>6, <2>8
<1>12. ASSUME NEW ch \in Channels PROVE QueueTag(c, ch)'
  <2>1. QueueTag(c, ch)
    BY DEF Paired
  <2> QED
    BY <1>10, <1>11, <2>1 DEF QueueTag
<1>13. /\ (\A j \in Conns : ConnTag(j)') /\ (\A j \in Conns : conn'[j] = conn[j])
       /\ (\A j \in Conns : Table(j)' = Table(j) /\ Out(j)' = Out(j) /\ Back(j)' = Back(j))
  BY <1>7, ConnsUnmoved
<1>14. ASSUME NEW j \in Conns, client'[c].conn = j PROVE LinkTag(c, j)'
  <2>1. LinkTag(c, j)
    BY <1>9, <1>14 DEF Paired
  <2>2. Table(j)' = Table(j) /\ Out(j)' = Out(j) /\ Back(j)' = Back(j)
    BY <1>13
  <2> QED
    BY <1>10, <2>1, <2>2 DEF LinkTag
<1> QED
  BY <1>7, <1>9, <1>12, <1>13, <1>14, ClientPaired

\* The client's table loses the transaction of the completion it sends, and
\* the way back gains it.
LEMMA SendPairs ==
  ASSUME FlowInv, Paired, NEW c \in Clients, NEW ch \in Channels, ClientSend(c, ch)
  PROVE Paired'
<1>1. /\ ClientTypes /\ ClientRule(c) /\ client[c].conn \in Conns \cup {None} /\ client[c].fifo \in Fifos
  BY ClientIs
<1>2. client[c].conn # None /\ client[c].status # "STARTING"
  BY <1>1 DEF ClientSend, ClientRule, Idle
<1>3. PICK k \in Conns : client[c].conn = k
  BY <1>1, <1>2
<1>4. ConnTypes /\ Serves(k) /\ conn[k].toServer \in Seq(PacketSet) /\ LinkTag(c, k) /\ ConnTag(k)
  BY <1>1, <1>2, <1>3, ConnIs DEF ClientRule, Paired
<1>5. PICK old : old = client[c].fifo
  OBVIOUS
<1>6. PICK p : p = Head(old[ch])
  OBVIOUS
<1>7. PICK queues : queues = [old EXCEPT ![ch] = Tail(old[ch])]
  OBVIOUS
<1>8. PICK g : g = OwnTag(p)
  OBVIOUS
<1>9. p \in DevicePackets \cup {Notification}
  <2>1. old \in Fifos /\ (\A o \in Channels : Only(old[o], DevicePackets \cup {Notification})) /\ old[ch] # <<>>
    BY <1>1, <1>5 DEF ClientRule, ClientSend
  <2> QED
    BY <1>6, <1>7, <2>1, QueuesTaken
<1>10. /\ g \subseteq Held(c, ch) /\ Once(queues[ch]) /\ TagsOf(queues[ch]) = Held(c, ch) \ g
       /\ \A o \in Channels : o # ch => queues[o] = client[c].fifo[o]
  <2>1. PICK q : q = old[ch]
    OBVIOUS
  <2>2. q \in Seq(PacketSet) /\ q # <<>> /\ Once(q) /\ Held(c, ch) = TagsOf(q)
    BY <1>1, <1>5, <2>1 DEF Fifos, ClientSend, Paired, QueueTag, Held
  <2>3. OwnTag(Head(q)) \subseteq TagsOf(q) /\ TagsOf(Tail(q)) = TagsOf(q) \ OwnTag(Head(q)) /\ Once(Tail(q))
    BY <2>2, TagsTail
  <2>4. queues[ch] = Tail(q) /\ \A o \in Channels : o # ch => queues[o] = client[c].fifo[o]
    BY <1>1, <1>5, <1>7, <2>1 DEF Fifos
  <2> QED
    BY <1>6, <1>8, <2>1, <2>2, <2>3, <2>4
<1>11. \A o \in Channels : /\ Held(c, o) \subseteq Theirs(c)
                           /\ o # ch => Held(c, ch) \cap Held(c, o) = {}
  BY DEF Paired, QueueTag
<1>12. g \subseteq Theirs(c) /\ (p # Notification => ~TlpFails(p, client[c].tlp))
  <2>1. g \subseteq Theirs(c)
    BY <1>10, <1>11
  <2>2. CASE p \in DevicePackets
    BY <1>8, <2>1, <2>2, TableDevice DEF Theirs
  <2> QED
    BY <1>9, <2>1, <2>2
<1>13. fifo' = fifo /\ waiting' = waiting
  BY DEF ClientSend
<1>14. CASE p # Notification /\ ~conn[k].closed
  <2>1. p \in DevicePackets /\ p \in PacketSet /\ g \subseteq Theirs(c) /\ ~TlpFails(p, client[c].tlp)
    BY <1>9, <1>12, <1>14, PacketsAre
  <2>2. PICK table : table = TlpAfter(p, client[c].tlp)
    OBVIOUS
  <2>3. ClientBecomes(c, client[c].status, client[c].conn, client[c].incoming, client[c].tasks, table, queues)
    BY <1>1, <1>3, <1>5, <1>6, <1>7, <1>14, <2>1, <2>2, ClientSends
  <2>4. OneClient(c) /\ client'[c].conn = k /\ client'[c].tlp = table /\ client'[c].fifo = queues
    BY <1>3, <2>3 DEF ClientBecomes
  <2>5. Theirs(c)' = Theirs(c) \ g
    <3>1. table = client[c].tlp \ g
      BY <1>8, <2>1, <2>2, TableDevice
    <3> QED
      BY <2>4, <3>1 DEF Theirs
  <2>6. PICK t : t = conn[k].toServer
    OBVIOUS
  <2>7. PICK s : s = Append(conn[k].toServer, p)
    OBVIOUS
  <2>8. ConnBecomes(k, conn[k].phase, conn[k].peer, conn[k].closed, conn[k].incoming, conn[k].tasks, conn[k].tlp,
                    s, conn[k].toClient)
    BY <1>3, <1>4, <1>5, <1>6, <1>14, <2>1, <2>7, ClientSendPort
  <2>9. /\ OneConn(k) /\ conn'[k].phase = conn[k].phase /\ conn'[k].tlp = conn[k].tlp
        /\ conn'[k].toServer = s /\ conn'[k].toClient = conn[k].toClient
    BY <2>8 DEF ConnBecomes
  <2>10. conn[k].phase # "asked" /\ Back(k) = TagsOf(t) /\ Once(t)
    BY <1>4, <2>6 DEF Serves, Back, ConnTag
  <2>11. Theirs(c) \subseteq Table(k) /\ g \cap Out(k) = {} /\ g \cap Back(k) = {}
    BY <1>4, <2>1 DEF LinkTag
  <2>12. TagsOf(s) = Back(k) \cup g /\ Once(s)
    <3>1. t \in Seq(PacketSet) /\ TagsOf(t) \cap OwnTag(p) = {}
      BY <1>4, <1>8, <2>6, <2>10, <2>11
    <3>2. TagsOf(Append(t, p)) = TagsOf(t) \cup OwnTag(p) /\ Once(Append(t, p))
      BY <2>1, <2>10, <3>1, TagsAppend
    <3> QED
      BY <1>8, <2>6, <2>7, <2>10, <3>2
  <2>13. /\ Table(k)' = conn[k].tlp /\ Out(k)' = TagsOf(conn[k].toClient)
         /\ Back(k)' = IF conn[k].phase = "asked" THEN {} ELSE TagsOf(s)
         /\ Once(conn[k].toClient)' <=> Once(conn[k].toClient)
         /\ Once(conn[k].toServer)' <=> Once(s)
    BY <2>9, ConnNow
  <2>14. Table(k)' = Table(k) /\ Out(k)' = Out(k) /\ Back(k)' = Back(k) \cup g
    BY <2>10, <2>12, <2>13 DEF Table, Out
  <2>15. Once(conn[k].toClient)' /\ Once(conn[k].toServer)'
    BY <1>4, <2>12, <2>13 DEF ConnTag
  <2>16. /\ Table(k)' \subseteq Table(k) /\ Out(k)' \subseteq Table(k)' /\ Back(k)' \subseteq Table(k)'
         /\ Out(k)' \cap Back(k)' = {}
    BY <1>4, <2>1, <2>11, <2>14 DEF ConnTag
  <2>17. (\A j \in Conns : ConnTag(j)') /\ (\A j \in Conns : Table(j)' \subseteq Table(j))
    BY <1>13, <2>9, <2>15, <2>16, ConnsPaired
  <2>18. LinkTag(c, k)'
    BY <1>4, <2>5, <2>14 DEF LinkTag
  <2>19. \A j \in Conns : k # j => conn'[j] = conn[j]
    BY <2>9 DEF OneConn
  <2>20. \A o \in Channels : o # ch => queues[o] = client[c].fifo[o] /\ Held(c, o) \subseteq Theirs(c)'
    BY <1>10, <1>11, <2>5
  <2>21. Once(queues[ch]) /\ TagsOf(queues[ch]) \subseteq Theirs(c)'
         /\ \A o \in Channels : o # ch => TagsOf(queues[ch]) \cap Held(c, o) = {}
    BY <1>10, <1>11, <2>5
  <2>22. \A o \in Channels : QueueTag(c, o)'
    BY <2>4, <2>20, <2>21, QueueChanged
  <2>23. "unpaired" \notin history'
    BY <1>3, <1>5, <1>6, <1>14, <2>1 DEF ClientSend, Paired
  <2> QED
    BY <1>3, <1>13, <2>4, <2>17, <2>18, <2>19, <2>22, <2>23, ClientPaired
<1>15. CASE p = Notification \/ conn[k].closed
  <2>1. /\ OneClient(c) /\ client'[c].conn = k /\ client'[c].tlp = client[c].tlp /\ client'[c].fifo = queues
        /\ conn' = conn /\ "unpaired" \notin history'
    <3>1. CASE p = Notification
      <4>1. ClientBecomes(c, client[c].status, client[c].conn, client[c].incoming, client[c].tasks \ {ch},
                          client[c].tlp, queues)
        BY <1>1, <1>3, <1>5, <1>6, <1>7, <3>1, ClientTaskEnds
      <4>2. conn' = conn /\ history' = history
        BY <1>5, <1>6, <3>1 DEF ClientSend
      <4> QED
        BY <1>3, <4>1, <4>2 DEF ClientBecomes, Paired
    <3>2. CASE p # Notification
      <4>1. ClientBecomes(c, "STOPPED", client[c].conn, client[c].incoming, client[c].tasks \ {ch},
                          client[c].tlp, queues)
        BY <1>1, <1>3, <1>5, <1>6, <1>7, <1>15, <3>2, ClientTaskFails
      <4>2. conn' = conn /\ history' = history
        BY <1>3, <1>5, <1>6, <1>12, <1>15, <3>2 DEF ClientSend
      <4> QED
        BY <1>3, <4>1, <4>2 DEF ClientBecomes, Paired
    <3> QED
      BY <3>1, <3>2
  <2>2. Theirs(c)' = Theirs(c)
    BY <2>1 DEF Theirs
  <2>3. \A o \in Channels : o # ch => queues[o] = client[c].fifo[o] /\ Held(c, o) \subseteq Theirs(c)'
    BY <1>10, <1>11, <2>2
  <2>4. Once(queues[ch]) /\ TagsOf(queues[ch]) \subseteq Theirs(c)'
        /\ \A o \in Channels : o # ch => TagsOf(queues[ch]) \cap Held(c, o) = {}
    BY <1>10, <1>11, <2>2
  <2>5. \A o \in Channels : QueueTag(c, o)'
    BY <2>1, <2>3, <2>4, QueueChanged
  <2>6. /\ (\A j \in Conns : ConnTag(j)') /\ (\A j \in Conns : conn'[j] = conn[j])
        /\ (\A j \in Conns : Table(j)' = Table(j) /\ Out(j)' = Out(j) /\ Back(j)' = Back(j))
    BY <1>13, <2>1, ConnsUnmoved
  <2>7. \A j \in Conns : client'[c].conn = j => LinkTag(c, j)'
    BY <1>3, <1>4, <2>1, <2>2, <2>6 DEF LinkTag
  <2>8. \A j \in Conns : Table(j)' \subseteq Table(j)
    BY <2>6
  <2> QED
    BY <1>13, <2>1, <2>5, <2>6, <2>7, <2>8, ClientPaired
<1> QED
  BY <1>14, <1>15

\* A new connection carries no transaction that counts: before it is accepted,
\* what the client has sent is no completion to the server's processor.
LEMMA ConnectPairs ==
  ASSUME FlowInv, PortInv, Paired, NEW c \in Clients, Connect(c)
  PROVE Paired'
<1>1. ClientTypes /\ ClientRule(c)
  BY ClientIs
<1>2. Theirs(c) = {}
  BY <1>1 DEF Connect, ClientRule, Idle, Theirs
<1>3. PICK k : k = Fresh
  OBVIOUS
<1>4. k \in Conns /\ conn[k].phase = "none"
  BY <1>3, FreshIsNew DEF Connect
<1>5. ConnTypes
  BY <1>4, ConnIs
<1>6. PICK p \in Openings[c] : ConnBecomes(k, "asked", "open", FALSE, FALSE, {}, {}, <<p>>, <<>>)
  BY <1>3, <1>4, <1>5, ConnectPort
<1>7. PICK s : s = <<p>>
  OBVIOUS
<1>8. PICK e : e = <<>>
  OBVIOUS
<1>9. /\ OneConn(k) /\ conn'[k].phase = "asked" /\ conn'[k].tlp = {} /\ conn'[k].toServer = s /\ conn'[k].toClient = e
  BY <1>6, <1>7, <1>8 DEF ConnBecomes
<1>10. Table(k)' = {} /\ Out(k)' = TagsOf(e) /\ Back(k)' = {} /\ (Once(conn[k].toClient)' <=> Once(e))
  BY <1>9 DEF Table, Out, Back, Once, TagsOf
<1>11. TagsOf(e) = {} /\ Once(e)
  BY <1>8, TagsEmpty
<1>12. /\ Table(k)' \subseteq Table(k) /\ Once(conn[k].toClient)'
       /\ Out(k)' \subseteq Table(k)' /\ Back(k)' \subseteq Table(k)' /\ Out(k)' \cap Back(k)' = {}
  BY <1>10, <1>11
<1>13. fifo' = fifo /\ waiting' = waiting /\ "unpaired" \notin history'
  BY DEF Connect, Paired
<1>14. (\A j \in Conns : ConnTag(j)') /\ (\A j \in Conns : Table(j)' \subseteq Table(j))
  BY <1>4, <1>9, <1>12, <1>13, ConnsPaired
<1>15. ClientBecomes(c, client[c].status, k, client[c].incoming, client[c].tasks, client[c].tlp, client[c].fifo)
  BY <1>1, <1>3, ConnectEffect
<1>16. OneClient(c) /\ client'[c].conn = k /\ client'[c].tlp = client[c].tlp /\ client'[c].fifo = client[c].fifo
  BY <1>15 DEF ClientBecomes
<1>17. (\A ch \in Channels : QueueTag(c, ch)') /\ Theirs(c)' = {}
  BY <1>2, <1>16, AllHeld
<1>18. \A j \in Conns : client'[c].conn = j => LinkTag(c, j)'
  BY <1>17 DEF LinkTag
<1>19. \A j \in Conns : client[c].conn # j => conn'[j] = conn[j] \/ conn[j].phase = "none"
  BY <1>4, <1>9 DEF OneConn
<1> QED
  BY <1>13, <1>14, <1>16, <1>17, <1>18, <1>19, ClientPaired

\* TagInv holds from the start.
LEMMA InitPairs == Init => TagInv
<1> SUFFICES ASSUME Init PROVE Paired
  BY DEF TagInv
<1>1. \A k \in Conns : conn[k].tlp = {} /\ conn[k].toServer = <<>> /\ conn[k].toClient = <<>>
  BY DEF Init, NoConn
<1>2. \A c \in Clients : client[c].tlp = {} /\ client[c].conn = None /\ \A ch \in Channels : client[c].fifo[ch] = <<>>
  BY DEF Init, NoClient
<1>3. \A ch \in Channels : fifo[ch] = <<>>
  BY DEF Init
<1>4. ASSUME NEW ch \in Channels PROVE Queued(ch) = {} /\ Once(fifo[ch])
  BY <1>3, TagsEmpty DEF Queued
<1>5. ASSUME NEW k \in Conns
      PROVE Table(k) = {} /\ Out(k) = {} /\ Back(k) = {} /\ Once(conn[k].toClient) /\ Once(conn[k].toServer)
  BY <1>1, TagsEmpty DEF Table, Out, Back
<1>6. ASSUME NEW c \in Clients, NEW ch \in Channels PROVE Held(c, ch) = {} /\ Once(client[c].fifo[ch])
  BY <1>2, TagsEmpty DEF Held
<1>7. \A ch \in Channels : PortTag(ch)
  BY <1>4 DEF PortTag
<1>8. \A k \in Conns : ConnTag(k)
  BY <1>5 DEF ConnTag
<1>9. \A c \in Clients, ch \in Channels : QueueTag(c, ch)
  BY <1>6 DEF QueueTag
<1>10. \A c \in Clients, k \in Conns : client[c].conn # k
  BY <1>2, ConnectionAssumption
<1>11. "unpaired" \notin history
  BY DEF Init
<1> QED
  BY <1>7, <1>8, <1>9, <1>10, <1>11 DEF Paired

\* A step that changes nothing
LEMMA NothingPairs ==
  ASSUME Paired, UNCHANGED vars
  PROVE Paired'
<1>1. conn' = conn /\ fifo' = fifo /\ client' = client /\ waiting' = waiting /\ history' = history
  BY DEF vars
<1>2. \A ch \in Channels : Queued(ch)' = Queued(ch) /\ (Once(fifo[ch])' <=> Once(fifo[ch]))
  BY <1>1 DEF Queued, Once, TagsOf
<1>3. /\ (\A j \in Conns : ConnTag(j)')
      /\ (\A j \in Conns : Table(j)' = Table(j) /\ Out(j)' = Out(j) /\ Back(j)' = Back(j))
  BY <1>1, ConnsUnmoved
<1>4. ASSUME NEW ch \in Channels PROVE PortTag(ch)'
  <2>1. PortTag(ch)
    BY DEF Paired
  <2> QED
    BY <1>1, <1>2, <1>3, <2>1 DEF PortTag
<1>5. ASSUME NEW c \in Clients PROVE (\A ch \in Channels : QueueTag(c, ch)') /\ Theirs(c)' = Theirs(c)
  BY <1>1, AllHeld
<1>6. ASSUME NEW c \in Clients, NEW k \in Conns, client'[c].conn = k PROVE LinkTag(c, k)'
  <2>1. LinkTag(c, k)
    BY <1>1, <1>6 DEF Paired
  <2> QED
    BY <1>3, <1>5, <2>1 DEF LinkTag
<1> QED
  BY <1>1, <1>3, <1>4, <1>5, <1>6 DEF Paired

\* Every step keeps TagInv: what happened is not forgotten, so a tag that has
\* not been reused after a step was not before it.
LEMMA NextPairs == FlowInv /\ PortInv /\ TagInv /\ [Next]_vars => TagInv'
<1> SUFFICES ASSUME FlowInv, PortInv, TagInv, [Next]_vars, "reused" \notin history' PROVE Paired'
  BY DEF TagInv
<1>1. history \subseteq history'
  <2>1. ASSUME NEW k \in Conns, ServerStep(k) PROVE history \subseteq history'
    BY <2>1 DEF ServerStep, Reject, Accept, DrainFails, ServerTake, ServerLosesReader, ServerEnds, ServerSend,
                ServerTaskFails
  <2>2. ASSUME NEW c \in Clients, ClientStep(c) PROVE history \subseteq history'
    BY <2>2 DEF ClientStep, Connect, Confirmed, Refused, ClientTake, ClientLosesReader, ClientEnds, ClientSend
  <2>3. ASSUME NEW c \in Clients, ClientStart(c) \/ ClientTimesOut(c) \/ ClientStop(c) \/ ClientExits(c)
        PROVE history \subseteq history'
    BY <2>3 DEF ClientStart, ClientTimesOut, ClientStop, ClientExits
  <2>4. ASSUME NEW kind \in Kinds, HostSend(kind) PROVE history \subseteq history'
    BY <2>4 DEF HostSend
  <2>5. CASE UNCHANGED vars
    BY <2>5 DEF vars
  <2> QED
    BY <2>1, <2>2, <2>3, <2>4, <2>5 DEF Next
<1>2. Paired
  BY <1>1 DEF TagInv
<1>3. ASSUME NEW k \in Conns, ServerStep(k) PROVE Paired'
  <2>1. ASSUME NEW ch \in Channels, ServerSend(k, ch) \/ ServerTaskFails(k, ch) PROVE Paired'
    BY <1>2, <2>1, ServerSendPairs, TaskFailsPairs
  <2> QED
    BY <1>2, <1>3, <2>1, RejectPairs, AcceptPairs, ClosePairs, ServerTakePairs, ServerLosesPairs DEF ServerStep
<1>4. ASSUME NEW c \in Clients, ClientStep(c) PROVE Paired'
  <2>1. ASSUME NEW ch \in Channels, ClientSend(c, ch) PROVE Paired'
    BY <1>2, <2>1, SendPairs
  <2> QED
    BY <1>2, <1>4, <2>1, ConnectPairs, ConfirmedPairs, RefusedPairs, TakePairs, ClientLosesPairs, StoppedPairs
    DEF ClientStep
<1>5. ASSUME NEW c \in Clients, ClientStart(c) \/ ClientTimesOut(c) \/ ClientStop(c) \/ ClientExits(c) PROVE Paired'
  BY <1>2, <1>5, StartPairs, StoppedPairs, ClientLosesPairs, ExitsPairs
<1>6. ASSUME NEW kind \in Kinds, HostSend(kind) PROVE Paired'
  BY <1>2, <1>6, HostSendPairs
<1>7. CASE UNCHANGED vars
  BY <1>2, <1>7, NothingPairs
<1> QED
  BY <1>3, <1>4, <1>5, <1>6, <1>7 DEF Next

\* Until the host reuses a tag it still waits for, the processors of both sides
\* find the transaction of every completion in their tables and that of no
\* request (CxlPacketProcessor._push_tlp_table_entry and _pop_tlp_table_entry,
\* which raise otherwise), whatever was lost, rejected or restarted before.
THEOREM TagsPairedAlways == Spec => []TagsPaired
<1>1. Init => FlowInv /\ PortInv /\ TagInv
  BY InitFlows, InitPort, InitPairs
<1>2. FlowInv /\ PortInv /\ TagInv /\ [Next]_vars => (FlowInv /\ PortInv /\ TagInv)'
  BY NextFlows, NextPort, NextPairs
<1>3. TagInv => TagsPaired
  BY DEF TagInv, Paired, TagsPaired
<1> QED
  BY <1>1, <1>2, <1>3, PTL DEF Spec

----------------------------------------------------------------------------
(* FieldsFit: what is read from a packet is what it was made with.         *)

\* A field keeps what its width has room for.
IsWord(x) == x \in Nat /\ x < 65536
IsByte(x) == x \in Nat /\ x < 256
IsTag(x) == x \in Nat /\ x < 4096
In2Bits(x) == x \in Nat /\ x < 4
In3Bits(x) == x \in Nat /\ x < 8
In4Bits(x) == x \in Nat /\ x < 16
In5Bits(x) == x \in Nat /\ x < 32
IsLine(addr) == addr \in Nat /\ addr % 64 = 0

LEMMA Kept2 == ASSUME NEW x, In2Bits(x) PROVE Kept(x, 2) = x
<1>1. 2^2 = 4
  OBVIOUS
<1> QED
  BY <1>1 DEF Kept, In2Bits
LEMMA Kept3 == ASSUME NEW x, In3Bits(x) PROVE Kept(x, 3) = x
<1>1. 2^3 = 8
  OBVIOUS
<1> QED
  BY <1>1 DEF Kept, In3Bits
LEMMA Kept4 == ASSUME NEW x, In4Bits(x) PROVE Kept(x, 4) = x
<1>1. 2^4 = 16
  OBVIOUS
<1> QED
  BY <1>1 DEF Kept, In4Bits
LEMMA Kept5 == ASSUME NEW x, In5Bits(x) PROVE Kept(x, 5) = x
<1>1. 2^5 = 32
  OBVIOUS
<1> QED
  BY <1>1 DEF Kept, In5Bits
LEMMA Kept8 == ASSUME NEW x, IsByte(x) PROVE Kept(x, 8) = x
<1>1. 2^8 = 256
  OBVIOUS
<1> QED
  BY <1>1 DEF Kept, IsByte
LEMMA Kept12 == ASSUME NEW x, IsTag(x) PROVE Kept(x, 12) = x
<1>1. 2^12 = 4096
  OBVIOUS
<1> QED
  BY <1>1 DEF Kept, IsTag
LEMMA Kept16 == ASSUME NEW x, IsWord(x) PROVE Kept(x, 16) = x
<1>1. 2^16 = 65536
  OBVIOUS
<1> QED
  BY <1>1 DEF Kept, IsWord
LEMMA KeptWide == ASSUME NEW x, NEW w \in Int, w > 30 PROVE Kept(x, w) = x
BY DEF Kept
\* The register's number loses its upper bits.
LEMMA KeptLow == ASSUME NEW x \in Nat PROVE Kept(x, 6) = x % 64
BY SMT DEF Kept

\* A message has the fields its creator is given, and a field holds as much of
\* its value as it has room for.
LEMMA LinedField ==
  ASSUME NEW valid, NEW a, NEW f \in DOMAIN a, f # "valid"
  PROVE f \in DOMAIN Lined(valid, a) /\ Lined(valid, a)[f] = IF f = "addr" THEN a.addr \div 64 ELSE a[f]
BY DEF Lined

LEMMA FilledField ==
  ASSUME NEW layout, NEW values, NEW f \in DOMAIN layout, f \in DOMAIN values
  PROVE Filled(layout, values)[f] = Kept(values[f], layout[f])
BY DEF Filled

LEMMA CacheField ==
  ASSUME NEW class, NEW a, NEW data, NEW f \in DOMAIN a, f # "valid", f \in DOMAIN CacheHeaders[class]
  PROVE CachePacket(class, a, data).heads[2][f] =
          Kept(IF f = "addr" THEN a.addr \div 64 ELSE a[f], CacheHeaders[class][f])
<1>1. PICK layout, values, first, p :
        /\ layout = CacheHeaders[class] /\ values = Lined(1, a)
        /\ first = [msg_class |-> CacheClass[class]] /\ p = CachePacket(class, a, data)
  OBVIOUS
<1>2. f \in DOMAIN values /\ values[f] = IF f = "addr" THEN a.addr \div 64 ELSE a[f]
  BY <1>1, LinedField
<1>3. PICK n : p = Made("CXL_CACHE", <<ClassHeader, layout>>, <<first, values>>, data, n)
  BY <1>1 DEF CachePacket
<1>4. p.heads = [i \in DOMAIN <<ClassHeader, layout>> |-> Filled(<<ClassHeader, layout>>[i], <<first, values>>[i])]
  BY <1>3 DEF Made
<1>5. p.heads[2] = Filled(layout, values)
  BY <1>4
<1>6. Filled(layout, values)[f] = Kept(values[f], layout[f])
  BY <1>1, <1>2, FilledField
<1> QED
  BY <1>1, <1>2, <1>5, <1>6

LEMMA MemField ==
  ASSUME NEW class, NEW a, NEW data, NEW f \in DOMAIN a, f # "valid", f \in DOMAIN MemHeaders[class]
  PROVE MemPacket(class, a, data).heads[2][f] =
          Kept(IF f = "addr" THEN a.addr \div 64 ELSE a[f], MemHeaders[class][f])
<1>1. PICK layout, values, first, p :
        /\ layout = MemHeaders[class] /\ values = Lined(IF class = "S2M_DRS" THEN 0 ELSE 1, a)
        /\ first = [msg_class |-> MemClass[class]] /\ p = MemPacket(class, a, data)
  OBVIOUS
<1>2. f \in DOMAIN values /\ values[f] = IF f = "addr" THEN a.addr \div 64 ELSE a[f]
  BY <1>1, LinedField
<1>3. PICK n : p = Made("CXL_MEM", <<ClassHeader, layout>>, <<first, values>>, data, n)
  BY <1>1 DEF MemPacket
<1>4. p.heads = [i \in DOMAIN <<ClassHeader, layout>> |-> Filled(<<ClassHeader, layout>>[i], <<first, values>>[i])]
  BY <1>3 DEF Made
<1>5. p.heads[2] = Filled(layout, values)
  BY <1>4
<1>6. Filled(layout, values)[f] = Kept(values[f], layout[f])
  BY <1>1, <1>2, FilledField
<1> QED
  BY <1>1, <1>2, <1>5, <1>6

LEMMA LineBack == ASSUME NEW addr, IsLine(addr) PROVE (addr \div 64) * 64 = addr
BY DEF IsLine

LEMMA D2HReqFits ==
  ASSUME NEW addr, IsLine(addr), NEW id, In4Bits(id), NEW op, In5Bits(op),
         NEW cqid, IsTag(cqid)
  PROVE LET p == D2HReq(addr, id, op, cqid) IN
        /\ LineAddress(p) = addr /\ p.heads[2].cache_id = id /\ p.heads[2].cache_opcode = op
        /\ p.heads[2].cqid = cqid
<1> DEFINE a == [addr |-> addr, cache_id |-> id, cache_opcode |-> op, cqid |-> cqid]
           p == D2HReq(addr, id, op, cqid)
<1>1. p = CachePacket("D2H_REQ", a, 0) /\ CacheHeaders["D2H_REQ"] = D2HReqHeader
  BY DEF D2HReq, CacheHeaders
<1>2. /\ DOMAIN a = {"addr", "cache_id", "cache_opcode", "cqid"}
      /\ a.addr = addr /\ a.cache_id = id /\ a.cache_opcode = op /\ a.cqid = cqid
  OBVIOUS
<1>3. /\ DOMAIN a \subseteq DOMAIN D2HReqHeader
      /\ D2HReqHeader.addr = 46 /\ D2HReqHeader.cache_id = 4 /\ D2HReqHeader.cache_opcode = 5 /\ D2HReqHeader.cqid = 12
  BY DEF D2HReqHeader
<1> HIDE DEF a, p
<1>4. \A f \in DOMAIN a : f # "valid" => p.heads[2][f] = Kept(IF f = "addr" THEN a.addr \div 64 ELSE a[f], D2HReqHeader[f])
  BY <1>1, <1>3, CacheField
<1>5. p.heads[2].addr = Kept(addr \div 64, 46)
  BY <1>2, <1>3, <1>4
<1>6. LineAddress(p) = addr
  BY <1>5, KeptWide, LineBack DEF LineAddress
<1>7. p.heads[2].cache_id = Kept(id, 4)
  BY <1>2, <1>3, <1>4
<1>8. p.heads[2].cache_id = id
  BY <1>7, Kept4
<1>9. p.heads[2].cache_opcode = Kept(op, 5)
  BY <1>2, <1>3, <1>4
<1>10. p.heads[2].cache_opcode = op
  BY <1>9, Kept5
<1>11. p.heads[2].cqid = Kept(cqid, 12)
  BY <1>2, <1>3, <1>4
<1>12. p.heads[2].cqid = cqid
  BY <1>11, Kept12
<1> QED
  BY <1>6, <1>8, <1>10, <1>12 DEF p

LEMMA D2HRspFits ==
  ASSUME NEW uqid, IsTag(uqid), NEW op, In5Bits(op)
  PROVE LET p == D2HRsp(uqid, op) IN
        /\ p.heads[2].uqid = uqid /\ p.heads[2].cache_opcode = op
<1> DEFINE a == [uqid |-> uqid, cache_opcode |-> op]
           p == D2HRsp(uqid, op)
<1>1. p = CachePacket("D2H_RSP", a, 0) /\ CacheHeaders["D2H_RSP"] = D2HRspHeader
  BY DEF D2HRsp, CacheHeaders
<1>2. /\ DOMAIN a = {"uqid", "cache_opcode"}
      /\ a.uqid = uqid /\ a.cache_opcode = op
  OBVIOUS
<1>3. /\ DOMAIN a \subseteq DOMAIN D2HRspHeader
      /\ D2HRspHeader.uqid = 12 /\ D2HRspHeader.cache_opcode = 5
  BY DEF D2HRspHeader
<1> HIDE DEF a, p
<1>4. \A f \in DOMAIN a : f # "valid" => p.heads[2][f] = Kept(IF f = "addr" THEN a.addr \div 64 ELSE a[f], D2HRspHeader[f])
  BY <1>1, <1>3, CacheField
<1>5. p.heads[2].uqid = Kept(uqid, 12)
  BY <1>2, <1>3, <1>4
<1>6. p.heads[2].uqid = uqid
  BY <1>5, Kept12
<1>7. p.heads[2].cache_opcode = Kept(op, 5)
  BY <1>2, <1>3, <1>4
<1>8. p.heads[2].cache_opcode = op
  BY <1>7, Kept5
<1> QED
  BY <1>6, <1>8 DEF p

LEMMA D2HDataFits ==
  ASSUME NEW uqid, IsTag(uqid), NEW data
  PROVE LET p == D2HData(uqid, data) IN
        p.heads[2].uqid = uqid
<1> DEFINE a == [uqid |-> uqid]
           p == D2HData(uqid, data)
<1>1. p = CachePacket("D2H_DATA", a, data) /\ CacheHeaders["D2H_DATA"] = D2HDataHeader
  BY DEF D2HData, CacheHeaders
<1>2. /\ DOMAIN a = {"uqid"}
      /\ a.uqid = uqid
  OBVIOUS
<1>3. /\ DOMAIN a \subseteq DOMAIN D2HDataHeader
      /\ D2HDataHeader.uqid = 12
  BY DEF D2HDataHeader
<1> HIDE DEF a, p
<1>4. \A f \in DOMAIN a : f # "valid" => p.heads[2][f] = Kept(IF f = "addr" THEN a.addr \div 64 ELSE a[f], D2HDataHeader[f])
  BY <1>1, <1>3, CacheField
<1>5. p.heads[2].uqid = Kept(uqid, 12)
  BY <1>2, <1>3, <1>4
<1>6. p.heads[2].uqid = uqid
  BY <1>5, Kept12
<1> QED
  BY <1>6 DEF p

LEMMA H2DReqFits ==
  ASSUME NEW addr, IsLine(addr), NEW id, In4Bits(id), NEW op, In3Bits(op)
  PROVE LET p == H2DReq(addr, id, op) IN
        /\ LineAddress(p) = addr /\ p.heads[2].cache_id = id /\ p.heads[2].cache_opcode = op
<1> DEFINE a == [addr |-> addr, cache_id |-> id, cache_opcode |-> op]
           p == H2DReq(addr, id, op)
<1>1. p = CachePacket("H2D_REQ", a, 0) /\ CacheHeaders["H2D_REQ"] = H2DReqHeader
  BY DEF H2DReq, CacheHeaders
<1>2. /\ DOMAIN a = {"addr", "cache_id", "cache_opcode"}
      /\ a.addr = addr /\ a.cache_id = id /\ a.cache_opcode = op
  OBVIOUS
<1>3. /\ DOMAIN a \subseteq DOMAIN H2DReqHeader
      /\ H2DReqHeader.addr = 46 /\ H2DReqHeader.cache_id = 4 /\ H2DReqHeader.cache_opcode = 3
  BY DEF H2DReqHeader
<1> HIDE DEF a, p
<1>4. \A f \in DOMAIN a : f # "valid" => p.heads[2][f] = Kept(IF f = "addr" THEN a.addr \div 64 ELSE a[f], H2DReqHeader[f])
  BY <1>1, <1>3, CacheField
<1>5. p.heads[2].addr = Kept(addr \div 64, 46)
  BY <1>2, <1>3, <1>4
<1>6. LineAddress(p) = addr
  BY <1>5, KeptWide, LineBack DEF LineAddress
<1>7. p.heads[2].cache_id = Kept(id, 4)
  BY <1>2, <1>3, <1>4
<1>8. p.heads[2].cache_id = id
  BY <1>7, Kept4
<1>9. p.heads[2].cache_opcode = Kept(op, 3)
  BY <1>2, <1>3, <1>4
<1>10. p.heads[2].cache_opcode = op
  BY <1>9, Kept3
<1> QED
  BY <1>6, <1>8, <1>10 DEF p

LEMMA H2DRspFits ==
  ASSUME NEW id, In4Bits(id), NEW op, In4Bits(op), NEW state, IsTag(state),
         NEW cqid, IsTag(cqid)
  PROVE LET p == H2DRsp(id, op, state, cqid) IN
        /\ p.heads[2].cache_id = id /\ p.heads[2].cache_opcode = op /\ p.heads[2].rsp_data = state
        /\ p.heads[2].cqid = cqid
<1> DEFINE a == [cache_id |-> id, cache_opcode |-> op, rsp_data |-> state, cqid |-> cqid]
           p == H2DRsp(id, op, state, cqid)
<1>1. p = CachePacket("H2D_RSP", a, 0) /\ CacheHeaders["H2D_RSP"] = H2DRspHeader
  BY DEF H2DRsp, CacheHeaders
<1>2. /\ DOMAIN a = {"cache_id", "cache_opcode", "rsp_data", "cqid"}
      /\ a.cache_id = id /\ a.cache_opcode = op /\ a.rsp_data = state /\ a.cqid = cqid
  OBVIOUS
<1>3. /\ DOMAIN a \subseteq DOMAIN H2DRspHeader
      /\ H2DRspHeader.cache_id = 4 /\ H2DRspHeader.cache_opcode = 4 /\ H2DRspHeader.rsp_data = 12 /\ H2DRspHeader.cqid = 12
  BY DEF H2DRspHeader
<1> HIDE DEF a, p
<1>4. \A f \in DOMAIN a : f # "valid" => p.heads[2][f] = Kept(IF f = "addr" THEN a.addr \div 64 ELSE a[f], H2DRspHeader[f])
  BY <1>1, <1>3, CacheField
<1>5. p.heads[2].cache_id = Kept(id, 4)
  BY <1>2, <1>3, <1>4
<1>6. p.heads[2].cache_id = id
  BY <1>5, Kept4
<1>7. p.heads[2].cache_opcode = Kept(op, 4)
  BY <1>2, <1>3, <1>4
<1>8. p.heads[2].cache_opcode = op
  BY <1>7, Kept4
<1>9. p.heads[2].rsp_data = Kept(state, 12)
  BY <1>2, <1>3, <1>4
<1>10. p.heads[2].rsp_data = state
  BY <1>9, Kept12
<1>11. p.heads[2].cqid = Kept(cqid, 12)
  BY <1>2, <1>3, <1>4
<1>12. p.heads[2].cqid = cqid
  BY <1>11, Kept12
<1> QED
  BY <1>6, <1>8, <1>10, <1>12 DEF p

LEMMA H2DDataFits ==
  ASSUME NEW id, In4Bits(id), NEW cqid, IsTag(cqid), NEW data
  PROVE LET p == H2DData(id, data, cqid) IN
        /\ p.heads[2].cache_id = id /\ p.heads[2].cqid = cqid
<1> DEFINE a == [cache_id |-> id, cqid |-> cqid]
           p == H2DData(id, data, cqid)
<1>1. p = CachePacket("H2D_DATA", a, data) /\ CacheHeaders["H2D_DATA"] = H2DDataHeader
  BY DEF H2DData, CacheHeaders
<1>2. /\ DOMAIN a = {"cache_id", "cqid"}
      /\ a.cache_id = id /\ a.cqid = cqid
  OBVIOUS
<1>3. /\ DOMAIN a \subseteq DOMAIN H2DDataHeader
      /\ H2DDataHeader.cache_id = 4 /\ H2DDataHeader.cqid = 12
  BY DEF H2DDataHeader
<1> HIDE DEF a, p
<1>4. \A f \in DOMAIN a : f # "valid" => p.heads[2][f] = Kept(IF f = "addr" THEN a.addr \div 64 ELSE a[f], H2DDataHeader[f])
  BY <1>1, <1>3, CacheField
<1>5. p.heads[2].cache_id = Kept(id, 4)
  BY <1>2, <1>3, <1>4
<1>6. p.heads[2].cache_id = id
  BY <1>5, Kept4
<1>7. p.heads[2].cqid = Kept(cqid, 12)
  BY <1>2, <1>3, <1>4
<1>8. p.heads[2].cqid = cqid
  BY <1>7, Kept12
<1> QED
  BY <1>6, <1>8 DEF p

LEMMA MemRdReqFits ==
  ASSUME NEW addr, IsLine(addr), NEW op, In4Bits(op), NEW field, In2Bits(field),
         NEW v, In2Bits(v), NEW snp, In3Bits(snp), NEW id, In4Bits(id)
  PROVE LET p == MemRdReq(addr, op, field, v, snp, id) IN
        /\ LineAddress(p) = addr /\ p.heads[2].mem_opcode = op /\ p.heads[2].meta_field = field
        /\ p.heads[2].meta_value = v /\ p.heads[2].snp_type = snp /\ p.heads[2].ld_id = id
<1> DEFINE a == [addr |-> addr, mem_opcode |-> op, meta_field |-> field, meta_value |-> v, snp_type |-> snp, ld_id |-> id]
           p == MemRdReq(addr, op, field, v, snp, id)
<1>1. p = MemPacket("M2S_REQ", a, 0) /\ MemHeaders["M2S_REQ"] = M2SReqHeader
  BY DEF MemRdReq, MemHeaders
<1>2. /\ DOMAIN a = {"addr", "mem_opcode", "meta_field", "meta_value", "snp_type", "ld_id"}
      /\ a.addr = addr /\ a.mem_opcode = op /\ a.meta_field = field /\ a.meta_value = v /\ a.snp_type = snp /\ a.ld_id = id
  OBVIOUS
<1>3. /\ DOMAIN a \subseteq DOMAIN M2SReqHeader
      /\ M2SReqHeader.addr = 46 /\ M2SReqHeader.mem_opcode = 4 /\ M2SReqHeader.meta_field = 2 /\ M2SReqHeader.meta_value = 2 /\ M2SReqHeader.snp_type = 3 /\ M2SReqHeader.ld_id = 4
  BY DEF M2SReqHeader
<1> HIDE DEF a, p
<1>4. \A f \in DOMAIN a : f # "valid" => p.heads[2][f] = Kept(IF f = "addr" THEN a.addr \div 64 ELSE a[f], M2SReqHeader[f])
  BY <1>1, <1>3, MemField
<1>5. p.heads[2].addr = Kept(addr \div 64, 46)
  BY <1>2, <1>3, <1>4
<1>6. LineAddress(p) = addr
  BY <1>5, KeptWide, LineBack DEF LineAddress
<1>7. p.heads[2].mem_opcode = Kept(op, 4)
  BY <1>2, <1>3, <1>4
<1>8. p.heads[2].mem_opcode = op
  BY <1>7, Kept4
<1>9. p.heads[2].meta_field = Kept(field, 2)
  BY <1>2, <1>3, <1>4
<1>10. p.heads[2].meta_field = field
  BY <1>9, Kept2
<1>11. p.heads[2].meta_value = Kept(v, 2)
  BY <1>2, <1>3, <1>4
<1>12. p.heads[2].meta_value = v
  BY <1>11, Kept2
<1>13. p.heads[2].snp_type = Kept(snp, 3)
  BY <1>2, <1>3, <1>4
<1>14. p.heads[2].snp_type = snp
  BY <1>13, Kept3
<1>15. p.heads[2].ld_id = Kept(id, 4)
  BY <1>2, <1>3, <1>4
<1>16. p.heads[2].ld_id = id
  BY <1>15, Kept4
<1> QED
  BY <1>6, <1>8, <1>10, <1>12, <1>14, <1>16 DEF p

LEMMA MemWrReqFits ==
  ASSUME NEW addr, IsLine(addr), NEW op, In4Bits(op), NEW field, In2Bits(field),
         NEW v, In2Bits(v), NEW snp, In3Bits(snp), NEW id, In4Bits(id), NEW data
  PROVE LET p == MemWrReq(addr, data, op, field, v, snp, id) IN
        /\ LineAddress(p) = addr /\ p.heads[2].mem_opcode = op /\ p.heads[2].meta_field = field
        /\ p.heads[2].meta_value = v /\ p.heads[2].snp_type = snp /\ p.heads[2].ld_id = id
<1> DEFINE a == [addr |-> addr, mem_opcode |-> op, meta_field |-> field, meta_value |-> v, snp_type |-> snp, ld_id |-> id]
           p == MemWrReq(addr, data, op, field, v, snp, id)
<1>1. p = MemPacket("M2S_RWD", a, data) /\ MemHeaders["M2S_RWD"] = M2SRwDHeader
  BY DEF MemWrReq, MemHeaders
<1>2. /\ DOMAIN a = {"addr", "mem_opcode", "meta_field", "meta_value", "snp_type", "ld_id"}
      /\ a.addr = addr /\ a.mem_opcode = op /\ a.meta_field = field /\ a.meta_value = v /\ a.snp_type = snp /\ a.ld_id = id
  OBVIOUS
<1>3. /\ DOMAIN a \subseteq DOMAIN M2SRwDHeader
      /\ M2SRwDHeader.addr = 46 /\ M2SRwDHeader.mem_opcode = 4 /\ M2SRwDHeader.meta_field = 2 /\ M2SRwDHeader.meta_value = 2 /\ M2SRwDHeader.snp_type = 3 /\ M2SRwDHeader.ld_id = 4
  BY DEF M2SRwDHeader
<1> HIDE DEF a, p
<1>4. \A f \in DOMAIN a : f # "valid" => p.heads[2][f] = Kept(IF f = "addr" THEN a.addr \div 64 ELSE a[f], M2SRwDHeader[f])
  BY <1>1, <1>3, MemField
<1>5. p.heads[2].addr = Kept(addr \div 64, 46)
  BY <1>2, <1>3, <1>4
<1>6. LineAddress(p) = addr
  BY <1>5, KeptWide, LineBack DEF LineAddress
<1>7. p.heads[2].mem_opcode = Kept(op, 4)
  BY <1>2, <1>3, <1>4
<1>8. p.heads[2].mem_opcode = op
  BY <1>7, Kept4
<1>9. p.heads[2].meta_field = Kept(field, 2)
  BY <1>2, <1>3, <1>4
<1>10. p.heads[2].meta_field = field
  BY <1>9, Kept2
<1>11. p.heads[2].meta_value = Kept(v, 2)
  BY <1>2, <1>3, <1>4
<1>12. p.heads[2].meta_value = v
  BY <1>11, Kept2
<1>13. p.heads[2].snp_type = Kept(snp, 3)
  BY <1>2, <1>3, <1>4
<1>14. p.heads[2].snp_type = snp
  BY <1>13, Kept3
<1>15. p.heads[2].ld_id = Kept(id, 4)
  BY <1>2, <1>3, <1>4
<1>16. p.heads[2].ld_id = id
  BY <1>15, Kept4
<1> QED
  BY <1>6, <1>8, <1>10, <1>12, <1>14, <1>16 DEF p

LEMMA BIRspFits ==
  ASSUME NEW op, In4Bits(op), NEW id, IsTag(id), NEW bi_tag, IsTag(bi_tag)
  PROVE LET p == BIRsp(op, id, bi_tag) IN
        /\ p.heads[2].opcode = op /\ p.heads[2].bi_id = id /\ p.heads[2].bi_tag = bi_tag
<1> DEFINE a == [opcode |-> op, bi_id |-> id, bi_tag |-> bi_tag]
           p == BIRsp(op, id, bi_tag)
<1>1. p = MemPacket("M2S_BIRSP", a, 0) /\ MemHeaders["M2S_BIRSP"] = M2SBIRspHeader
  BY DEF BIRsp, MemHeaders
<1>2. /\ DOMAIN a = {"opcode", "bi_id", "bi_tag"}
      /\ a.opcode = op /\ a.bi_id = id /\ a.bi_tag = bi_tag
  OBVIOUS
<1>3. /\ DOMAIN a \subseteq DOMAIN M2SBIRspHeader
      /\ M2SBIRspHeader.opcode = 4 /\ M2SBIRspHeader.bi_id = 12 /\ M2SBIRspHeader.bi_tag = 12
  BY DEF M2SBIRspHeader
<1> HIDE DEF a, p
<1>4. \A f \in DOMAIN a : f # "valid" => p.heads[2][f] = Kept(IF f = "addr" THEN a.addr \div 64 ELSE a[f], M2SBIRspHeader[f])
  BY <1>1, <1>3, MemField
<1>5. p.heads[2].opcode = Kept(op, 4)
  BY <1>2, <1>3, <1>4
<1>6. p.heads[2].opcode = op
  BY <1>5, Kept4
<1>7. p.heads[2].bi_id = Kept(id, 12)
  BY <1>2, <1>3, <1>4
<1>8. p.heads[2].bi_id = id
  BY <1>7, Kept12
<1>9. p.heads[2].bi_tag = Kept(bi_tag, 12)
  BY <1>2, <1>3, <1>4
<1>10. p.heads[2].bi_tag = bi_tag
  BY <1>9, Kept12
<1> QED
  BY <1>6, <1>8, <1>10 DEF p

LEMMA BISnpFits ==
  ASSUME NEW addr, IsLine(addr), NEW op, In4Bits(op), NEW id, IsTag(id), NEW n \in Nat
  PROVE LET p == BISnp(addr, op, id, n) IN
        /\ LineAddress(p) = addr /\ p.heads[2].opcode = op /\ p.heads[2].bi_id = id
        /\ p.heads[2].bi_tag = n % 4096
<1> DEFINE a == [addr |-> addr, opcode |-> op, bi_id |-> id, bi_tag |-> n % 4096]
           p == BISnp(addr, op, id, n)
<1>1. p = MemPacket("S2M_BISNP", a, 0) /\ MemHeaders["S2M_BISNP"] = S2MBISnpHeader
  BY DEF BISnp, MemHeaders
<1>2. /\ DOMAIN a = {"addr", "opcode", "bi_id", "bi_tag"}
      /\ a.addr = addr /\ a.opcode = op /\ a.bi_id = id /\ a.bi_tag = n % 4096
  OBVIOUS
<1>3. /\ DOMAIN a \subseteq DOMAIN S2MBISnpHeader
      /\ S2MBISnpHeader.addr = 46 /\ S2MBISnpHeader.opcode = 4 /\ S2MBISnpHeader.bi_id = 12 /\ S2MBISnpHeader.bi_tag = 12
  BY DEF S2MBISnpHeader
<1> HIDE DEF a, p
<1>4. \A f \in DOMAIN a : f # "valid" => p.heads[2][f] = Kept(IF f = "addr" THEN a.addr \div 64 ELSE a[f], S2MBISnpHeader[f])
  BY <1>1, <1>3, MemField
<1>5. p.heads[2].addr = Kept(addr \div 64, 46)
  BY <1>2, <1>3, <1>4
<1>6. LineAddress(p) = addr
  BY <1>5, KeptWide, LineBack DEF LineAddress
<1>7. p.heads[2].opcode = Kept(op, 4)
  BY <1>2, <1>3, <1>4
<1>8. p.heads[2].opcode = op
  BY <1>7, Kept4
<1>9. p.heads[2].bi_id = Kept(id, 12)
  BY <1>2, <1>3, <1>4
<1>10. p.heads[2].bi_id = id
  BY <1>9, Kept12
<1>11. p.heads[2].bi_tag = Kept(n % 4096, 12)
  BY <1>2, <1>3, <1>4
<1>12. p.heads[2].bi_tag = n % 4096
  BY <1>11, Kept12 DEF IsTag
<1> QED
  BY <1>6, <1>8, <1>10, <1>12 DEF p

LEMMA MemDataFits ==
  ASSUME NEW op, In3Bits(op), NEW field, In2Bits(field), NEW v, In2Bits(v), NEW id, In4Bits(id),
         NEW data
  PROVE LET p == MemData(data, op, field, v, id) IN
        /\ p.heads[2].opcode = op /\ p.heads[2].meta_field = field /\ p.heads[2].meta_value = v
        /\ p.heads[2].ld_id = id
<1> DEFINE a == [opcode |-> op, meta_field |-> field, meta_value |-> v, ld_id |-> id]
           p == MemData(data, op, field, v, id)
<1>1. p = MemPacket("S2M_DRS", a, data) /\ MemHeaders["S2M_DRS"] = S2MDRSHeader
  BY DEF MemData, MemHeaders
<1>2. /\ DOMAIN a = {"opcode", "meta_field", "meta_value", "ld_id"}
      /\ a.opcode = op /\ a.meta_field = field /\ a.meta_value = v /\ a.ld_id = id
  OBVIOUS
<1>3. /\ DOMAIN a \subseteq DOMAIN S2MDRSHeader
      /\ S2MDRSHeader.opcode = 3 /\ S2MDRSHeader.meta_field = 2 /\ S2MDRSHeader.meta_value = 2 /\ S2MDRSHeader.ld_id = 4
  BY DEF S2MDRSHeader
<1> HIDE DEF a, p
<1>4. \A f \in DOMAIN a : f # "valid" => p.heads[2][f] = Kept(IF f = "addr" THEN a.addr \div 64 ELSE a[f], S2MDRSHeader[f])
  BY <1>1, <1>3, MemField
<1>5. p.heads[2].opcode = Kept(op, 3)
  BY <1>2, <1>3, <1>4
<1>6. p.heads[2].opcode = op
  BY <1>5, Kept3
<1>7. p.heads[2].meta_field = Kept(field, 2)
  BY <1>2, <1>3, <1>4
<1>8. p.heads[2].meta_field = field
  BY <1>7, Kept2
<1>9. p.heads[2].meta_value = Kept(v, 2)
  BY <1>2, <1>3, <1>4
<1>10. p.heads[2].meta_value = v
  BY <1>9, Kept2
<1>11. p.heads[2].ld_id = Kept(id, 4)
  BY <1>2, <1>3, <1>4
<1>12. p.heads[2].ld_id = id
  BY <1>11, Kept4
<1> QED
  BY <1>6, <1>8, <1>10, <1>12 DEF p

LEMMA MemCmpFits ==
  ASSUME NEW op, In3Bits(op), NEW field, In2Bits(field), NEW v, In2Bits(v), NEW id, In4Bits(id)
  PROVE LET p == MemCmp(op, field, v, id) IN
        /\ p.heads[2].opcode = op /\ p.heads[2].meta_field = field /\ p.heads[2].meta_value = v
        /\ p.heads[2].ld_id = id
<1> DEFINE a == [opcode |-> op, meta_field |-> field, meta_value |-> v, ld_id |-> id]
           p == MemCmp(op, field, v, id)
<1>1. p = MemPacket("S2M_NDR", a, 0) /\ MemHeaders["S2M_NDR"] = S2MNDRHeader
  BY DEF MemCmp, MemHeaders
<1>2. /\ DOMAIN a = {"opcode", "meta_field", "meta_value", "ld_id"}
      /\ a.opcode = op /\ a.meta_field = field /\ a.meta_value = v /\ a.ld_id = id
  OBVIOUS
<1>3. /\ DOMAIN a \subseteq DOMAIN S2MNDRHeader
      /\ S2MNDRHeader.opcode = 3 /\ S2MNDRHeader.meta_field = 2 /\ S2MNDRHeader.meta_value = 2 /\ S2MNDRHeader.ld_id = 4
  BY DEF S2MNDRHeader
<1> HIDE DEF a, p
<1>4. \A f \in DOMAIN a : f # "valid" => p.heads[2][f] = Kept(IF f = "addr" THEN a.addr \div 64 ELSE a[f], S2MNDRHeader[f])
  BY <1>1, <1>3, MemField
<1>5. p.heads[2].opcode = Kept(op, 3)
  BY <1>2, <1>3, <1>4
<1>6. p.heads[2].opcode = op
  BY <1>5, Kept3
<1>7. p.heads[2].meta_field = Kept(field, 2)
  BY <1>2, <1>3, <1>4
<1>8. p.heads[2].meta_field = field
  BY <1>7, Kept2
<1>9. p.heads[2].meta_value = Kept(v, 2)
  BY <1>2, <1>3, <1>4
<1>10. p.heads[2].meta_value = v
  BY <1>9, Kept2
<1>11. p.heads[2].ld_id = Kept(id, 4)
  BY <1>2, <1>3, <1>4
<1>12. p.heads[2].ld_id = id
  BY <1>11, Kept4
<1> QED
  BY <1>6, <1>8, <1>10, <1>12 DEF p

----------------------------------------------------------------------------
LEMMA SmallPower ==
  ASSUME NEW i, NEW x, x = 2^i
  PROVE /\ i = 0 => x = 1
        /\ i = 1 => x = 2
        /\ i = 2 => x = 4
        /\ i = 3 => x = 8
        /\ i = 4 => x = 16
<1>1. 2^0 = 1 /\ 2^1 = 2 /\ 2^2 = 4 /\ 2^3 = 8 /\ 2^4 = 16
  OBVIOUS
<1>2. (i = 0 => x = 2^0) /\ (i = 1 => x = 2^1) /\ (i = 2 => x = 2^2) /\ (i = 3 => x = 2^3) /\ (i = 4 => x = 2^4)
  BY Zenon
<1> QED
  BY <1>1, <1>2

\* The powers of 2 by which bytes are shifted
LEMMA BytePower ==
  ASSUME NEW e, NEW x, x = 2^e
  PROVE /\ e = 0 => x = 1
        /\ e = 8 => x = 256
        /\ e = 16 => x = 65536
        /\ e = 24 => x = 16777216
<1>1. 2^0 = 1 /\ 2^8 = 256 /\ 2^16 = 65536 /\ 2^24 = 16777216
  OBVIOUS
<1>2. (e = 0 => x = 2^0) /\ (e = 8 => x = 2^8) /\ (e = 16 => x = 2^16) /\ (e = 24 => x = 2^24)
  BY Zenon
<1>3. (e = 0 => x = 1) /\ (e = 8 => x = 256)
  BY <1>1, <1>2
<1>4. (e = 16 => x = 65536) /\ (e = 24 => x = 16777216)
  BY <1>1, <1>2
<1> QED
  BY <1>3, <1>4

\* What CxlIoCfgReqPacket.fill accepts, and the bytes of a double word it then
\* enables: n of them behind offset o
IsSpan(addr, n) == addr \in Nat /\ addr < 4096 /\ n \in 1 .. 4 /\ (addr % 4) + n <= 4
IsPart(o, n) == o \in 0 .. 3 /\ n \in 1 .. 4 /\ o + n <= 4

\* The bytes that a configuration write enables, of those behind offset o: a bit per byte
EnablesBytes(o, n, be) ==
  <<o, n, be>> \in {<<0, 1, 1>>, <<0, 2, 3>>, <<0, 3, 7>>, <<0, 4, 15>>, <<1, 1, 2>>, <<1, 2, 6>>, <<1, 3, 14>>,
                    <<2, 1, 4>>, <<2, 2, 12>>, <<3, 1, 8>>}

LEMMA EnabledBits ==
  ASSUME NEW o, NEW n, NEW be, EnablesBytes(o, n, be)
  PROVE /\ o \in 0 .. 3 /\ n \in 1 .. 4 /\ be \in Nat /\ be < 16
        /\ be % 2 = 1 <=> o = 0
        /\ (be \div 2) % 2 = 1 <=> o <= 1 /\ 1 < o + n
        /\ (be \div 4) % 2 = 1 <=> o <= 2 /\ 2 < o + n
        /\ (be \div 8) % 2 = 1 <=> o <= 3 /\ 3 < o + n
<1>1. o \in 0 .. 3 /\ n \in 1 .. 4 /\ be \in Nat /\ be < 16
  BY DEF EnablesBytes
<1>2. be % 2 = 1 <=> o = 0
  BY DEF EnablesBytes
<1>3. (be \div 2) % 2 = 1 <=> o <= 1 /\ 1 < o + n
  BY DEF EnablesBytes
<1>4. (be \div 4) % 2 = 1 <=> o <= 2 /\ 2 < o + n
  BY DEF EnablesBytes
<1>5. (be \div 8) % 2 = 1 <=> o <= 3 /\ 3 < o + n
  BY DEF EnablesBytes
<1> QED
  BY <1>1, <1>2, <1>3, <1>4, <1>5

LEMMA EnabledBit ==
  ASSUME NEW o, NEW n, NEW be, EnablesBytes(o, n, be), NEW i \in 0 .. 3
  PROVE (be \div 2^i) % 2 = 1 <=> i \in o .. o + n - 1
<1>1. PICK z : z = 2^i
  OBVIOUS
<1>2. (i = 0 => z = 1) /\ (i = 1 => z = 2) /\ (i = 2 => z = 4) /\ (i = 3 => z = 8)
  BY <1>1, SmallPower
<1>3. o \in 0 .. 3 /\ n \in 1 .. 4 /\ be \in Nat
  BY EnabledBits
<1>4. i \in o .. o + n - 1 <=> o <= i /\ i < o + n
  BY <1>3
<1>5. CASE i = 0
  <2>1. be \div z = be
    BY <1>2, <1>3, <1>5
  <2> QED
    BY <1>1, <1>3, <1>4, <1>5, <2>1, EnabledBits
<1>6. CASE i = 1
  BY <1>1, <1>2, <1>4, <1>6, EnabledBits
<1>7. CASE i = 2
  BY <1>1, <1>2, <1>4, <1>7, EnabledBits
<1>8. CASE i = 3
  BY <1>1, <1>2, <1>4, <1>8, EnabledBits
<1> QED
  BY <1>5, <1>6, <1>7, <1>8

LEMMA ByteBits ==
  ASSUME NEW o, NEW n, IsPart(o, n)
  PROVE EnablesBytes(o, n, (2^n - 1) * 2^o)
<1>1. PICK x, y : x = 2^n /\ y = 2^o
  OBVIOUS
<1>2. (n = 1 => x = 2) /\ (n = 2 => x = 4) /\ (n = 3 => x = 8) /\ (n = 4 => x = 16)
  BY <1>1, SmallPower
<1>3. (o = 0 => y = 1) /\ (o = 1 => y = 2) /\ (o = 2 => y = 4) /\ (o = 3 => y = 8)
  BY <1>1, SmallPower
<1>4. PICK be : be = (x - 1) * y
  OBVIOUS
<1>5. ASSUME n = 1 PROVE EnablesBytes(o, n, be)
  <2>1. be = 1 * y
    BY <1>2, <1>4, <1>5
  <2>2. (o = 0 => be = 1) /\ (o = 1 => be = 2) /\ (o = 2 => be = 4) /\ (o = 3 => be = 8)
    BY <1>3, <2>1
  <2> QED
    BY <1>5, <2>2 DEF EnablesBytes, IsPart
<1>6. ASSUME n = 2 PROVE EnablesBytes(o, n, be)
  <2>1. be = 3 * y
    BY <1>2, <1>4, <1>6
  <2>2. (o = 0 => be = 3) /\ (o = 1 => be = 6) /\ (o = 2 => be = 12)
    BY <1>3, <2>1
  <2> QED
    BY <1>6, <2>2 DEF EnablesBytes, IsPart
<1>7. ASSUME n = 3 PROVE EnablesBytes(o, n, be)
  <2>1. be = 7 * y
    BY <1>2, <1>4, <1>7
  <2>2. (o = 0 => be = 7) /\ (o = 1 => be = 14)
    BY <1>3, <2>1
  <2> QED
    BY <1>7, <2>2 DEF EnablesBytes, IsPart
<1>8. ASSUME n = 4 PROVE EnablesBytes(o, n, be)
  <2>1. be = 15 * y
    BY <1>2, <1>4, <1>8
  <2>2. o = 0 => be = 15
    BY <1>3, <2>1
  <2> QED
    BY <1>8, <2>2 DEF EnablesBytes, IsPart
<1>9. be = (2^n - 1) * 2^o
  BY <1>1, <1>4, Zenon
<1>10. EnablesBytes(o, n, be)
  BY <1>5, <1>6, <1>7, <1>8 DEF IsPart
<1> QED
  BY <1>9, <1>10

\* The data of a write are shifted to the bytes it enables, and back.
LEMMA ShiftedBack ==
  ASSUME NEW o, NEW n, IsPart(o, n), NEW value, IsByte(value)
  PROVE (value * 2^(8 * o)) \div 2^(8 * o) = value
<1>1. PICK e, m : e = 8 * o /\ m = 2^e
  OBVIOUS
<1>2. e = 0 \/ e = 8 \/ e = 16 \/ e = 24
  BY <1>1 DEF IsPart
<1>3. (e = 0 => m = 1) /\ (e = 8 => m = 256) /\ (e = 16 => m = 65536) /\ (e = 24 => m = 16777216)
  BY <1>1, BytePower
<1>4. m = 1 \/ m = 256 \/ m = 65536 \/ m = 16777216
  BY <1>2, <1>3
<1>5. (value * m) \div m = value
  BY <1>4 DEF IsByte
<1> QED
  BY <1>1, <1>5

LEMMA ValueKept ==
  ASSUME NEW n \in 1 .. 4, NEW value, IsByte(value)
  PROVE Kept(value, 8 * n) = value
<1>1. PICK e : e = 8 * n
  OBVIOUS
<1>2. e = 8 \/ e = 16 \/ e = 24 \/ e = 32
  BY <1>1
<1>3. CASE e = 24
  <2>1. PICK m : m = 2^e
    OBVIOUS
  <2>2. m = 16777216
    BY <1>3, <2>1, BytePower
  <2>3. value % m = value
    BY <2>2 DEF IsByte
  <2> QED
    BY <1>1, <1>3, <2>1, <2>3 DEF Kept
<1>4. CASE e = 8
  BY <1>1, <1>4, Kept8
<1>5. CASE e = 16
  <2>1. IsWord(value)
    BY DEF IsByte, IsWord
  <2> QED
    BY <1>1, <1>5, <2>1, Kept16
<1>6. CASE e = 32
  BY <1>1, <1>6, KeptWide
<1> QED
  BY <1>2, <1>3, <1>4, <1>5, <1>6

LEMMA Swapped ==
  ASSUME NEW n, IsWord(n)
  PROVE IsWord(Swap16(n)) /\ Swap16(Swap16(n)) = n
<1>1. PICK hi, lo : hi = n \div 256 /\ lo = n % 256
  OBVIOUS
<1>2. hi \in Nat /\ lo \in Nat /\ hi < 256 /\ lo < 256 /\ n = hi * 256 + lo
  BY <1>1 DEF IsWord
<1>3. (n \div 256) % 256 = hi /\ Swap16(n) = lo * 256 + hi
  BY <1>1, <1>2 DEF Swap16
<1>4. PICK m \in Nat : m = lo * 256 + hi
  BY <1>2
<1>5. m % 256 = hi /\ (m \div 256) % 256 = lo /\ m < 65536
  BY <1>2, <1>4
<1>6. Swap16(m) = n
  BY <1>2, <1>5 DEF Swap16
<1> QED
  BY <1>3, <1>4, <1>5, <1>6 DEF IsWord

\* An id's bus, device and function
LEMMA IdParts ==
  ASSUME NEW id \in Nat, NEW u, NEW v, NEW w, u = id \div 256, v = (id \div 8) % 32, w = id % 8
  PROVE u * 256 + v * 8 + w = id
<1>1. PICK q : q = id \div 8
  OBVIOUS
<1>2. q \in Nat /\ w \in Nat /\ id = q * 8 + w /\ w < 8
  BY <1>1
<1>3. PICK s : s = q \div 32
  OBVIOUS
<1>4. v = q % 32
  BY <1>1, Zenon
<1>5. s \in Nat /\ v \in Nat /\ q = s * 32 + v /\ v < 32
  BY <1>2, <1>3, <1>4
<1>6. id = s * 256 + (v * 8 + w) /\ v * 8 + w < 256
  BY <1>2, <1>5
<1>7. u = s
  BY <1>2, <1>5, <1>6
<1> QED
  BY <1>2, <1>5, <1>6, <1>7

LEMMA ByFour ==
  ASSUME NEW n \in Nat, NEW q, NEW r, q = n \div 4, r = n % 4
  PROVE q \in Nat /\ r \in Nat /\ r < 4 /\ n = q * 4 + r
OBVIOUS

\* A register is a double word, and two fields hold its number.
IsRegister(addr, u, v, w) == u = addr \div 256 /\ v = (addr \div 4) % 64 /\ w = addr % 4

LEMMA RegisterBack ==
  ASSUME NEW addr, NEW n, IsSpan(addr, n), NEW u, NEW v, NEW w, IsRegister(addr, u, v, w)
  PROVE u \in Nat /\ u < 16 /\ v \in Nat /\ IsPart(w, n) /\ (u * 64 + v) * 4 + w = addr
<1>1. addr \in Nat /\ addr < 4096 /\ w = addr % 4
  BY DEF IsSpan, IsRegister
<1>2. PICK q : q = addr \div 4
  OBVIOUS
<1>3. q \in Nat /\ w \in Nat /\ addr = q * 4 + w /\ w < 4
  BY <1>1, <1>2
<1>4. PICK s : s = q \div 64
  OBVIOUS
<1>5. v = q % 64
  BY <1>2 DEF IsRegister
<1>6. s \in Nat /\ v \in Nat /\ q = s * 64 + v /\ v < 64
  BY <1>3, <1>4, <1>5
<1>7. addr = s * 256 + (v * 4 + w) /\ v * 4 + w < 256
  BY <1>3, <1>6
<1>8. u = addr \div 256
  BY DEF IsRegister
<1>9. u = s /\ s < 16
  BY <1>1, <1>3, <1>6, <1>7, <1>8
<1>10. (s * 64 + v) * 4 + w = addr
  BY <1>3, <1>6
<1>11. IsPart(w, n)
  BY <1>1, <1>3 DEF IsSpan, IsPart
<1> QED
  BY <1>6, <1>9, <1>10, <1>11

LEMMA SmallestOf ==
  ASSUME NEW o \in Int, NEW n \in Int, n >= 1
  PROVE Min(o .. o + n - 1) = o /\ Cardinality(o .. o + n - 1) = n
<1>1. Min(o .. o + n - 1) = o
  <2>1. o \in o .. o + n - 1 /\ \A y \in o .. o + n - 1 : o <= y
    OBVIOUS
  <2>2. ASSUME NEW x \in o .. o + n - 1, \A y \in o .. o + n - 1 : x <= y
        PROVE x = o
    BY <2>1, <2>2
  <2> QED
    BY <2>1, <2>2 DEF Min
<1>2. Cardinality(o .. o + n - 1) = n
  <2>1. PICK b \in Int : b = o + n - 1
    OBVIOUS
  <2>2. Cardinality(o .. b) = b - o + 1
    BY <2>1, FS_Interval
  <2> QED
    BY <2>1, <2>2
<1> QED
  BY <1>1, <1>2

\* The headers of a CXL.io packet
LEMMA IoHeads ==
  ASSUME NEW layout, NEW first, NEW second, NEW third, NEW data, NEW n, NEW p,
         p = Made("CXL_IO", <<TlpPrefix, CxlIoHeader, layout>>, <<first, second, third>>, data, n)
  PROVE /\ p.data = data /\ p.heads[1] = Filled(TlpPrefix, first)
        /\ p.heads[2] = Filled(CxlIoHeader, second) /\ p.heads[3] = Filled(layout, third)
<1>1. p.data = data
  BY DEF Made
<1>2. p.heads = [i \in DOMAIN <<TlpPrefix, CxlIoHeader, layout>> |->
                   Filled(<<TlpPrefix, CxlIoHeader, layout>>[i], <<first, second, third>>[i])]
  BY DEF Made
<1> QED
  BY <1>1, <1>2

\* Who asks, which request it is, and which logical device is asked
LEMMA LdIdBack ==
  ASSUME NEW id, IsWord(id), NEW first, first = [ld_id |-> id], NEW p, p.heads[1] = Filled(TlpPrefix, first)
  PROVE LdId(p) = id
<1>1. first["ld_id"] = id /\ "ld_id" \in DOMAIN first /\ "ld_id" \in DOMAIN TlpPrefix /\ TlpPrefix["ld_id"] = 16
  BY DEF TlpPrefix
<1>2. p.heads[1].ld_id = Kept(id, 16)
  BY <1>1, FilledField
<1> QED
  BY <1>2, Kept16 DEF LdId

LEMMA RequesterBack ==
  ASSUME NEW id, IsWord(id), NEW t, IsByte(t), NEW p,
         p.heads[3].req_id = Kept(Swap16(id), 16), p.heads[3].tag = Kept(t % 256, 8)
  PROVE ReqId(p) = id /\ TagOf(p) = t
<1>1. IsWord(Swap16(id)) /\ Swap16(Swap16(id)) = id
  BY Swapped
<1>2. p.heads[3].req_id = Swap16(id)
  BY <1>1, Kept16
<1>3. t % 256 = t
  BY DEF IsByte
<1>4. p.heads[3].tag = t
  BY <1>3, Kept8
<1> QED
  BY <1>1, <1>2, <1>4 DEF ReqId, TagOf

\* A configuration write reads as it was written: the bytes, their address and
\* value, who it is for and whose it is (CxlIoCfgReqPacket.fill and its readers).
LEMMA CfgWrites ==
  ASSUME NEW a, NEW id, IsWord(id), NEW addr, NEW n, IsSpan(addr, n),
         NEW value, IsByte(value), NEW req_id, IsWord(req_id), NEW t, IsByte(t), NEW ld_id, IsWord(ld_id),
         /\ a.id = id /\ a.addr = addr /\ a.size = n /\ a.value = value
         /\ a.req_id = req_id /\ a.tag = t /\ a.ld_id = ld_id
  PROVE CfgRead(CfgWr(a), a)
<1>1. PICK fmt, p : fmt = (IF a.type0 THEN "CFG_WR0" ELSE "CFG_WR1") /\ p = CfgWr(a)
  OBVIOUS
<1>2. PICK o, be : o = addr % 4 /\ be = (2^n - 1) * 2^o
  OBVIOUS
<1>3. PICK dest, req, u, upper, lower :
        dest = Swap16(id) /\ req = Swap16(req_id) /\ u = t % 256 /\ upper = addr \div 256 /\ lower = addr \div 4
  OBVIOUS
<1>4. PICK third : third = [req_id |-> req, tag |-> u, first_dw_be |-> be, dest_id |-> dest,
                            ext_reg_num |-> upper, reg_num |-> lower]
  OBVIOUS
<1>5. PICK first, second : first = [ld_id |-> ld_id] /\ second = [fmt_type |-> FmtType[fmt], length_lower |-> 1]
  OBVIOUS
<1>6. PICK data : data = value * 2^(8 * o)
  OBVIOUS
<1>7. CfgReqValues(fmt, a) = <<first, second, third>>
  BY <1>2, <1>3, <1>4, <1>5 DEF CfgReqValues
<1>8. p = Made("CXL_IO", <<TlpPrefix, CxlIoHeader, CfgReqHeader>>, <<first, second, third>>, data, 4)
  BY <1>1, <1>2, <1>6, <1>7 DEF CfgWr, CfgReq
<1>9. p.data = data /\ p.heads[1] = Filled(TlpPrefix, first) /\ p.heads[3] = Filled(CfgReqHeader, third)
  BY <1>8, IoHeads
<1>10. \A f \in DOMAIN third : f \in DOMAIN CfgReqHeader => p.heads[3][f] = Kept(third[f], CfgReqHeader[f])
  BY <1>9, FilledField
<1>11. /\ p.heads[3].req_id = Kept(req, 16) /\ p.heads[3].tag = Kept(u, 8)
       /\ p.heads[3].first_dw_be = Kept(be, 4) /\ p.heads[3].dest_id = Kept(dest, 16)
       /\ p.heads[3].ext_reg_num = Kept(upper, 4) /\ p.heads[3].reg_num = Kept(lower, 6)
  BY <1>4, <1>10 DEF CfgReqHeader
<1>12. LdId(p) = ld_id /\ ReqId(p) = req_id /\ TagOf(p) = t
  BY <1>3, <1>5, <1>9, <1>11, LdIdBack, RequesterBack
<1>13. DestId(p) = id /\ id \in Nat
  BY <1>3, <1>11, Swapped, Kept16 DEF DestId, IsWord
<1>14. BusOf(p) * 256 + DeviceOf(p) * 8 + FunctionOf(p) = id
  <2>1. PICK v, w, x : v = BusOf(p) /\ w = DeviceOf(p) /\ x = FunctionOf(p)
    OBVIOUS
  <2>2. v = id \div 256 /\ w = (id \div 8) % 32 /\ x = id % 8
    BY <1>13, <2>1 DEF BusOf, DeviceOf, FunctionOf
  <2> QED
    BY <1>13, <2>1, <2>2, IdParts
<1>15. PICK low : low = lower % 64
  OBVIOUS
<1>16. upper \in Nat /\ upper < 16 /\ low \in Nat /\ IsPart(o, n) /\ (upper * 64 + low) * 4 + o = addr
  <2>1. IsRegister(addr, upper, low, o)
    BY <1>2, <1>3, <1>15, Zenon DEF IsRegister
  <2> QED
    BY <2>1, RegisterBack
<1>17. EnablesBytes(o, n, be)
  <2>1. EnablesBytes(o, n, (2^n - 1) * 2^o)
    BY <1>16, ByteBits, Zenon
  <2> QED
    BY <1>2, <2>1, Zenon
<1>18. p.heads[3].first_dw_be = be
  BY <1>11, <1>17, EnabledBits, Kept4 DEF In4Bits
<1>19. Enabled(p) = o .. o + n - 1
  <2>1. \A i \in 0 .. 3 : (be \div 2^i) % 2 = 1 <=> i \in o .. o + n - 1
    BY <1>17, EnabledBit
  <2>2. o .. o + n - 1 \subseteq 0 .. 3
    BY <1>16 DEF IsPart
  <2> QED
    BY <1>18, <2>1, <2>2 DEF Enabled
<1>20. WriteInfo(p) = [addr |-> addr, size |-> n]
  <2>1. Min(Enabled(p)) = o /\ Cardinality(Enabled(p)) = n
    <3>1. o \in Int /\ n \in Int /\ n >= 1
      BY <1>16 DEF IsPart
    <3> QED
      BY <1>19, <3>1, SmallestOf, Zenon
  <2>2. lower \in Nat
    BY <1>3, ByFour DEF IsSpan
  <2>3. p.heads[3].reg_num = low
    BY <1>11, <1>15, <2>2, KeptLow
  <2>4. p.heads[3].ext_reg_num = upper
    BY <1>11, <1>16, Kept4 DEF In4Bits
  <2>5. Register(p) + o = addr
    BY <1>16, <2>3, <2>4 DEF Register
  <2> QED
    BY <2>1, <2>5 DEF WriteInfo
<1>21. CfgValue(p) = value
  <2>1. CfgValue(p) = Kept(data \div 2^(8 * o), 8 * n)
    BY <1>2, <1>9, <1>20 DEF CfgValue
  <2>2. (value * 2^(8 * o)) \div 2^(8 * o) = value
    BY <1>16, ShiftedBack, Zenon
  <2>3. data \div 2^(8 * o) = value
    BY <1>6, <2>2, Zenon
  <2>4. n \in 1 .. 4
    BY <1>16 DEF IsPart
  <2> QED
    BY <2>1, <2>3, <2>4, ValueKept
<1>22. CfgRead(p, a)
  BY <1>12, <1>13, <1>14, <1>20, <1>21 DEF CfgRead
<1> QED
  BY <1>1, <1>22

\* A span of memory whose double words fit the eight bits of their number that
\* are kept
IsRange(addr, length) == addr \in Nat /\ length \in Nat /\ 1 <= length /\ length <= 1017

LEMMA RangeDwords ==
  ASSUME NEW addr, NEW length, IsRange(addr, length), NEW x, x = addr % 4, NEW n, n = Dwords(addr, length)
  PROVE /\ x \in Nat /\ x < 4 /\ n \in Nat /\ n < 256
        /\ x + length <= n * 4 /\ n * 4 <= x + length + 3
<1>1. x \in Nat /\ x < 4
  BY DEF IsRange
<1>2. PICK m : m = x + length + 3
  OBVIOUS
<1>3. m \in Nat /\ m <= 1023
  BY <1>1, <1>2 DEF IsRange
<1>4. n = m \div 4
  BY <1>2, Zenon DEF Dwords
<1>5. n \in Nat /\ n * 4 <= m /\ m <= n * 4 + 3
  BY <1>3, <1>4
<1> QED
  BY <1>1, <1>2, <1>3, <1>5 DEF IsRange

IsAddress(addr, u, v, x) == addr \in Nat /\ u = addr \div 256 /\ v = (addr % 256) \div 4 /\ x = addr % 4

LEMMA RangeAddress ==
  ASSUME NEW addr, NEW u, NEW v, NEW x, IsAddress(addr, u, v, x)
  PROVE u \in Nat /\ v \in Nat /\ v < 64 /\ u * 256 + v * 4 + x = addr
<1>1. PICK r : r = addr % 256
  OBVIOUS
<1>2. addr \in Nat /\ u = addr \div 256 /\ x = addr % 4
  BY DEF IsAddress
<1>3. u \in Nat /\ r \in Nat /\ r < 256 /\ addr = u * 256 + r
  BY <1>1, <1>2
<1>4. v = r \div 4
  BY <1>1 DEF IsAddress
<1>5. PICK y : y = r % 4
  OBVIOUS
<1>6. v \in Nat /\ y \in Nat /\ y < 4 /\ r = v * 4 + y
  BY <1>3, <1>4, <1>5
<1>7. addr = (u * 64 + v) * 4 + y
  BY <1>3, <1>6
<1>8. x = y
  BY <1>2, <1>3, <1>6, <1>7
<1> QED
  BY <1>3, <1>6, <1>8

\* An MMIO request covers the bytes it was made for, and no double word more
\* (CxlIoMReqPacket.fill and get_address, get_data_size).
LEMMA MemRequests ==
  ASSUME NEW a, NEW addr, NEW length, IsRange(addr, length), NEW req_id, IsWord(req_id), NEW t, IsByte(t),
         NEW ld_id, IsWord(ld_id),
         a.addr = addr /\ a.length = length /\ a.req_id = req_id /\ a.tag = t /\ a.ld_id = ld_id,
         NEW fmt, NEW data, NEW k, NEW p, p = Made("CXL_IO", MReq, MReqValues(fmt, a), data, k)
  PROVE MemReadBack(p, a)
<1>1. PICK n, x, u, v : n = Dwords(addr, length) /\ x = addr % 4 /\ u = addr \div 256 /\ v = (addr % 256) \div 4
  OBVIOUS
<1>2. PICK req, w, high, low : req = Swap16(req_id) /\ w = t % 256 /\ high = (n % 1024) - (n % 256) /\ low = n % 256
  OBVIOUS
<1>3. PICK be, last :
        /\ be = (2^(IF length < 4 THEN length ELSE 4) - 1) * 2^x
        /\ last = IF n > 1 THEN 2^(x + length - 4 * (n - 1)) - 1 ELSE 0
  OBVIOUS
<1>4. PICK third : third = [req_id |-> req, tag |-> w, first_dw_be |-> be, last_dw_be |-> last,
                            addr_upper |-> u, addr_lower |-> v]
  OBVIOUS
<1>5. PICK first, second :
        first = [ld_id |-> ld_id] /\ second = [fmt_type |-> FmtType[fmt], length_upper |-> high, length_lower |-> low]
  OBVIOUS
<1>6. MReqValues(fmt, a) = <<first, second, third>>
  BY <1>1, <1>2, <1>3, <1>4, <1>5 DEF MReqValues
<1>7. p = Made("CXL_IO", <<TlpPrefix, CxlIoHeader, MReqHeader>>, <<first, second, third>>, data, k)
  BY <1>6, Zenon DEF MReq
<1>8. /\ p.heads[1] = Filled(TlpPrefix, first) /\ p.heads[2] = Filled(CxlIoHeader, second)
      /\ p.heads[3] = Filled(MReqHeader, third)
  BY <1>7, IoHeads
<1>9. /\ \A f \in DOMAIN third : f \in DOMAIN MReqHeader => p.heads[3][f] = Kept(third[f], MReqHeader[f])
      /\ \A f \in DOMAIN second : f \in DOMAIN CxlIoHeader => p.heads[2][f] = Kept(second[f], CxlIoHeader[f])
  BY <1>8, FilledField
<1>10. /\ p.heads[3].req_id = Kept(req, 16) /\ p.heads[3].tag = Kept(w, 8)
       /\ p.heads[3].addr_upper = Kept(u, 56) /\ p.heads[3].addr_lower = Kept(v, 6)
  BY <1>4, <1>9 DEF MReqHeader
<1>11. p.heads[2].length_upper = Kept(high, 2) /\ p.heads[2].length_lower = Kept(low, 8)
  BY <1>5, <1>9 DEF CxlIoHeader
<1>12. LdId(p) = ld_id /\ ReqId(p) = req_id /\ TagOf(p) = t
  BY <1>2, <1>5, <1>8, <1>10, LdIdBack, RequesterBack
<1>13. /\ x \in Nat /\ x < 4 /\ n \in Nat /\ n < 256
       /\ x + length <= n * 4 /\ n * 4 <= x + length + 3
  BY <1>1, RangeDwords
<1>14. GetDataSize(p) = n * 4
  <2>1. n % 1024 = n /\ n % 256 = n
    BY <1>13
  <2>2. high = 0 /\ low = n /\ IsByte(low)
    BY <1>2, <1>13, <2>1 DEF IsByte
  <2>3. p.heads[2].length_upper = 0 /\ p.heads[2].length_lower = n
    BY <1>11, <2>2, Kept2, Kept8 DEF In2Bits
  <2> QED
    BY <1>13, <2>3 DEF GetDataSize
<1>15. GetAddress(p) + x = addr /\ GetAddress(p) \in Nat
  <2>1. u \in Nat /\ v \in Nat /\ v < 64 /\ u * 256 + v * 4 + x = addr
    <3>1. IsAddress(addr, u, v, x)
      BY <1>1, Zenon DEF IsAddress, IsRange
    <3> QED
      BY <3>1, RangeAddress
  <2>2. p.heads[3].addr_upper = u
    BY <1>10, KeptWide
  <2>3. p.heads[3].addr_lower = v
    <3>1. v % 64 = v
      BY <2>1
    <3> QED
      BY <1>10, <2>1, <3>1, KeptLow
  <2> QED
    BY <2>1, <2>2, <2>3 DEF GetAddress
<1>16. /\ GetAddress(p) <= addr /\ addr + length <= GetAddress(p) + GetDataSize(p)
       /\ GetDataSize(p) < length + 7
  BY <1>13, <1>14, <1>15 DEF IsRange
<1> QED
  BY <1>12, <1>16 DEF MemReadBack

\* The arguments the program gives are in those ranges.
LEMMA CfgArgsFit == CfgFit
<1> SUFFICES ASSUME NEW a \in CfgArgs PROVE CfgRead(CfgWr(a), a)
  BY DEF CfgFit
<1>1. PICK id, addr, n, value, req_id, t, ld_id :
        /\ a.id = id /\ a.addr = addr /\ a.size = n /\ a.value = value
        /\ a.req_id = req_id /\ a.tag = t /\ a.ld_id = ld_id
  BY Zenon
<1>2. /\ id \in Ids /\ n \in 1 .. 4 /\ value \in {1, 127} /\ CfgLegal(a)
      /\ req_id \in {0, 65535} /\ t \in {0, 255} /\ ld_id \in {0, 15}
      /\ addr \in {0, 1, 2, 3, 62, 255, 256, 4092, 4095}
  BY <1>1 DEF CfgArgs
<1>3. IsWord(id)
  BY <1>2 DEF Ids, IsWord
<1>4. IsWord(req_id) /\ IsByte(t)
  BY <1>2 DEF IsWord, IsByte
<1>5. IsWord(ld_id) /\ IsByte(value)
  BY <1>2 DEF IsWord, IsByte
<1>6. IsSpan(addr, n)
  <2>1. addr \in Nat /\ addr < 4096
    BY <1>2
  <2>2. (addr % 4) + n <= 4
    BY <1>1, <1>2 DEF CfgLegal
  <2> QED
    BY <1>2, <2>1, <2>2 DEF IsSpan
<1> QED
  BY <1>1, <1>3, <1>4, <1>5, <1>6, CfgWrites

LEMMA MemArgsFit == MmioFit
<1> SUFFICES ASSUME NEW a \in MemArgs PROVE MemReadBack(MemRd(a), a) /\ MemReadBack(MemWr(a), a)
  BY DEF MmioFit
<1>1. PICK addr, length, req_id, t, ld_id :
        a.addr = addr /\ a.length = length /\ a.req_id = req_id /\ a.tag = t /\ a.ld_id = ld_id
  BY Zenon
<1>2. /\ addr \in {0, 1, 3, 252, 4093, 65540} /\ length \in 1 .. 9 \cup {64, 1000}
      /\ req_id \in {0, 65535} /\ t \in {0, 255} /\ ld_id \in {0, 15}
  BY <1>1 DEF MemArgs
<1>3. IsWord(req_id) /\ IsByte(t)
  BY <1>2 DEF IsWord, IsByte
<1>4. IsWord(ld_id)
  BY <1>2 DEF IsWord
<1>5. IsRange(addr, length)
  BY <1>2 DEF IsRange
<1>6. MemReadBack(MemRd(a), a)
  BY <1>1, <1>3, <1>4, <1>5, MemRequests DEF MemRd
<1>7. MemReadBack(MemWr(a), a)
  BY <1>1, <1>3, <1>4, <1>5, MemRequests DEF MemWr
<1> QED
  BY <1>6, <1>7

LEMMA LineArgs ==
  /\ \A addr \in Lines : IsLine(addr)
  /\ \A id \in {0, MaxId} : In4Bits(id) /\ IsTag(id)
  /\ \A field \in MetaFields : In2Bits(field)
  /\ \A v \in MetaValues : In2Bits(v)
  /\ \A snp \in SnpTypes : In3Bits(snp)
BY DEF Lines, MaxId, MetaFields, MetaValues, SnpTypes, IsTag, IsLine, In2Bits, In3Bits, In4Bits

\* Nothing is lost in a message of CXL.cache ...
LEMMA CacheArgsFit == CacheFit
<1>1. IsTag(4095) /\ IsTag(1) /\ In4Bits(MaxId)
  BY DEF MaxId, IsTag, In2Bits, In4Bits
<1>2. ASSUME NEW addr \in Lines, NEW id \in {0, MaxId}, NEW op \in D2HReqOpcodes
      PROVE LET p == D2HReq(addr, id, op, 4095) IN
            LineAddress(p) = addr /\ p.heads[2].cache_id = id /\ p.heads[2].cache_opcode = op
  <2>1. In5Bits(op)
    BY DEF D2HReqOpcodes, In5Bits
  <2>2. IsLine(addr) /\ In4Bits(id)
    BY LineArgs
  <2> QED
    BY <1>1, <2>1, <2>2, D2HReqFits
<1>3. ASSUME NEW addr \in Lines, NEW id \in {0, MaxId}, NEW op \in H2DReqOpcodes
      PROVE LET p == H2DReq(addr, id, op) IN
            LineAddress(p) = addr /\ p.heads[2].cache_id = id /\ p.heads[2].cache_opcode = op
  <2>1. In3Bits(op)
    BY DEF H2DReqOpcodes, In3Bits
  <2>2. IsLine(addr) /\ In4Bits(id)
    BY LineArgs
  <2> QED
    BY <2>1, <2>2, H2DReqFits
<1>4. ASSUME NEW op \in D2HRspOpcodes PROVE D2HRsp(1, op).heads[2].cache_opcode = op
  <2>1. In5Bits(op)
    BY DEF D2HRspOpcodes, In5Bits
  <2> QED
    BY <1>1, <2>1, D2HRspFits
<1>5. ASSUME NEW op \in H2DRspOpcodes, NEW state \in H2DRspStates
      PROVE LET p == H2DRsp(MaxId, op, state, 1) IN
            p.heads[2].cache_opcode = op /\ p.heads[2].rsp_data = state /\ p.heads[2].cache_id = MaxId
  <2>1. In4Bits(op) /\ IsTag(state)
    BY DEF H2DRspOpcodes, H2DRspStates, IsTag, In4Bits
  <2> QED
    BY <1>1, <2>1, H2DRspFits
<1>6. D2HData(4095, 1).heads[2].uqid = 4095 /\ H2DData(MaxId, 1, 4095).heads[2].cqid = 4095
  BY <1>1, D2HDataFits, H2DDataFits
<1> QED
  BY <1>2, <1>3, <1>4, <1>5, <1>6 DEF CacheFit

\* ... nor of CXL.mem.
LEMMA MemoryArgsFit == MemFit
<1>1. In2Bits(0) /\ In2Bits(2) /\ IsTag(1) /\ In4Bits(MaxId)
  BY DEF MaxId, IsTag, In2Bits, In4Bits
<1>2. ASSUME NEW addr \in Lines, NEW id \in {0, MaxId}, NEW op \in M2SReqOpcodes, NEW f \in MetaFields,
             NEW v \in MetaValues, NEW s \in SnpTypes
      PROVE LET p == MemRdReq(addr, op, f, v, s, id) IN
            /\ LineAddress(p) = addr /\ p.heads[2].mem_opcode = op /\ p.heads[2].ld_id = id
            /\ p.heads[2].meta_field = f /\ p.heads[2].meta_value = v /\ p.heads[2].snp_type = s
  <2>1. In4Bits(op)
    BY DEF M2SReqOpcodes, In4Bits
  <2>2. IsLine(addr) /\ In4Bits(id)
         /\ In2Bits(f) /\ In2Bits(v) /\ In3Bits(s)
    BY LineArgs
  <2> QED
    BY <2>1, <2>2, MemRdReqFits
<1>3. ASSUME NEW addr \in Lines, NEW id \in {0, MaxId}
      PROVE WritesFit(addr, id)
  <2>1. SUFFICES ASSUME NEW op \in M2SRwDOpcodes, NEW s \in SnpTypes, NEW p, p = MemWrReq(addr, 1, op, 0, 2, s, id)
                 PROVE LineAddress(p) = addr /\ p.heads[2].mem_opcode = op /\ p.heads[2].snp_type = s
    BY DEF WritesFit
  <2>2. In4Bits(op)
    BY DEF M2SRwDOpcodes, In4Bits
  <2>3. IsLine(addr) /\ In4Bits(id) /\ In3Bits(s)
    BY LineArgs
  <2> QED
    BY <1>1, <2>1, <2>2, <2>3, MemWrReqFits
<1>4. ASSUME NEW addr \in Lines, NEW id \in {0, MaxId}
      PROVE SnoopsFit(addr, id)
  <2>1. SUFFICES ASSUME NEW op \in BISnpOpcodes, NEW n \in {0, 4095, 4096}, NEW p, p = BISnp(addr, op, id, n)
                 PROVE /\ LineAddress(p) = addr /\ p.heads[2].opcode = op
                       /\ BIRsp(op, id, p.heads[2].bi_tag).heads[2].bi_tag = n % 4096
    BY DEF SnoopsFit
  <2>2. In4Bits(op) /\ n \in Nat
    BY DEF BISnpOpcodes, In4Bits
  <2>3. IsLine(addr) /\ IsTag(id)
    BY LineArgs
  <2>4. LineAddress(p) = addr /\ p.heads[2].opcode = op /\ p.heads[2].bi_tag = n % 4096
    BY <2>1, <2>2, <2>3, BISnpFits
  <2>5. PICK t : t = n % 4096
    OBVIOUS
  <2>6. IsTag(t)
    BY <2>2, <2>5 DEF IsTag
  <2>7. BIRsp(op, id, t).heads[2].bi_tag = t
    BY <2>2, <2>3, <2>6, BIRspFits
  <2> QED
    BY <2>4, <2>5, <2>7
<1>5. ASSUME NEW op \in BIRspOpcodes PROVE BIRsp(op, 1, 1).heads[2].opcode = op
  <2>1. In4Bits(op)
    BY DEF BIRspOpcodes, In4Bits
  <2> QED
    BY <1>1, <2>1, BIRspFits
<1>6. ASSUME NEW op \in NDROpcodes, NEW v \in MetaValues
      PROVE MemCmp(op, 0, v, MaxId).heads[2].opcode = op /\ MemCmp(op, 0, v, MaxId).heads[2].meta_value = v
  <2>1. In3Bits(op)
    BY DEF NDROpcodes, In3Bits
  <2>2. In2Bits(v)
    BY LineArgs
  <2> QED
    BY <1>1, <2>1, <2>2, MemCmpFits
<1>7. ASSUME NEW op \in DRSOpcodes PROVE MemData(1, op, 0, 2, MaxId).heads[2].opcode = op
  <2>1. In3Bits(op)
    BY DEF DRSOpcodes, In3Bits
  <2> QED
    BY <1>1, <2>1, MemDataFits
<1>8. ASSUME NEW addr \in Lines, NEW id \in {0, MaxId}
      PROVE ReadsFit(addr, id) /\ WritesFit(addr, id) /\ SnoopsFit(addr, id)
  <2>1. ReadsFit(addr, id)
    BY <1>2 DEF ReadsFit
  <2> QED
    BY <1>3, <1>4, <2>1
<1> QED
  BY <1>5, <1>6, <1>7, <1>8 DEF MemFit

\* What a receiver reads from a packet is what its sender put there (the layouts
\* of transaction.py, and the fill and get methods of its packets): fields are
\* wide enough, the bytes of an access are those that were asked for, and what
\* is shifted or swapped is shifted or swapped back.
THEOREM FieldsFitAlways == Spec => []FieldsFit
<1>1. FieldsFit
  BY CfgArgsFit, MemArgsFit, CacheArgsFit, MemoryArgsFit DEF FieldsFit
<1>2. [Next]_vars => FieldsFit'
  BY CfgArgsFit, MemArgsFit, CacheArgsFit, MemoryArgsFit DEF FieldsFit
<1> QED
  BY <1>1, <1>2, PTL DEF Spec
=============================================================================
