-------------------------- MODULE VppbBindingProofs --------------------------
(***************************************************************************)
(* Proofs about VppbBinding.                                               *)
(*                                                                         *)
(* For any switch, devices and commands of the fabric manager, careful or  *)
(* not, no request of a host reaches a logical device other than the one   *)
(* its vPPB was bound to when it was sent.  The invariant follows the      *)
(* request: it is in the queues of a connection made for the device it was *)
(* sent to (Good), and connections are never made for another.  Types go   *)
(* with it, since a command carries between its parts what the later parts *)
(* rely on (CmdOK).                                                        *)
(*                                                                         *)
(* While the fabric manager is careful, the tables of a binding agree      *)
(* between its commands, answers go to the host that asked, and no port's  *)
(* up routing fails.  Agree says what the tables have at every part of     *)
(* every command (Staged), and what makes a command go through: an end     *)
(* marker is in a queue for the command in hand alone (Marked), an unbind  *)
(* never finds its connection frozen (Running) nor a packet of its vPPB    *)
(* that it would lose (PacketsRight).                                      *)
(***************************************************************************)
EXTENDS VppbBinding, FiniteSetTheorems, TLAPS

\* Every request of the queue was meant for the device of the connection.
Directed(q, r) == \A i \in DOMAIN q : q[i] # Stop => q[i].to = [port |-> r.port, ld |-> r.ld]

\* A connection that was made has a port, and carries requests to it alone.
Good(r) ==
  /\ r \in Link
  /\ r.vppb # None => r.port \in Ports
  /\ Directed(r.vdown, r) /\ Directed(r.pdown, r)

LinkInv == link \in [Conns -> Link] /\ \A c \in Conns : Good(link[c])

\* The connection a vPPB puts its packets into was made.
VppbInv ==
  /\ vppb \in [Vppbs -> [ld : Lds, conn : Conns \cup {None}]]
  /\ \A v \in Vppbs : vppb[v].conn # None => link[vppb[v].conn].vppb # None

Changes == {"unbind", "freeze", "unfreeze"}

\* What a command has when it gets to its later parts
CmdOK ==
  /\ cmd \in [op : {"idle", "bind", "unbind", "freeze", "unfreeze"},
              at : {"idle", "start", "vppb", "slot", "ppb", "done"},
              vppb : Vppbs \cup {None}, port : Ports \cup {None}, ld : Lds,
              conn : Conns \cup {None}]
  /\ cmd.op # "idle" => cmd.vppb \in Vppbs
  /\ cmd.op = "bind" => cmd.port \in Ports
  /\ At("bind", "start") => Fresh <= MaxBinds
  /\ At("bind", "vppb") => cmd.conn \in Conns /\ link[cmd.conn].vppb # None
  /\ At("unbind", "ppb") => cmd.port \in Ports

TablesInv ==
  /\ slot \in [Vppbs -> [status : {"INIT", "BOUND", "UNBOUND"}, conn : Conns \cup {None}]]
  /\ portMap \in [Vppbs -> Ports \cup {None}]
  /\ ldMap \in [Vppbs -> Lds \cup {None}]
  /\ active \in SUBSET Vppbs
  /\ reader \in [Vppbs -> Conns \cup {None}]
  /\ mgr \in [Ports -> Dict(Conns)]
  /\ usc \in [Ports -> Dict(Conns)]

WireInv ==
  /\ down \in [Ports -> Seq(Wired)] /\ up \in [Ports -> Seq(Wired)]
  /\ upDead \in SUBSET Ports
  /\ OwnLd

CountInv ==
  /\ issued \in 0 .. MaxCommands
  /\ sent \in [Vppbs -> 0 .. MaxRequests]
  /\ careless \in BOOLEAN

Inv == LinkInv /\ VppbInv /\ CmdOK /\ TablesInv /\ WireInv /\ CountInv

\* No connection changes hands.
SameOwners == \A c \in Conns : link'[c].vppb = link[c].vppb

----------------------------------------------------------------------------
(* Dictionaries and connections.                                           *)

LEMMA WithDict ==
  ASSUME NEW S, NEW d \in Dict(S), NEW key \in Lds, NEW value \in S
  PROVE With(d, key, value) \in Dict(S)
<1>1. PICK K \in SUBSET Lds : d \in [K -> S]
  BY DEF Dict
<1>2. With(d, key, value) \in [K \cup {key} -> S]
  BY <1>1 DEF With
<1> QED
  BY <1>1, <1>2 DEF Dict

LEMMA WithoutDict ==
  ASSUME NEW S, NEW d \in Dict(S), NEW key
  PROVE Without(d, key) \in Dict(S)
<1>1. PICK K \in SUBSET Lds : d \in [K -> S]
  BY DEF Dict
<1>2. Without(d, key) \in [K \ {key} -> S]
  BY <1>1 DEF Without
<1> QED
  BY <1>1, <1>2 DEF Dict

LEMMA EntryOf ==
  ASSUME NEW S, NEW d \in Dict(S), NEW key \in DOMAIN d
  PROVE key \in Lds /\ d[key] \in S
BY DEF Dict

LEMMA FreshConn ==
  ASSUME Fresh <= MaxBinds
  PROVE Fresh \in Conns
<1>1. IsFiniteSet(Conns)
  BY BindingAssumption, FS_Interval DEF Conns
<1>2. Cardinality(Made) \in Nat
  BY <1>1, FS_Subset, FS_CardinalityType DEF Made
<1> QED
  BY <1>2, BindingAssumption DEF Fresh, Conns

\* What is appended to a queue or taken from it leaves the rest.
LEMMA DirectedAppend ==
  ASSUME NEW r, NEW q \in Queue, NEW item \in Requests \cup {Stop}, Directed(q, r),
         item # Stop => item.to = [port |-> r.port, ld |-> r.ld]
  PROVE Append(q, item) \in Queue /\ Directed(Append(q, item), r)
BY DEF Queue, Directed

LEMMA StopAppend ==
  ASSUME NEW q \in Queue
  PROVE Append(q, Stop) \in Queue
BY DEF Queue

LEMMA DirectedTail ==
  ASSUME NEW r, NEW q \in Queue, q # <<>>, Directed(q, r)
  PROVE /\ Tail(q) \in Queue /\ Directed(Tail(q), r) /\ Head(q) \in Requests \cup {Stop}
        /\ Head(q) # Stop => Head(q).to = [port |-> r.port, ld |-> r.ld]
BY DEF Queue, Directed

\* A new connection has no packets.
LEMMA OpenedGood ==
  ASSUME NEW v \in Vppbs, NEW p \in Ports, NEW l \in Lds
  PROVE Good(Opened(v, p, l)) /\ Opened(v, p, l).vppb = v
<1>1. <<>> \in Queue /\ 0 \in Lds
  BY BindingAssumption DEF Queue
<1>2. NoLink \in Link /\ NoLink.vdown = <<>> /\ NoLink.pdown = <<>>
  BY <1>1 DEF NoLink, Link
<1> DEFINE r == [NoLink EXCEPT !.vppb = v, !.port = p, !.ld = l, !.routing = "RUNNING"]
<1>3. /\ r \in Link /\ r.vppb = v /\ r.port = p
      /\ r.vdown = <<>> /\ r.pdown = <<>>
  BY <1>2 DEF Link
<1>4. Good(r)
  BY <1>3 DEF Good, Directed
<1> QED
  BY <1>3, <1>4 DEF Opened

\* A connection that is replaced by a good one of the same owner
LEMMA Relinked ==
  ASSUME LinkInv, NEW c \in Conns, NEW r, Good(r), r.vppb = link[c].vppb,
         link' = [link EXCEPT ![c] = r]
  PROVE LinkInv' /\ SameOwners
BY DEF LinkInv, SameOwners, Good, Link

LEMMA Unlinked ==
  ASSUME LinkInv, UNCHANGED link
  PROVE LinkInv' /\ SameOwners
BY DEF LinkInv, SameOwners

----------------------------------------------------------------------------
(* What the owners of the connections decide.                              *)

LEMMA SameMade == SameOwners => Made' = Made /\ Fresh' = Fresh
BY DEF SameOwners, Made, Fresh

LEMMA KeptVppb ==
  ASSUME VppbInv, SameOwners, UNCHANGED vppb
  PROVE VppbInv'
BY DEF VppbInv, SameOwners

LEMMA KeptCmd ==
  ASSUME CmdOK, SameOwners, UNCHANGED cmd
  PROVE CmdOK'
BY SameMade DEF CmdOK, SameOwners, At

LEMMA IdleCmd ==
  ASSUME Finish
  PROVE CmdOK'
BY BindingAssumption DEF CmdOK, Finish, Idle, At

LEMMA KeptTables ==
  ASSUME TablesInv, UNCHANGED tables
  PROVE TablesInv'
BY DEF TablesInv, tables

LEMMA KeptWires ==
  ASSUME WireInv, UNCHANGED wires
  PROVE WireInv'
BY DEF WireInv, OwnLd, wires

LEMMA KeptCounts ==
  ASSUME CountInv, UNCHANGED <<issued, sent, careless>>
  PROVE CountInv'
BY DEF CountInv

\* A step that moves packets alone
LEMMA Moved ==
  ASSUME Inv, LinkInv' /\ SameOwners, WireInv', UNCHANGED <<tables, fm, sent>>
  PROVE Inv'
<1>1. VppbInv'
  BY KeptVppb DEF Inv, tables
<1>2. CmdOK'
  BY KeptCmd DEF Inv, fm
<1>3. TablesInv' /\ CountInv'
  BY KeptTables, KeptCounts DEF Inv, fm
<1> QED
  BY <1>1, <1>2, <1>3 DEF Inv

----------------------------------------------------------------------------
(* Packets.                                                                *)

LEMMA HostSendKeeps ==
  ASSUME Inv, NEW v \in Vppbs, HostSend(v)
  PROVE Inv'
<1> DEFINE c == vppb[v].conn
           packet == [vppb |-> v, n |-> sent[v] + 1, to |-> [port |-> link[c].port, ld |-> link[c].ld]]
<1>1. LinkInv' /\ SameOwners
  <2>1. CASE UNCHANGED link
    BY <2>1, Unlinked DEF Inv
  <2>2. CASE link' = [link EXCEPT ![c].vdown = Append(link[c].vdown, packet)] /\ c # None
    <3>1. c \in Conns /\ Good(link[c]) /\ link[c].vppb # None
      BY <2>2 DEF Inv, VppbInv, LinkInv
    <3>2. link[c].port \in Ports /\ link[c].ld \in Lds /\ link[c].vdown \in Queue
      BY <3>1 DEF Good, Link
    <3>3. sent[v] + 1 \in 1 .. MaxRequests
      BY BindingAssumption DEF Inv, CountInv, HostSend
    <3>4. packet \in Requests
      BY <3>2, <3>3 DEF Requests, Targets
    <3>5. packet.to = [port |-> link[c].port, ld |-> link[c].ld]
      OBVIOUS
    <3> HIDE DEF c, packet
    <3> DEFINE q == Append(link[c].vdown, packet)
               r == [link[c] EXCEPT !.vdown = q]
    <3>6. q \in Queue /\ Directed(q, link[c])
      BY <3>1, <3>2, <3>4, <3>5, DirectedAppend DEF Good
    <3> HIDE DEF q
    <3>7. Good(r) /\ r.vppb = link[c].vppb
      BY <3>1, <3>6 DEF Good, Link, Directed
    <3>8. link' = [link EXCEPT ![c] = r]
      BY <2>2, <3>1 DEF Inv, LinkInv, q
    <3> QED
      BY <3>1, <3>7, <3>8, Relinked DEF Inv
  <2> QED
    BY <2>1, <2>2 DEF HostSend
<1>2. VppbInv' /\ CmdOK' /\ TablesInv' /\ WireInv'
  BY <1>1, KeptVppb, KeptCmd, KeptTables, KeptWires DEF Inv, HostSend, tables
<1>3. CountInv'
  BY BindingAssumption DEF Inv, CountInv, HostSend
<1> QED
  BY <1>1, <1>2, <1>3 DEF Inv

LEMMA BindDownKeeps ==
  ASSUME Inv, NEW c \in Conns, BindDown(c)
  PROVE Inv'
<1> DEFINE item == Head(link[c].vdown)
           rest == Tail(link[c].vdown)
           joined == IF item = Stop THEN link[c].joined \ {"down"} ELSE link[c].joined
           next == IF item = Stop THEN link[c].pdown ELSE Append(link[c].pdown, item)
           r == [link[c] EXCEPT !.vdown = rest, !.joined = joined, !.pdown = next]
<1>1. Good(link[c]) /\ link[c].vdown \in Queue /\ link[c].pdown \in Queue /\ link[c].vdown # <<>>
  BY DEF Inv, LinkInv, Good, Link, BindDown
<1>2. /\ rest \in Queue /\ Directed(rest, link[c]) /\ item \in Requests \cup {Stop}
      /\ item # Stop => item.to = [port |-> link[c].port, ld |-> link[c].ld]
  BY <1>1, DirectedTail DEF Good
<1>3. next \in Queue /\ Directed(next, link[c])
  BY <1>1, <1>2, DirectedAppend DEF Good
<1>4. joined \in SUBSET {"down", "up"}
  BY <1>1 DEF Good, Link
<1>5. link' = [link EXCEPT ![c].vdown = rest, ![c].joined = joined, ![c].pdown = next]
  BY DEF BindDown
<1> HIDE DEF rest, next, joined
<1>6. Good(r) /\ r.vppb = link[c].vppb
  BY <1>1, <1>2, <1>3, <1>4 DEF Good, Link, Directed
<1>7. link' = [link EXCEPT ![c] = r]
  BY <1>5 DEF Inv, LinkInv
<1>8. LinkInv' /\ SameOwners
  BY <1>6, <1>7, Relinked DEF Inv
<1> QED
  BY <1>8, Moved, KeptWires DEF BindDown, Inv

LEMMA BindUpKeeps ==
  ASSUME Inv, NEW c \in Conns, BindUp(c)
  PROVE Inv'
<1> DEFINE item == Head(link[c].pup)
           rest == Tail(link[c].pup)
           joined == IF item = Stop THEN link[c].joined \ {"up"} ELSE link[c].joined
           next == IF item = Stop THEN link[c].vup ELSE Append(link[c].vup, item)
           r == [link[c] EXCEPT !.pup = rest, !.joined = joined, !.vup = next]
<1>1. Good(link[c]) /\ link[c].pup \in Queue /\ link[c].vup \in Queue /\ link[c].pup # <<>>
  BY DEF Inv, LinkInv, Good, Link, BindUp
<1>2. rest \in Queue /\ next \in Queue
  BY <1>1 DEF Queue
<1>3. joined \in SUBSET {"down", "up"}
  BY <1>1 DEF Good, Link
<1>4. link' = [link EXCEPT ![c].pup = rest, ![c].joined = joined, ![c].vup = next]
  BY DEF BindUp
<1> HIDE DEF rest, next, joined
<1>5. Good(r) /\ r.vppb = link[c].vppb
  BY <1>1, <1>2, <1>3 DEF Good, Link, Directed
<1>6. link' = [link EXCEPT ![c] = r]
  BY <1>4 DEF Inv, LinkInv
<1>7. LinkInv' /\ SameOwners
  BY <1>5, <1>6, Relinked DEF Inv
<1> QED
  BY <1>7, Moved, KeptWires DEF BindUp, Inv

\* The stamp of a connection is the device all its requests were meant for.
LEMMA RouteDownKeeps ==
  ASSUME Inv, NEW c \in Conns, RouteDown(c)
  PROVE Inv'
<1> DEFINE item == Head(link[c].pdown)
           rest == Tail(link[c].pdown)
           routing == IF item = Stop THEN "STOPPED" ELSE link[c].routing
           r == [link[c] EXCEPT !.pdown = rest, !.routing = routing]
           p == link[c].port
           wired == [vppb |-> item.vppb, n |-> item.n, to |-> item.to, ld |-> Stamp(c)]
<1>1. Good(link[c]) /\ link[c].pdown \in Queue /\ link[c].pdown # <<>>
  BY DEF Inv, LinkInv, Good, Link, RouteDown
<1>2. /\ rest \in Queue /\ Directed(rest, link[c]) /\ item \in Requests \cup {Stop}
      /\ item # Stop => item.to = [port |-> p, ld |-> link[c].ld]
  BY <1>1, DirectedTail DEF Good
<1>3. link' = [link EXCEPT ![c].pdown = rest, ![c].routing = routing]
  BY DEF RouteDown
<1>4. routing \in {"STOPPED", "RUNNING", "STOPPING"}
  BY <1>1 DEF Good, Link
<1>5. LinkInv' /\ SameOwners
  <2> HIDE DEF rest, routing
  <2>1. Good(r) /\ r.vppb = link[c].vppb
    BY <1>1, <1>2, <1>4 DEF Good, Link, Directed
  <2>2. link' = [link EXCEPT ![c] = r]
    BY <1>3 DEF Inv, LinkInv
  <2> QED
    BY <2>1, <2>2, Relinked DEF Inv
<1>6. WireInv'
  <2>1. CASE UNCHANGED down
    BY <2>1, KeptWires DEF RouteDown, Inv, wires
  <2>2. CASE item # Stop /\ down' = [down EXCEPT ![p] = Append(down[p], wired)]
    <3>1. wired \in Wired /\ wired.to = [port |-> p, ld |-> wired.ld]
      BY <1>1, <1>2, <2>2 DEF Wired, Requests, Stamp, Good, Link
    <3> HIDE DEF wired, p
    <3>2. down' \in [Ports -> Seq(Wired)]
      <4>1. CASE p \in Ports
        <5>1. down[p] \in Seq(Wired)
          BY <4>1 DEF Inv, WireInv
        <5>2. Append(down[p], wired) \in Seq(Wired)
          BY <3>1, <5>1
        <5> QED
          BY <2>2, <5>2 DEF Inv, WireInv
      <4>2. CASE p \notin Ports
        BY <2>2, <4>2 DEF Inv, WireInv
      <4> QED
        BY <4>1, <4>2
    <3>3. OwnLd'
      BY <2>2, <3>1 DEF Inv, WireInv, OwnLd
    <3> QED
      BY <3>2, <3>3 DEF Inv, WireInv, RouteDown
  <2> QED
    BY <2>1, <2>2 DEF RouteDown
<1> QED
  BY <1>5, <1>6, Moved DEF RouteDown

LEMMA DeviceAnswersKeeps ==
  ASSUME Inv, NEW p \in Ports, DeviceAnswers(p)
  PROVE Inv'
<1>1. LinkInv' /\ SameOwners
  BY Unlinked DEF DeviceAnswers, Inv
<1>2. down[p] \in Seq(Wired) /\ down[p] # <<>> /\ up[p] \in Seq(Wired) /\ Head(down[p]) \in Wired
  BY DEF Inv, WireInv, DeviceAnswers
<1>3. down' \in [Ports -> Seq(Wired)] /\ up' \in [Ports -> Seq(Wired)]
  BY <1>2 DEF Inv, WireInv, DeviceAnswers
<1>4. OwnLd'
  BY <1>2 DEF Inv, WireInv, DeviceAnswers, OwnLd
<1> QED
  BY <1>1, <1>3, <1>4, Moved DEF Inv, WireInv, DeviceAnswers

LEMMA RouteUpKeeps ==
  ASSUME Inv, NEW p \in Ports, RouteUp(p)
  PROVE Inv'
<1> DEFINE packet == Head(up[p])
           l == AnswerLd(packet)
           item == [vppb |-> packet.vppb, n |-> packet.n, to |-> packet.to]
<1>1. up[p] \in Seq(Wired) /\ up[p] # <<>> /\ packet \in Wired
  <2>1. up[p] # <<>>
    BY DEF RouteUp
  <2>2. up[p] \in Seq(Wired)
    BY DEF Inv, WireInv
  <2> QED
    BY <2>1, <2>2
<1>2. item \in Requests
  BY <1>1 DEF Wired, Requests
<1>3. WireInv'
  <2>1. up' = [up EXCEPT ![p] = Tail(up[p])] /\ upDead' \in {upDead, upDead \cup {p}} /\ UNCHANGED down
    <3>1. up' = [up EXCEPT ![p] = Tail(up[p])]
      BY DEF RouteUp
    <3>2. upDead' \in {upDead, upDead \cup {p}}
      BY DEF RouteUp
    <3>3. UNCHANGED down
      BY DEF RouteUp
    <3> QED
      BY <3>1, <3>2, <3>3
  <2>2. up' \in [Ports -> Seq(Wired)] /\ upDead' \in SUBSET Ports
    BY <1>1, <2>1 DEF Inv, WireInv
  <2> QED
    BY <2>1, <2>2 DEF Inv, WireInv, OwnLd
<1>4. LinkInv' /\ SameOwners
  <2>1. CASE UNCHANGED link
    BY <2>1, Unlinked DEF Inv
  <2>2. CASE l \in DOMAIN usc[p] /\ link' = [link EXCEPT ![usc[p][l]].pup = Append(link[usc[p][l]].pup, item)]
    <3> DEFINE c == usc[p][l]
               q == Append(link[c].pup, item)
               r == [link[c] EXCEPT !.pup = q]
    <3>1. c \in Conns
      BY <2>2, EntryOf DEF Inv, TablesInv
    <3>2. Good(link[c])
      BY <3>1 DEF Inv, LinkInv
    <3>3. q \in Queue
      <4>1. link[c].pup \in Queue
        BY <3>2 DEF Good, Link
      <4> HIDE DEF c, item
      <4> QED
        BY <1>2, <4>1 DEF Queue
    <3>4. link' = [link EXCEPT ![c].pup = q]
      BY <2>2
    <3> HIDE DEF q, c
    <3>5. Good(r) /\ r.vppb = link[c].vppb
      BY <3>2, <3>3 DEF Good, Link, Directed
    <3>6. link' = [link EXCEPT ![c] = r]
      BY <3>1, <3>4 DEF Inv, LinkInv
    <3> QED
      BY <3>1, <3>5, <3>6, Relinked DEF Inv
  <2> QED
    BY <2>1, <2>2 DEF RouteUp
<1> QED
  BY <1>3, <1>4, Moved DEF RouteUp

LEMMA HostReceiveKeeps ==
  ASSUME Inv, NEW v \in Vppbs, HostReceive(v)
  PROVE Inv'
<1> DEFINE c == reader[v]
           rest == Tail(link[c].vup)
           r == [link[c] EXCEPT !.vup = rest]
<1>1. c \in Conns
  BY DEF Inv, TablesInv, HostReceive
<1>2. Good(link[c]) /\ link[c].vup \in Queue /\ link[c].vup # <<>>
  BY <1>1 DEF Inv, LinkInv, Good, Link, HostReceive
<1>3. rest \in Queue
  BY <1>2 DEF Queue
<1>4. link' = [link EXCEPT ![c].vup = rest]
  BY DEF HostReceive
<1>5. TablesInv'
  BY <1>1 DEF Inv, TablesInv, HostReceive
<1> HIDE DEF rest, c
<1>6. Good(r) /\ r.vppb = link[c].vppb
  BY <1>2, <1>3 DEF Good, Link, Directed
<1>7. link' = [link EXCEPT ![c] = r]
  BY <1>1, <1>4 DEF Inv, LinkInv
<1>8. LinkInv' /\ SameOwners
  BY <1>1, <1>6, <1>7, Relinked DEF Inv
<1>9. VppbInv' /\ CmdOK' /\ WireInv' /\ CountInv'
  BY <1>8, KeptVppb, KeptCmd, KeptWires, KeptCounts DEF Inv, HostReceive, fm
<1> QED
  BY <1>5, <1>8, <1>9 DEF Inv

----------------------------------------------------------------------------
(* Commands.                                                               *)

LEMMA SubmitKeeps ==
  ASSUME Inv, NEW c \in Commands, Submit(c)
  PROVE Inv'
<1>1. LinkInv' /\ SameOwners
  BY Unlinked DEF Submit, Inv
<1>2. VppbInv' /\ TablesInv' /\ WireInv'
  BY <1>1, KeptVppb, KeptTables, KeptWires DEF Submit, Inv, tables
<1>3. CountInv'
  BY BindingAssumption DEF Submit, Inv, CountInv, Careless
<1>4. CmdOK'
  <2>1. Fresh' = Fresh
    BY <1>1, SameMade
  <2>2. ASSUME NEW v \in Vppbs, NEW p \in Ports, NEW l \in Lds, c = Bind(v, p, l)
        PROVE CmdOK'
    BY <2>1, <2>2, BindingAssumption DEF Submit, CmdOK, Bind, Idle, At
  <2>3. ASSUME NEW v \in Vppbs, NEW op \in Changes, c = Change(op, v)
        PROVE CmdOK'
    BY <2>1, <2>3, BindingAssumption DEF Submit, CmdOK, Change, Changes, Idle, At
  <2> QED
    BY <2>2, <2>3 DEF Commands, Changes
<1> QED
  BY <1>1, <1>2, <1>3, <1>4 DEF Inv

\* A part of a command that changes no connection, vPPB or table
LEMMA OnlyCmd ==
  ASSUME Inv, CmdOK', UNCHANGED <<tables, link, wires, issued, careless, sent>>
  PROVE Inv'
<1>1. LinkInv' /\ SameOwners
  BY Unlinked DEF Inv
<1> QED
  BY <1>1, KeptVppb, KeptTables, KeptWires, KeptCounts DEF Inv, tables

LEMMA RefusalsKeep ==
  ASSUME Inv, RefuseBind \/ RefuseChange \/ FreezeDone
  PROVE Inv'
BY IdleCmd, OnlyCmd DEF RefuseBind, RefuseChange, FreezeDone

LEMMA BindPpbKeeps ==
  ASSUME Inv, BindPpb
  PROVE Inv'
<1> DEFINE c == Fresh
           r == Opened(cmd.vppb, cmd.port, cmd.ld)
<1>1. cmd.vppb \in Vppbs /\ cmd.port \in Ports /\ cmd.ld \in Lds /\ cmd.op = "bind" /\ c \in Conns
  BY FreshConn DEF Inv, CmdOK, BindPpb, At
<1>2. Good(r) /\ r.vppb = cmd.vppb /\ r.vppb # None
  <2>1. Vppbs \subseteq Nat /\ None \notin Nat
    BY BindingAssumption
  <2> QED
    BY <1>1, <2>1, OpenedGood
<1>3. link' = [link EXCEPT ![c] = r] /\ cmd' = [cmd EXCEPT !.at = "vppb", !.conn = c]
  BY DEF BindPpb
<1>4. TablesInv'
  <2>1. usc' \in [Ports -> Dict(Conns)]
    BY <1>1, WithDict DEF BindPpb, Inv, TablesInv
  <2> QED
    BY <1>1, <2>1 DEF BindPpb, Inv, TablesInv
<1> HIDE DEF c, r
<1>5. LinkInv'
  BY <1>1, <1>2, <1>3 DEF Inv, LinkInv, Good
<1>6. VppbInv'
  BY <1>1, <1>2, <1>3 DEF Inv, LinkInv, VppbInv, BindPpb
<1>7. CmdOK'
  BY <1>1, <1>2, <1>3 DEF Inv, CmdOK, LinkInv, At
<1>8. WireInv' /\ CountInv'
  BY KeptWires, KeptCounts DEF Inv, BindPpb
<1> QED
  BY <1>4, <1>5, <1>6, <1>7, <1>8 DEF Inv

LEMMA BindVppbKeeps ==
  ASSUME Inv, BindVppb
  PROVE Inv'
<1>1. /\ cmd.vppb \in Vppbs /\ cmd.port \in Ports /\ cmd.ld \in Lds /\ cmd.op = "bind"
      /\ cmd.conn \in Conns /\ link[cmd.conn].vppb # None
  BY DEF Inv, CmdOK, BindVppb, At
<1>2. LinkInv' /\ SameOwners
  BY Unlinked DEF Inv, BindVppb
<1>3. VppbInv'
  BY <1>1 DEF Inv, VppbInv, BindVppb
<1>4. CmdOK'
  BY <1>1 DEF Inv, CmdOK, BindVppb, Goto, At
<1>5. TablesInv'
  <2>1. mgr' \in [Ports -> Dict(Conns)]
    BY <1>1, WithDict DEF BindVppb, Inv, TablesInv
  <2> QED
    BY <1>1, <2>1 DEF BindVppb, Inv, TablesInv
<1>6. WireInv' /\ CountInv'
  BY KeptWires, KeptCounts DEF Inv, BindVppb
<1> QED
  BY <1>2, <1>3, <1>4, <1>5, <1>6 DEF Inv

LEMMA BindSlotKeeps ==
  ASSUME Inv, BindSlot
  PROVE Inv'
<1> DEFINE c == vppb[cmd.vppb].conn
           joined == {"down", "up"}
           r == [link[c] EXCEPT !.joined = joined]
<1>1. cmd.vppb \in Vppbs /\ c \in Conns \cup {None}
  BY DEF Inv, CmdOK, VppbInv, BindSlot, At
<1>2. link' = [link EXCEPT ![c].joined = joined]
  BY DEF BindSlot
<1>3. TablesInv'
  BY <1>1 DEF BindSlot, RouterReads, Inv, TablesInv
<1>4. CmdOK'
  BY IdleCmd DEF BindSlot
<1> HIDE DEF c
<1>5. LinkInv' /\ SameOwners
  <2>1. CASE c \in Conns
    <3>1. Good(r) /\ r.vppb = link[c].vppb
      BY <2>1 DEF Inv, LinkInv, Good, Link, Directed
    <3>2. link' = [link EXCEPT ![c] = r]
      BY <1>2
    <3> QED
      BY <2>1, <3>1, <3>2, Relinked DEF Inv
  <2>2. CASE c \notin Conns
    <3>1. UNCHANGED link
      BY <1>2, <2>2 DEF Inv, LinkInv
    <3> QED
      BY <3>1, Unlinked DEF Inv
  <2> QED
    BY <2>1, <2>2
<1>6. VppbInv' /\ WireInv' /\ CountInv'
  BY <1>5, KeptVppb, KeptWires, KeptCounts DEF Inv, BindSlot
<1> QED
  BY <1>3, <1>4, <1>5, <1>6 DEF Inv

LEMMA UnbindManagersKeeps ==
  ASSUME Inv, UnbindManagers
  PROVE Inv'
<1> DEFINE p == portMap[cmd.vppb]
           l == vppb[cmd.vppb].ld
           c == mgr[p][l]
           deaf == TRUE
           q == Append(link[c].vup, Stop)
           r == [link[c] EXCEPT !.deaf = deaf, !.vup = q]
<1>1. cmd.vppb \in Vppbs /\ cmd.op = "unbind"
  BY DEF Inv, CmdOK, UnbindManagers, At
<1>2. p \in Ports /\ l \in Lds /\ mgr[p] \in Dict(Conns)
  BY <1>1 DEF Inv, TablesInv, VppbInv, UnbindManagers, Changeable
<1>3. l \in DOMAIN mgr[p] => c \in Conns
  BY <1>2, EntryOf
<1>4. TablesInv'
  <2>1. mgr' \in [Ports -> Dict(Conns)]
    BY <1>2, WithoutDict DEF UnbindManagers, Inv, TablesInv
  <2> QED
    BY <2>1 DEF UnbindManagers, Inv, TablesInv
<1>5. CmdOK'
  <2>1. cmd' = [cmd EXCEPT !.at = "ppb", !.ld = l, !.port = p,
                           !.conn = IF l \in DOMAIN mgr[p] THEN c ELSE None]
    BY DEF UnbindManagers
  <2> HIDE DEF l, p, c
  <2> QED
    BY <1>1, <1>2, <1>3, <2>1 DEF Inv, CmdOK, At
<1>6. LinkInv' /\ SameOwners
  <2>1. CASE l \in DOMAIN mgr[p]
    <3>1. link' = [link EXCEPT ![c].deaf = deaf, ![c].vup = q]
      BY <2>1 DEF UnbindManagers
    <3>2. Good(link[c])
      BY <1>3, <2>1 DEF Inv, LinkInv
    <3>3. link[c].vup \in Queue
      BY <3>2 DEF Good, Link
    <3>3a. q \in Queue
      BY <3>3, StopAppend
    <3> HIDE DEF q, c
    <3>4. Good(r) /\ r.vppb = link[c].vppb
      BY <3>2, <3>3a DEF Good, Link, Directed
    <3>5. link' = [link EXCEPT ![c] = r]
      BY <1>3, <2>1, <3>1 DEF Inv, LinkInv
    <3> QED
      BY <1>3, <2>1, <3>4, <3>5, Relinked DEF Inv
  <2>2. CASE l \notin DOMAIN mgr[p]
    BY <2>2, Unlinked DEF Inv, UnbindManagers
  <2> QED
    BY <2>1, <2>2
<1>7. VppbInv' /\ WireInv' /\ CountInv'
  BY <1>6, KeptVppb, KeptWires, KeptCounts DEF Inv, UnbindManagers
<1> QED
  BY <1>4, <1>5, <1>6, <1>7 DEF Inv

\* A routing that is told to stop, or runs again, keeps its connection.
LEMMA Rerouted ==
  ASSUME LinkInv, NEW c \in Conns, NEW routing \in {"STOPPED", "RUNNING", "STOPPING"},
         NEW q \in {link[c].pdown, Append(link[c].pdown, Stop)},
         link' = [link EXCEPT ![c].pdown = q, ![c].routing = routing]
  PROVE LinkInv' /\ SameOwners
<1> DEFINE r == [link[c] EXCEPT !.pdown = q, !.routing = routing]
<1>1. Good(link[c]) /\ link[c].pdown \in Queue
  BY DEF LinkInv, Good, Link
<1>2. q \in Queue /\ Directed(q, link[c])
  BY <1>1, DirectedAppend DEF Good
<1>3. Good(r) /\ r.vppb = link[c].vppb
  BY <1>1, <1>2 DEF Good, Link, Directed
<1>4. link' = [link EXCEPT ![c] = r]
  BY DEF LinkInv
<1> QED
  BY <1>3, <1>4, Relinked

LEMMA UnbindPpbKeeps ==
  ASSUME Inv, UnbindPpb
  PROVE Inv'
<1> DEFINE c == usc[cmd.port][cmd.ld]
<1>1. cmd.vppb \in Vppbs /\ cmd.port \in Ports /\ cmd.ld \in Lds /\ cmd.op = "unbind"
  BY DEF Inv, CmdOK, UnbindPpb, At
<1>2. cmd.ld \in DOMAIN usc[cmd.port] => c \in Conns
  BY <1>1, EntryOf DEF Inv, TablesInv
<1>3. TablesInv'
  <2>1. usc' \in [Ports -> Dict(Conns)]
    BY <1>1, WithoutDict DEF UnbindPpb, Inv, TablesInv
  <2> QED
    BY <2>1 DEF UnbindPpb, Inv, TablesInv
<1>4. LinkInv' /\ SameOwners /\ CmdOK'
  <2>1. CASE cmd.ld \in DOMAIN usc[cmd.port] /\ link[c].routing = "RUNNING"
    <3>1. /\ link' = [link EXCEPT ![c].pdown = Append(link[c].pdown, Stop), ![c].routing = "STOPPING"]
          /\ cmd' = [cmd EXCEPT !.at = "slot", !.conn = c]
      BY <2>1 DEF UnbindPpb
    <3> HIDE DEF c
    <3>2. LinkInv' /\ SameOwners
      BY <1>2, <2>1, <3>1, Rerouted DEF Inv
    <3>3. CmdOK'
      BY <1>1, <1>2, <2>1, <3>1 DEF Inv, CmdOK, At
    <3> QED
      BY <3>2, <3>3
  <2>2. CASE ~(cmd.ld \in DOMAIN usc[cmd.port] /\ link[c].routing = "RUNNING")
    BY <2>2, IdleCmd, Unlinked DEF UnbindPpb, Inv
  <2> QED
    BY <2>1, <2>2
<1>5. VppbInv'
  <2>1. 0 \in Lds
    BY BindingAssumption
  <2>2. vppb' = [vppb EXCEPT ![cmd.vppb] = [ld |-> 0, conn |-> None]]
    BY DEF UnbindPpb
  <2> QED
    BY <1>4, <2>1, <2>2 DEF Inv, VppbInv, SameOwners
<1>6. WireInv' /\ CountInv'
  BY KeptWires, KeptCounts DEF Inv, UnbindPpb
<1> QED
  BY <1>3, <1>4, <1>5, <1>6 DEF Inv

LEMMA UnbindSlotKeeps ==
  ASSUME Inv, UnbindSlot
  PROVE Inv'
<1> DEFINE c == slot[cmd.vppb].conn
           q == Append(link[c].vdown, Stop)
           u == Append(link[c].pup, Stop)
           r == [link[c] EXCEPT !.vdown = q, !.pup = u]
<1>1. cmd.vppb \in Vppbs /\ cmd.op = "unbind" /\ c \in Conns \cup {None}
  BY DEF Inv, CmdOK, TablesInv, UnbindSlot, At
<1>2. TablesInv'
  BY DEF UnbindSlot, Inv, TablesInv
<1>3. link' = [link EXCEPT ![c] = r] /\ cmd' = [cmd EXCEPT !.at = "done", !.conn = c]
  BY DEF UnbindSlot, EndBoth
<1>4. CmdOK'
  <2> HIDE DEF c
  <2> QED
    BY <1>1, <1>3 DEF Inv, CmdOK, At
<1>5. LinkInv' /\ SameOwners
  <2>1. CASE c \in Conns
    <3>1. Good(link[c]) /\ link[c].vdown \in Queue /\ link[c].pup \in Queue
      BY <2>1 DEF Inv, LinkInv, Good, Link
    <3>2. q \in Queue /\ Directed(q, link[c])
      BY <3>1, DirectedAppend DEF Good
    <3>3. u \in Queue
      BY <3>1, StopAppend
    <3> HIDE DEF q, u, c
    <3>4. Good(r) /\ r.vppb = link[c].vppb
      BY <3>1, <3>2, <3>3 DEF Good, Link, Directed
    <3> QED
      BY <1>3, <2>1, <3>4, Relinked DEF Inv
  <2>2. CASE c \notin Conns
    <3> HIDE DEF c, r
    <3>1. UNCHANGED link
      BY <1>3, <2>2 DEF Inv, LinkInv
    <3> QED
      BY <3>1, Unlinked DEF Inv
  <2> QED
    BY <2>1, <2>2
<1>6. VppbInv' /\ WireInv' /\ CountInv'
  BY <1>5, KeptVppb, KeptWires, KeptCounts DEF Inv, UnbindSlot
<1> QED
  BY <1>2, <1>4, <1>5, <1>6 DEF Inv

LEMMA UnbindDoneKeeps ==
  ASSUME Inv, UnbindDone
  PROVE Inv'
<1>1. LinkInv' /\ SameOwners /\ CmdOK'
  BY Unlinked, IdleCmd DEF Inv, UnbindDone
<1>2. TablesInv'
  BY DEF Inv, TablesInv, UnbindDone, UnboundSlot
<1> QED
  BY <1>1, <1>2, KeptVppb, KeptWires, KeptCounts DEF Inv, UnbindDone

LEMMA RoutedConn ==
  ASSUME Inv, Changeable(cmd.vppb), cmd.op # "idle"
  PROVE Routed \in Conns \cup {None}
<1> DEFINE p == portMap[cmd.vppb]
           l == vppb[cmd.vppb].ld
<1>1. cmd.vppb \in Vppbs
  BY DEF Inv, CmdOK
<1>2. p \in Ports
  BY <1>1 DEF Inv, TablesInv, Changeable
<1>3. l \in DOMAIN usc[p] => usc[p][l] \in Conns
  BY <1>2, EntryOf DEF Inv, TablesInv
<1> QED
  BY <1>3 DEF Routed

LEMMA FreezeKeeps ==
  ASSUME Inv, Freeze
  PROVE Inv'
<1>1. cmd.op = "freeze" /\ Routed \in Conns \cup {None}
  BY RoutedConn DEF Freeze, At
<1>2. LinkInv' /\ SameOwners /\ CmdOK'
  <2>1. CASE Routed # None /\ link[Routed].routing = "RUNNING"
    <3>1. /\ link' = [link EXCEPT ![Routed].pdown = Append(link[Routed].pdown, Stop),
                                  ![Routed].routing = "STOPPING"]
          /\ cmd' = [cmd EXCEPT !.at = "done", !.conn = Routed]
      BY <2>1 DEF Freeze
    <3>2. LinkInv' /\ SameOwners
      BY <1>1, <2>1, <3>1, Rerouted DEF Inv
    <3>3. CmdOK'
      BY <1>1, <2>1, <3>1 DEF Inv, CmdOK, At
    <3> QED
      BY <3>2, <3>3
  <2>2. CASE ~(Routed # None /\ link[Routed].routing = "RUNNING")
    BY <2>2, IdleCmd, Unlinked DEF Freeze, Inv
  <2> QED
    BY <2>1, <2>2
<1> QED
  BY <1>2, KeptVppb, KeptTables, KeptWires, KeptCounts DEF Inv, Freeze, tables

LEMMA UnfreezeKeeps ==
  ASSUME Inv, Unfreeze
  PROVE Inv'
<1>1. cmd.op = "unfreeze" /\ Routed \in Conns \cup {None}
  BY RoutedConn DEF Unfreeze, At
<1>2. LinkInv' /\ SameOwners
  <2>1. CASE Routed # None
    <3>1. link' = [link EXCEPT ![Routed].pdown = link[Routed].pdown, ![Routed].routing = "RUNNING"]
      BY <1>1, <2>1 DEF Unfreeze, Inv, LinkInv, Good, Link
    <3> QED
      BY <1>1, <2>1, <3>1, Rerouted DEF Inv
  <2>2. CASE Routed = None
    BY <2>2, Unlinked DEF Unfreeze, Inv
  <2> QED
    BY <2>1, <2>2
<1>3. CmdOK'
  BY IdleCmd DEF Unfreeze
<1> QED
  BY <1>2, <1>3, KeptVppb, KeptTables, KeptWires, KeptCounts DEF Inv, Unfreeze, tables

----------------------------------------------------------------------------
(* The invariant.                                                          *)

\* The vPPBs bound initially have the first connections.
LEMMA InitialConnOf ==
  ASSUME NEW v \in Vppbs, InitialBounds[v] # None
  PROVE InitialConn(v) \in Conns
<1> DEFINE B == {w \in Vppbs : InitialBounds[w] # None}
           S == {w \in Vppbs : w <= v /\ InitialBounds[w] # None}
<1>1. IsFiniteSet(B) /\ S \subseteq B /\ Cardinality(B) <= MaxBinds
  BY BindingAssumption, FS_Subset
<1>2. IsFiniteSet(S) /\ Cardinality(S) \in Nat /\ Cardinality(B) \in Nat /\ Cardinality(S) <= Cardinality(B)
  BY <1>1, FS_Subset, FS_CardinalityType
<1>3. v \in S
  BY BindingAssumption
<1>4. Cardinality(S) # 0
  BY <1>2, <1>3, FS_EmptySet
<1>5. InitialConn(v) = Cardinality(S)
  BY DEF InitialConn
<1> HIDE DEF S, B
<1> QED
  BY <1>1, <1>2, <1>4, <1>5, BindingAssumption DEF Conns

LEMMA InitInv == Init => Inv
<1> SUFFICES ASSUME Init PROVE Inv
  OBVIOUS
<1> DEFINE B == {v \in Vppbs : InitialBounds[v] # None}
<1>1. /\ \A v \in B : InitialBounds[v] \in Targets
      /\ None \notin Vppbs /\ 0 \in Lds
  BY BindingAssumption
<1>2. \A v \in B : InitialBounds[v].port \in Ports /\ InitialBounds[v].ld \in Lds
  BY <1>1 DEF Targets
<1>3. \A v \in B : InitialConn(v) \in Conns /\ v \in InitialVppb(InitialConn(v))
  BY InitialConnOf DEF InitialVppb
<1>4. ASSUME NEW c \in Conns
      PROVE /\ Good(link[c])
            /\ InitialVppb(c) # {} => link[c].vppb # None
  <2>1. CASE InitialVppb(c) = {}
    <3>1. link[c] = NoLink
      BY <2>1 DEF Init
    <3>2. Good(NoLink)
      <4>1. <<>> \in Queue
        BY DEF Queue
      <4> QED
        BY <1>1, <4>1 DEF Good, Directed, NoLink, Link
    <3> QED
      BY <2>1, <3>1, <3>2
  <2>2. CASE InitialVppb(c) # {}
    <3> DEFINE v == CHOOSE w \in InitialVppb(c) : TRUE
               o == Opened(v, InitialBounds[v].port, InitialBounds[v].ld)
               joined == {"down", "up"}
    <3>1. v \in B
      BY <2>2 DEF InitialVppb
    <3>2. link[c] = [o EXCEPT !.joined = joined]
      BY <2>2 DEF Init
    <3>3. Good(o) /\ o.vppb = v
      BY <1>2, <3>1, OpenedGood
    <3> HIDE DEF o
    <3>4. Good(link[c]) /\ link[c].vppb = v
      <4>1. /\ o \in Link /\ (o.vppb # None => o.port \in Ports)
            /\ Directed(o.vdown, o) /\ Directed(o.pdown, o) /\ o.vppb = v
        BY <3>3 DEF Good
      <4> DEFINE r == link[c]
      <4>2. /\ r \in Link /\ r.vppb = o.vppb /\ r.port = o.port /\ r.ld = o.ld
            /\ r.vdown = o.vdown /\ r.pdown = o.pdown
        BY <3>2, <4>1 DEF Link
      <4> HIDE DEF r
      <4>3. Good(r) /\ r.vppb = v
        BY <4>1, <4>2 DEF Good, Directed
      <4> QED
        BY <4>3 DEF r
    <3> QED
      BY <1>1, <3>1, <3>4
  <2> QED
    BY <2>1, <2>2
<1>5. LinkInv
  <2>1. link = [c \in Conns |-> link[c]]
    BY DEF Init
  <2> QED
    BY <1>4, <2>1 DEF LinkInv, Good
<1>6. VppbInv
  <2>1. vppb \in [Vppbs -> [ld : Lds, conn : Conns \cup {None}]]
    BY <1>1, <1>2, <1>3 DEF Init
  <2>2. ASSUME NEW v \in Vppbs, vppb[v].conn # None
        PROVE link[vppb[v].conn].vppb # None
    <3>1. v \in B /\ vppb[v].conn = InitialConn(v)
      BY <2>2 DEF Init
    <3> QED
      BY <1>3, <1>4, <3>1
  <2> QED
    BY <2>1, <2>2 DEF VppbInv
<1>7. usc \in [Ports -> Dict(Conns)] /\ mgr = usc
  <2>1. ASSUME NEW p \in Ports, NEW l \in InitialLds(p)
        PROVE InitialConn(CHOOSE v \in Vppbs : InitialBounds[v] = [port |-> p, ld |-> l]) \in Conns
    <3>1. PICK v \in Vppbs : InitialBounds[v] = [port |-> p, ld |-> l]
      BY DEF InitialLds
    <3> DEFINE w == CHOOSE v_1 \in Vppbs : InitialBounds[v_1] = [port |-> p, ld |-> l]
    <3>2. w \in Vppbs /\ InitialBounds[w] = [port |-> p, ld |-> l]
      BY <3>1
    <3>3. l \in Lds /\ [port |-> p, ld |-> l] \in Targets
      BY DEF InitialLds, Targets
    <3>4. InitialBounds[w] # None
      BY <3>2, <3>3, BindingAssumption
    <3> QED
      BY <3>2, <3>4, InitialConnOf
  <2>2. \A p \in Ports : InitialLds(p) \subseteq Lds
    BY DEF InitialLds
  <2>3. ASSUME NEW p \in Ports
        PROVE usc[p] \in Dict(Conns)
    <3>1. usc[p] \in [InitialLds(p) -> Conns]
      BY <2>1 DEF Init
    <3> QED
      BY <2>2, <3>1 DEF Dict
  <2>4. usc = [p \in Ports |-> usc[p]]
    BY DEF Init
  <2> QED
    BY <2>3, <2>4 DEF Init
<1>8. TablesInv
  <2>1. slot \in [Vppbs -> [status : {"INIT", "BOUND", "UNBOUND"}, conn : Conns \cup {None}]]
    BY <1>3 DEF Init
  <2>2. portMap \in [Vppbs -> Ports \cup {None}] /\ ldMap \in [Vppbs -> Lds \cup {None}]
    BY <1>2 DEF Init
  <2>3. reader \in [Vppbs -> Conns \cup {None}] /\ active \in SUBSET Vppbs
    BY <1>6 DEF VppbInv, Init
  <2> QED
    BY <1>7, <2>1, <2>2, <2>3 DEF TablesInv
<1>9. CmdOK
  BY <1>1 DEF Init, CmdOK, Idle, At
<1>10. WireInv
  BY DEF Init, WireInv, OwnLd
<1>11. CountInv
  <2>1. MaxCommands \in Nat /\ MaxRequests \in Nat
    BY BindingAssumption
  <2>2. issued = 0 /\ sent = [v \in Vppbs |-> 0] /\ careless = FALSE
    BY DEF Init
  <2>3. issued \in 0 .. MaxCommands
    BY <2>1, <2>2
  <2>4. sent \in [Vppbs -> 0 .. MaxRequests]
    BY <2>1, <2>2
  <2>5. careless \in BOOLEAN
    BY <2>2
  <2> QED
    BY <2>3, <2>4, <2>5 DEF CountInv
<1> QED
  BY <1>5, <1>6, <1>8, <1>9, <1>10, <1>11 DEF Inv

LEMMA NextInv == Inv /\ [Next]_vars => Inv'
<1> SUFFICES ASSUME Inv, [Next]_vars PROVE Inv'
  OBVIOUS
<1>1. ASSUME NEW v \in Vppbs, HostSend(v) \/ HostReceive(v)
      PROVE Inv'
  BY <1>1, HostSendKeeps, HostReceiveKeeps
<1>2. ASSUME NEW c \in Commands, Submit(c)
      PROVE Inv'
  BY <1>2, SubmitKeeps
<1>3. CASE Execute
  BY <1>3, RefusalsKeep, BindPpbKeeps, BindVppbKeeps, BindSlotKeeps, UnbindManagersKeeps,
     UnbindPpbKeeps, UnbindSlotKeeps, UnbindDoneKeeps, FreezeKeeps, UnfreezeKeeps DEF Execute
<1>4. ASSUME NEW c \in Conns, BindDown(c) \/ BindUp(c) \/ RouteDown(c)
      PROVE Inv'
  BY <1>4, BindDownKeeps, BindUpKeeps, RouteDownKeeps
<1>5. ASSUME NEW p \in Ports, DeviceAnswers(p) \/ RouteUp(p)
      PROVE Inv'
  BY <1>5, DeviceAnswersKeeps, RouteUpKeeps
<1>6. CASE UNCHANGED vars
  BY <1>6, Unlinked, Moved, KeptWires DEF Inv, vars
<1> QED
  BY <1>1, <1>2, <1>3, <1>4, <1>5, <1>6 DEF Next, Transfer

LEMMA InvImplies == Inv => TypeOK /\ OwnLd
BY DEF Inv, LinkInv, Good, VppbInv, CmdOK, TablesInv, WireInv, CountInv, TypeOK

\* All variables of the switch, its ports and its commands have their types
\* (virtual_switch.py, port_binder.py, ppb.py, bind_processor.py).
THEOREM BindingTypes == Spec => []TypeOK
<1>1. Spec => []Inv
  BY InitInv, NextInv, PTL DEF Spec
<1> QED
  BY <1>1, InvImplies, PTL

\* Whatever the fabric manager does, a request only ever reaches the logical
\* device its vPPB was bound to when it was sent (PpbDownRouting, which stamps
\* packets with the LD of its connection).
THEOREM OwnLdAlways == Spec => []OwnLd
<1>1. Spec => []Inv
  BY InitInv, NextInv, PTL DEF Spec
<1> QED
  BY <1>1, InvImplies, PTL
----------------------------------------------------------------------------
(* With a careful fabric manager: the tables, the stops and the packets.   *)

\* The port sends the answers of the connection's LD to the connection, and
\* packets of the LD's managers belong to it.
Placed(c) == LET r == link[c] IN
  r.port \in Ports /\ r.ld \in DOMAIN usc[r.port] /\ usc[r.port][r.ld] = c
Managed(c) == LET r == link[c] IN
  r.port \in Ports /\ r.ld \in DOMAIN mgr[r.port] /\ mgr[r.port][r.ld] = c

\* What the tables have of a vPPB that is bound, that is not, and between the
\* parts of a command that makes it the one or the other.
Unknown(v) ==
  vppb[v].conn = None /\ portMap[v] = None /\ ldMap[v] = None /\ reader[v] = None
Attached(v) == LET c == vppb[v].conn IN
  /\ c # None /\ portMap[v] = link[c].port /\ ldMap[v] = link[c].ld
  /\ Managed(c) /\ ~link[c].deaf
Free(v)    == ~Bound(v) /\ v \notin active /\ Unknown(v)
Joined(v)  == /\ Bound(v) /\ v \in active /\ Attached(v)
              /\ slot[v].conn = vppb[v].conn /\ reader[v] = vppb[v].conn
Opening(v) == At("bind", "vppb") /\ ~Bound(v) /\ v \in active /\ Unknown(v)
Joining(v) == At("bind", "slot") /\ ~Bound(v) /\ v \in active /\ Attached(v)
Closing(v) == LET c == vppb[v].conn IN
  At("unbind", "ppb") /\ c # None /\ cmd.port = link[c].port /\ cmd.ld = link[c].ld
Parting(v) == At("unbind", "slot") /\ vppb[v].conn = None
Parted(v)  == At("unbind", "done") /\ vppb[v].conn = None /\ portMap[v] = None

Midway == cmd.op \in {"bind", "unbind"} /\ cmd.at # "start"
Staged == \A v \in Vppbs :
  IF Midway /\ cmd.vppb = v
  THEN Opening(v) \/ Joining(v) \/ Closing(v) \/ Parting(v) \/ Parted(v)
  ELSE Free(v) \/ Joined(v)

\* A connection is its vPPB's alone, and whatever the port has is somebody's.
Owned == \A v \in Vppbs : LET c == vppb[v].conn IN
  c # None => link[c].vppb = v /\ Placed(c) /\ vppb[v].ld = link[c].ld
Held == \A p \in Ports : \A l \in DOMAIN usc[p] : LET c == usc[p][l] IN
  /\ link[c].port = p /\ link[c].ld = l
  /\ \/ link[c].vppb \in Vppbs /\ vppb[link[c].vppb].conn = c
     \/ At("bind", "vppb") /\ cmd.conn = c

\* The command's own connection, and the LD it is about to take
Prepared ==
  /\ At("bind", "start") => cmd.ld \notin DOMAIN usc[cmd.port]
  /\ At("bind", "vppb") => LET r == link[cmd.conn] IN
       /\ r.vppb = cmd.vppb /\ r.port = cmd.port /\ r.ld = cmd.ld
       /\ ~r.deaf /\ Placed(cmd.conn)

TablesRight == Staged /\ Owned /\ Held /\ Prepared

\* An end marker is there when the command in hand stops a task, and only then.
StopFree(q) == \A i \in DOMAIN q : q[i] # Stop
OneStop(q)  == \A i, j \in DOMAIN q : q[i] = Stop /\ q[j] = Stop => i = j
Stopping(c) == cmd.conn = c /\ (At("freeze", "done") \/ At("unbind", "slot"))
Marks(c) == LET r == link[c] IN
  /\ r.deaf \/ StopFree(r.vup)
  /\ r.routing = "STOPPING" \/ StopFree(r.pdown)
  /\ OneStop(r.pdown)
  /\ r.routing = "STOPPING" => Stopping(c)
Marked == \A c \in Conns : Marks(c)

\* The connection an unbind ends is not frozen.
Running ==
  (At("unbind", "start") \/ At("unbind", "ppb")) =>
    LET c == vppb[cmd.vppb].conn IN c # None => link[c].routing = "RUNNING"

\* Packets are in the queues of their vPPB's connection, which the port knows,
\* and an unbind has none left to lose.
Items(q)   == {q[i] : i \in DOMAIN q}
Packets(q) == Items(q) \ {Stop}
Aboard(r) == Packets(r.vdown) \cup Packets(r.pdown) \cup Packets(r.pup) \cup Packets(r.vup)
Undone(v) == cmd.op = "unbind" /\ cmd.vppb = v
Fits(c, x) == x.vppb = link[c].vppb /\ Placed(c) /\ ~Undone(x.vppb)
FitsWire(p, x) ==
  x.ld \in DOMAIN usc[p] /\ link[usc[p][x.ld]].vppb = x.vppb /\ ~Undone(x.vppb)
PacketsRight ==
  /\ \A c \in Conns : \A x \in Aboard(link[c]) : Fits(c, x)
  /\ \A p \in Ports : \A x \in Items(down[p]) \cup Items(up[p]) : FitsWire(p, x)
  /\ upDead = {}

\* Connections are numbered as they are made.
Numbered == \A c \in Made : c <= Cardinality(Made)

Agree == TablesRight /\ Marked /\ Running /\ PacketsRight /\ Numbered


\* No connection changes its vPPB, its device, or its managers.
SameOwner(c) == /\ link'[c].vppb = link[c].vppb
                /\ link'[c].port = link[c].port /\ link'[c].ld = link[c].ld
SameFrame == \A c \in Conns : SameOwner(c) /\ link'[c].deaf = link[c].deaf

\* Nothing is undone that was not before, and what is new in the queues fits.
NoneUndone == \A v : Undone(v)' => Undone(v)
Boarded(c)  == \A x \in Aboard(link'[c]) : x \in Aboard(link[c]) \/ Fits(c, x)
OnWire(p)   == \A x \in Items(down'[p]) \cup Items(up'[p]) :
                 x \in Items(down[p]) \cup Items(up[p]) \/ FitsWire(p, x)
Delivered   == (\A c \in Conns : Boarded(c)) /\ \A p \in Ports : OnWire(p)

LEMMA ItemsAppend ==
  ASSUME NEW S, NEW q \in Seq(S), NEW item \in S
  PROVE \A x \in Items(Append(q, item)) : x \in Items(q) \/ x = item
BY DEF Items

LEMMA ItemsTail ==
  ASSUME NEW S, NEW q \in Seq(S), q # <<>>
  PROVE Head(q) \in Items(q) /\ \A x \in Items(Tail(q)) : x \in Items(q)
<1>1. Head(q) = q[1] /\ 1 \in DOMAIN q
  OBVIOUS
<1>2. \A i \in DOMAIN Tail(q) : i + 1 \in DOMAIN q /\ Tail(q)[i] = q[i + 1]
  OBVIOUS
<1> QED
  BY <1>1, <1>2 DEF Items

LEMMA PacketsAppend ==
  ASSUME NEW S, NEW q \in Seq(S), NEW item \in S
  PROVE \A x \in Packets(Append(q, item)) : x \in Packets(q) \/ (x = item /\ item # Stop)
BY ItemsAppend DEF Packets

LEMMA PacketsTail ==
  ASSUME NEW S, NEW q \in Seq(S), q # <<>>
  PROVE /\ Head(q) # Stop => Head(q) \in Packets(q)
        /\ \A x \in Packets(Tail(q)) : x \in Packets(q)
BY ItemsTail DEF Packets

LEMMA StopsAppend ==
  ASSUME NEW S, NEW q \in Seq(S), NEW item \in S
  PROVE /\ StopFree(q) /\ item # Stop => StopFree(Append(q, item))
        /\ OneStop(q) /\ item # Stop => OneStop(Append(q, item))
        /\ StopFree(q) => OneStop(Append(q, item))
BY DEF StopFree, OneStop

LEMMA StopsTail ==
  ASSUME NEW S, NEW q \in Seq(S), q # <<>>
  PROVE /\ StopFree(q) => StopFree(Tail(q)) /\ Head(q) # Stop
        /\ OneStop(q) => OneStop(Tail(q)) /\ (Head(q) = Stop => StopFree(Tail(q)))
<1>1. Head(q) = q[1] /\ 1 \in DOMAIN q
  OBVIOUS
<1>2. \A i \in DOMAIN Tail(q) : i \in Nat \ {0} /\ i + 1 \in DOMAIN q /\ Tail(q)[i] = q[i + 1]
  OBVIOUS
<1> QED
  BY <1>1, <1>2 DEF StopFree, OneStop

LEMMA StopFreeOne == \A q : StopFree(q) => OneStop(q)
BY DEF StopFree, OneStop

LEMMA PacketsKept ==
  ASSUME PacketsRight, SameFrame, NoneUndone, Delivered, UNCHANGED <<usc, upDead>>, Inv
  PROVE PacketsRight'
<1>1. \A c \in Conns : Placed(c)' <=> Placed(c)
  BY DEF Placed, SameFrame, SameOwner
<1>2. \A c \in Conns : \A x : Fits(c, x) => Fits(c, x)'
  BY <1>1 DEF Fits, SameFrame, SameOwner, NoneUndone
<1>3. \A p \in Ports : \A l \in DOMAIN usc[p] : usc[p][l] \in Conns
  BY EntryOf DEF Inv, TablesInv
<1>4. \A p \in Ports : \A x : FitsWire(p, x) => FitsWire(p, x)'
  BY <1>3 DEF FitsWire, SameFrame, SameOwner, NoneUndone
<1>5. ASSUME NEW c \in Conns, NEW x \in Aboard(link'[c])
      PROVE Fits(c, x)'
  BY <1>2, <1>5 DEF Delivered, Boarded, PacketsRight
<1>6. ASSUME NEW p \in Ports, NEW x \in Items(down'[p]) \cup Items(up'[p])
      PROVE FitsWire(p, x)'
  BY <1>4, <1>6 DEF Delivered, OnWire, PacketsRight
<1>7. upDead' = {}
  BY DEF PacketsRight
<1> QED
  BY <1>5, <1>6, <1>7 DEF PacketsRight, Aboard, Packets, Items

LEMMA NumberedKept ==
  ASSUME Numbered, SameFrame
  PROVE Numbered'
<1>1. Made' = Made
  BY DEF Made, SameFrame, SameOwner
<1> QED
  BY <1>1 DEF Numbered

LEMMA RunningKept ==
  ASSUME Running, UNCHANGED <<cmd, vppb>>, Inv,
         \A c \in Conns : link[c].routing = "RUNNING" => link'[c].routing = "RUNNING"
  PROVE Running'
<1>1. CASE At("unbind", "start") \/ At("unbind", "ppb")
  <2>1. cmd.vppb \in Vppbs
    BY <1>1 DEF Inv, CmdOK, At
  <2>2. vppb[cmd.vppb].conn \in Conns \cup {None}
    BY <2>1 DEF Inv, VppbInv
  <2> QED
    BY <1>1, <2>2 DEF Running, At
<1>2. CASE ~(At("unbind", "start") \/ At("unbind", "ppb"))
  BY <1>2 DEF Running, At
<1> QED
  BY <1>1, <1>2

\* A step that changes no table but, perhaps, the reader of a vPPB that is
\* neither bound nor free
LEMMA TablesStill ==
  ASSUME Inv, TablesRight, SameFrame,
         UNCHANGED <<slot, vppb, portMap, ldMap, active, mgr, usc, cmd>>,
         \A v \in Vppbs : reader'[v] \in {reader[v], None}
                          /\ (reader'[v] = reader[v] \/ ~Joined(v))
  PROVE TablesRight'
<1>1. \A c \in Conns : (Placed(c)' <=> Placed(c)) /\ (Managed(c)' <=> Managed(c))
  BY DEF Placed, Managed, SameFrame, SameOwner
<1>2. \A v \in Vppbs : vppb[v].conn \in Conns \cup {None}
  BY DEF Inv, VppbInv
<1>3. ASSUME NEW v \in Vppbs
      PROVE /\ Attached(v)' <=> Attached(v)
            /\ Unknown(v) => Unknown(v)'
            /\ Bound(v)' <=> Bound(v)
    BY <1>1, <1>2 DEF Attached, Unknown, Bound, SameFrame, SameOwner
<1>4. ASSUME NEW v \in Vppbs
      PROVE /\ Free(v) => Free(v)'
            /\ Joined(v) => Joined(v)'
            /\ Opening(v) => Opening(v)'
            /\ Joining(v) => Joining(v)'
            /\ Parting(v) => Parting(v)'
            /\ Parted(v) => Parted(v)'
  BY <1>3 DEF Free, Joined, Opening, Joining, Parting, Parted, At
<1>5. ASSUME NEW v \in Vppbs
      PROVE Closing(v) => Closing(v)'
  BY <1>2 DEF Closing, At, SameFrame, SameOwner
<1>6. Staged'
  BY <1>4, <1>5 DEF TablesRight, Staged, Midway
<1>7. Owned'
  BY <1>1, <1>2 DEF TablesRight, Owned, SameFrame, SameOwner
<1>8. Held'
  <2>1. \A p \in Ports : \A l \in DOMAIN usc[p] : usc[p][l] \in Conns
    BY EntryOf DEF Inv, TablesInv
  <2> QED
    BY <2>1 DEF TablesRight, Held, SameFrame, SameOwner, At
<1>9. Prepared'
  BY <1>1 DEF TablesRight, Prepared, SameFrame, SameOwner, At, Inv, CmdOK
<1> QED
  BY <1>6, <1>7, <1>8, <1>9 DEF TablesRight

\* A step that moves packets
LEMMA AgreeMoved ==
  ASSUME Inv, Agree, SameFrame, Marked', Running', Delivered,
         UNCHANGED <<tables, cmd, upDead>>
  PROVE Agree'
<1>1. TablesRight'
  BY TablesStill DEF Agree, tables
<1>2. PacketsRight'
  <2>1. NoneUndone
    BY DEF NoneUndone, Undone
  <2> QED
    BY <2>1, PacketsKept DEF Agree, tables
<1> QED
  BY <1>1, <1>2, NumberedKept DEF Agree


----------------------------------------------------------------------------
(* Packets that move keep the agreement.                                   *)

\* Only connection c changes, and it keeps its vPPB, device and managers.
OnlyConn(c) ==
  /\ \A d \in Conns \ {c} : link'[d] = link[d]
  /\ SameOwner(c) /\ link'[c].deaf = link[c].deaf

LEMMA ConnQueues ==
  ASSUME Inv, NEW c \in Conns
  PROVE /\ link[c] \in Link
        /\ link[c].vdown \in Queue /\ link[c].pdown \in Queue
        /\ link[c].pup \in Queue /\ link[c].vup \in Queue
BY DEF Inv, LinkInv, Good, Link

\* What only connection c can have changed
LEMMA OnlyConnChanges ==
  ASSUME Inv, NEW c \in Conns, OnlyConn(c)
  PROVE /\ SameFrame
        /\ Marked /\ UNCHANGED cmd /\ Marks(c)' => Marked'
        /\ Boarded(c) => \A d \in Conns : Boarded(d)
<1>1. SameFrame
  BY DEF SameFrame, OnlyConn, SameOwner
<1>2. ASSUME Marked, UNCHANGED cmd, Marks(c)'
      PROVE Marked'
  <2>1. ASSUME NEW d \in Conns \ {c}
        PROVE Marks(d)'
    BY <1>2 DEF OnlyConn, Marked, Marks, Stopping, At
  <2> QED
    BY <1>2, <2>1 DEF Marked
<1>3. \A d \in Conns \ {c} : Boarded(d)
  BY DEF OnlyConn, Boarded
<1> QED
  BY <1>1, <1>2, <1>3

LEMMA HostSendAgrees ==
  ASSUME Inv, Agree, NEW v \in Vppbs, HostSend(v), ~careless'
  PROVE Agree'
<1>0. PICK c : c = vppb[v].conn
  OBVIOUS
<1> DEFINE packet == [vppb |-> v, n |-> sent[v] + 1, to |-> [port |-> link[c].port, ld |-> link[c].ld]]
<1>1. UNCHANGED <<tables, wires, cmd>> /\ ~Undone(v)
  BY DEF HostSend, Undone
<1>2. \A p \in Ports : OnWire(p)
  BY <1>1 DEF OnWire, wires
<1>3. CASE UNCHANGED link
  <2>1. SameFrame /\ Marked' /\ Delivered
    BY <1>1, <1>2, <1>3 DEF SameFrame, SameOwner, Agree, Marked, Marks, Stopping, At, Delivered, Boarded
  <2>2. Running'
    BY <1>1, <1>3 DEF Agree, Running, At, tables
  <2> QED
    BY <1>1, <2>1, <2>2, AgreeMoved DEF wires
<1>4. CASE link' = [link EXCEPT ![c].vdown = Append(link[c].vdown, packet)] /\ c # None
  <2>1. c \in Conns
    BY <1>0, <1>4 DEF Inv, VppbInv
  <2>2. link[c].vppb = v /\ Placed(c)
    BY <1>0, <1>4 DEF Agree, TablesRight, Owned
  <2>3. link[c].port \in Ports /\ link[c].ld \in Lds
    BY <2>1, <2>2, ConnQueues DEF Placed, Link
  <2>4. sent[v] + 1 \in 1 .. MaxRequests
    BY BindingAssumption DEF Inv, CountInv, HostSend
  <2>5. packet \in Requests \cup {Stop} /\ packet.vppb = v
    BY <2>3, <2>4 DEF Requests, Targets
  <2> HIDE DEF packet
  <2>6. /\ OnlyConn(c) /\ link'[c].vdown = Append(link[c].vdown, packet)
        /\ link'[c].pdown = link[c].pdown /\ link'[c].pup = link[c].pup /\ link'[c].vup = link[c].vup
        /\ link'[c].routing = link[c].routing
    BY <1>4, <2>1 DEF Inv, LinkInv, Link, OnlyConn, SameOwner
  <2>7. \A x \in Packets(Append(link[c].vdown, packet)) : x \in Packets(link[c].vdown) \/ x = packet
    BY <2>1, <2>5, ConnQueues, PacketsAppend DEF Queue
  <2>8. Fits(c, packet)
    BY <1>1, <2>2, <2>5 DEF Fits
  <2>9. Boarded(c)
    BY <2>6, <2>7, <2>8 DEF Boarded, Aboard
  <2>10. Marks(c)'
    BY <1>1, <2>1, <2>6 DEF Agree, Marked, Marks, OnlyConn, Stopping, At
  <2>11. Running'
    BY <1>1, <2>1, <2>6, RunningKept DEF Agree, OnlyConn, tables
  <2>12. SameFrame /\ Marked' /\ Delivered
    BY <1>1, <1>2, <2>1, <2>6, <2>9, <2>10, OnlyConnChanges DEF Agree, Delivered
  <2> QED
    BY <1>1, <2>11, <2>12, AgreeMoved DEF wires
<1> QED
  BY <1>0, <1>3, <1>4 DEF HostSend

LEMMA BindDownAgrees ==
  ASSUME Inv, Agree, NEW c \in Conns, BindDown(c)
  PROVE Agree'
<1> DEFINE item == Head(link[c].vdown)
           rest == Tail(link[c].vdown)
           joined == IF item = Stop THEN link[c].joined \ {"down"} ELSE link[c].joined
           next == IF item = Stop THEN link[c].pdown ELSE Append(link[c].pdown, item)
<1>1. UNCHANGED <<tables, wires, cmd>> /\ link[c].vdown # <<>>
  BY DEF BindDown, fm
<1>2. \A p \in Ports : OnWire(p)
  BY <1>1 DEF OnWire, wires
<1>3. link[c].vdown \in Seq(Requests \cup {Stop}) /\ link[c].pdown \in Seq(Requests \cup {Stop})
  BY ConnQueues DEF Queue
<1>4. item \in Requests \cup {Stop}
  BY <1>1, <1>3
<1>5. /\ item # Stop => item \in Packets(link[c].vdown)
      /\ \A x \in Packets(rest) : x \in Packets(link[c].vdown)
  BY <1>1, <1>3, PacketsTail
<1>6. link' = [link EXCEPT ![c].vdown = rest, ![c].joined = joined, ![c].pdown = next]
  BY DEF BindDown
<1> HIDE DEF item, rest, joined
<1>7. \A x \in Packets(next) : x \in Packets(link[c].pdown) \/ (x = item /\ item # Stop)
  BY <1>3, <1>4, PacketsAppend
<1>8. /\ StopFree(link[c].pdown) => StopFree(next)
      /\ OneStop(link[c].pdown) => OneStop(next)
  BY <1>3, <1>4, StopsAppend
<1> HIDE DEF next
<1>9. /\ OnlyConn(c) /\ link'[c].vdown = rest
      /\ link'[c].pdown = next /\ link'[c].pup = link[c].pup /\ link'[c].vup = link[c].vup
      /\ link'[c].routing = link[c].routing
  BY <1>6 DEF Inv, LinkInv, Link, OnlyConn, SameOwner
<1>10. Boarded(c)
  BY <1>5, <1>7, <1>9 DEF Boarded, Aboard
<1>11. Marks(c)'
  BY <1>1, <1>8, <1>9 DEF Agree, Marked, Marks, OnlyConn, Stopping, At
<1>12. Running'
  BY <1>1, <1>9, RunningKept DEF Agree, OnlyConn, tables
<1>13. SameFrame /\ Marked' /\ Delivered
  BY <1>1, <1>2, <1>9, <1>10, <1>11, OnlyConnChanges DEF Agree, Delivered
<1> QED
  BY <1>1, <1>12, <1>13, AgreeMoved DEF wires

LEMMA BindUpAgrees ==
  ASSUME Inv, Agree, NEW c \in Conns, BindUp(c)
  PROVE Agree'
<1> DEFINE item == Head(link[c].pup)
           rest == Tail(link[c].pup)
           joined == IF item = Stop THEN link[c].joined \ {"up"} ELSE link[c].joined
           next == IF item = Stop THEN link[c].vup ELSE Append(link[c].vup, item)
<1>1. UNCHANGED <<tables, wires, cmd>> /\ link[c].pup # <<>>
  BY DEF BindUp, fm
<1>2. \A p \in Ports : OnWire(p)
  BY <1>1 DEF OnWire, wires
<1>3. link[c].pup \in Seq(Requests \cup {Stop}) /\ link[c].vup \in Seq(Requests \cup {Stop})
  BY ConnQueues DEF Queue
<1>4. item \in Requests \cup {Stop}
  BY <1>1, <1>3
<1>5. /\ item # Stop => item \in Packets(link[c].pup)
      /\ \A x \in Packets(rest) : x \in Packets(link[c].pup)
  BY <1>1, <1>3, PacketsTail
<1>6. link' = [link EXCEPT ![c].pup = rest, ![c].joined = joined, ![c].vup = next]
  BY DEF BindUp
<1> HIDE DEF item, rest, joined
<1>7. \A x \in Packets(next) : x \in Packets(link[c].vup) \/ (x = item /\ item # Stop)
  BY <1>3, <1>4, PacketsAppend
<1>8. StopFree(link[c].vup) => StopFree(next)
  BY <1>3, <1>4, StopsAppend
<1> HIDE DEF next
<1>9. /\ OnlyConn(c) /\ link'[c].pup = rest
      /\ link'[c].vup = next /\ link'[c].pdown = link[c].pdown /\ link'[c].vdown = link[c].vdown
      /\ link'[c].routing = link[c].routing
  BY <1>6 DEF Inv, LinkInv, Link, OnlyConn, SameOwner
<1>10. Boarded(c)
  BY <1>5, <1>7, <1>9 DEF Boarded, Aboard
<1>11. Marks(c)'
  BY <1>1, <1>8, <1>9 DEF Agree, Marked, Marks, OnlyConn, Stopping, At
<1>12. Running'
  BY <1>1, <1>9, RunningKept DEF Agree, OnlyConn, tables
<1>13. SameFrame /\ Marked' /\ Delivered
  BY <1>1, <1>2, <1>9, <1>10, <1>11, OnlyConnChanges DEF Agree, Delivered
<1> QED
  BY <1>1, <1>12, <1>13, AgreeMoved DEF wires

\* A routing that meets its stop was told to stop, and there is no other.
LEMMA RouteDownAgrees ==
  ASSUME Inv, Agree, NEW c \in Conns, RouteDown(c)
  PROVE Agree'
<1> DEFINE item == Head(link[c].pdown)
           rest == Tail(link[c].pdown)
           routing == IF item = Stop THEN "STOPPED" ELSE link[c].routing
           p == link[c].port
           wired == [vppb |-> item.vppb, n |-> item.n, to |-> item.to, ld |-> Stamp(c)]
<1>1. UNCHANGED <<tables, cmd, up, upDead>> /\ link[c].pdown # <<>> /\ link[c].routing # "STOPPED"
  BY DEF RouteDown, fm
<1>2. link[c].pdown \in Seq(Requests \cup {Stop})
  BY ConnQueues DEF Queue
<1>3. item \in Requests \cup {Stop}
  BY <1>1, <1>2
<1>4. /\ item # Stop => item \in Packets(link[c].pdown)
      /\ \A x \in Packets(rest) : x \in Packets(link[c].pdown)
  BY <1>1, <1>2, PacketsTail
<1>5. /\ StopFree(link[c].pdown) => StopFree(rest) /\ item # Stop
      /\ OneStop(link[c].pdown) => OneStop(rest) /\ (item = Stop => StopFree(rest))
  BY <1>1, <1>2, StopsTail
<1>6. link' = [link EXCEPT ![c].pdown = rest, ![c].routing = routing]
  BY DEF RouteDown
<1>7. Marks(c)
  BY DEF Agree, Marked
<1>8. link[c].routing = "RUNNING" => routing = "RUNNING"
  BY <1>5, <1>7 DEF Marks
<1>9. /\ routing # "STOPPING" => StopFree(rest)
      /\ OneStop(rest)
      /\ routing = "STOPPING" => link[c].routing = "STOPPING"
  BY <1>5, <1>7 DEF Marks
<1>10. \A d \in Ports : OnWire(d)
  <2>1. CASE UNCHANGED down
    BY <1>1, <2>1 DEF OnWire
  <2>2. CASE item # Stop /\ down' = [down EXCEPT ![p] = Append(down[p], wired)]
    <3>1. Fits(c, item)
      BY <1>4, <2>2 DEF Agree, PacketsRight, Aboard
    <3>2. wired.ld = link[c].ld /\ wired.vppb = item.vppb
      BY DEF Stamp
    <3>3. FitsWire(p, wired)
      BY <3>1, <3>2 DEF Fits, FitsWire, Placed
    <3>4. down[p] \in Seq(Wired) /\ p \in Ports
      BY <3>1 DEF Fits, Placed, Inv, WireInv
    <3>5. wired \in Wired
      BY <1>3, <2>2, ConnQueues DEF Wired, Requests, Stamp, Link
    <3> HIDE DEF wired, p
    <3>6. \A x \in Items(Append(down[p], wired)) : x \in Items(down[p]) \/ x = wired
      BY <3>4, <3>5, ItemsAppend
    <3> QED
      BY <1>1, <2>2, <3>3, <3>4, <3>6 DEF OnWire, Inv, WireInv
  <2> QED
    BY <2>1, <2>2 DEF RouteDown
<1> HIDE DEF item, rest, routing
<1>11. /\ OnlyConn(c) /\ link'[c].pdown = rest /\ link'[c].routing = routing
       /\ link'[c].vdown = link[c].vdown /\ link'[c].pup = link[c].pup /\ link'[c].vup = link[c].vup
  BY <1>6 DEF Inv, LinkInv, Link, OnlyConn, SameOwner
<1>12. Boarded(c)
  BY <1>4, <1>11 DEF Boarded, Aboard
<1>13. Marks(c)'
  BY <1>1, <1>7, <1>9, <1>11 DEF Marks, OnlyConn, Stopping, At
<1>14. Running'
  BY <1>1, <1>8, <1>11, RunningKept DEF Agree, OnlyConn, tables
<1>15. SameFrame /\ Marked' /\ Delivered
  BY <1>1, <1>10, <1>11, <1>12, <1>13, OnlyConnChanges DEF Agree, Delivered
<1> QED
  BY <1>1, <1>14, <1>15, AgreeMoved


LEMMA DeviceAnswersAgrees ==
  ASSUME Inv, Agree, NEW p \in Ports, DeviceAnswers(p)
  PROVE Agree'
<1>1. /\ UNCHANGED <<tables, link, cmd, upDead>> /\ down[p] # <<>>
      /\ down' = [down EXCEPT ![p] = Tail(down[p])]
      /\ up' = [up EXCEPT ![p] = Append(up[p], Head(down[p]))]
  BY DEF DeviceAnswers, fm
<1>2. down \in [Ports -> Seq(Wired)] /\ up \in [Ports -> Seq(Wired)]
  BY DEF Inv, WireInv
<1>3. down[p] \in Seq(Wired) /\ up[p] \in Seq(Wired) /\ Head(down[p]) \in Wired
  BY <1>1, <1>2
<1>4. /\ Head(down[p]) \in Items(down[p])
      /\ \A x \in Items(Tail(down[p])) : x \in Items(down[p])
  BY <1>1, <1>3, ItemsTail
<1>5. \A x \in Items(Append(up[p], Head(down[p]))) :
        x \in Items(up[p]) \/ x = Head(down[p])
  BY <1>3, ItemsAppend
<1>6. OnWire(p)
  <2>1. down'[p] = Tail(down[p]) /\ up'[p] = Append(up[p], Head(down[p]))
    BY <1>1, <1>2
  <2> QED
    BY <1>4, <1>5, <2>1 DEF OnWire
<1>7. \A d \in Ports \ {p} : OnWire(d)
  BY <1>1, <1>2 DEF OnWire
<1>8. SameFrame /\ Marked' /\ Delivered
  BY <1>1, <1>6, <1>7 DEF SameFrame, SameOwner, Agree, Marked, Marks, Stopping, At, Delivered, Boarded
<1>9. Running'
  BY <1>1 DEF Agree, Running, At, tables
<1> QED
  BY <1>1, <1>8, <1>9, AgreeMoved

\* The answer's LD has a connection, which is that of the vPPB that asked.
LEMMA RouteUpAgrees ==
  ASSUME Inv, Agree, NEW p \in Ports, RouteUp(p)
  PROVE Agree'
<1> DEFINE packet == Head(up[p])
           l == AnswerLd(packet)
           item == [vppb |-> packet.vppb, n |-> packet.n, to |-> packet.to]
<1>1. /\ UNCHANGED <<tables, cmd, down>> /\ up[p] # <<>>
      /\ up' = [up EXCEPT ![p] = Tail(up[p])]
  BY DEF RouteUp, fm
<1>2. up \in [Ports -> Seq(Wired)] /\ up[p] \in Seq(Wired) /\ packet \in Wired
  BY <1>1 DEF Inv, WireInv
<1>3. packet \in Items(up[p])
  BY <1>1, <1>2, ItemsTail
<1>4. FitsWire(p, packet)
  BY <1>3 DEF Agree, PacketsRight
<1>5. PICK c : c = usc[p][l]
  OBVIOUS
<1>6. l \in DOMAIN usc[p] /\ link[c].vppb = packet.vppb /\ ~Undone(packet.vppb)
  BY <1>4, <1>5 DEF FitsWire, AnswerLd
<1>7. c \in Conns
  BY <1>5, <1>6, EntryOf DEF Inv, TablesInv
<1>8. Placed(c)
  BY <1>5, <1>6 DEF Placed, Agree, TablesRight, Held
<1>9. /\ link' = [link EXCEPT ![c].pup = Append(link[c].pup, item)]
      /\ UNCHANGED upDead
  BY <1>5, <1>6 DEF RouteUp
<1>10. item \in Requests \cup {Stop} /\ link[c].pup \in Seq(Requests \cup {Stop})
  BY <1>2, <1>7, ConnQueues DEF Wired, Requests, Queue
<1>11. Fits(c, item)
  BY <1>6, <1>8 DEF Fits
<1>12. \A x \in Items(Tail(up[p])) : x \in Items(up[p])
  BY <1>1, <1>2, ItemsTail
<1> HIDE DEF item
<1>13. \A x \in Packets(Append(link[c].pup, item)) : x \in Packets(link[c].pup) \/ x = item
  BY <1>10, PacketsAppend
<1>14. /\ OnlyConn(c) /\ link'[c].pup = Append(link[c].pup, item)
       /\ link'[c].vdown = link[c].vdown /\ link'[c].pdown = link[c].pdown
       /\ link'[c].vup = link[c].vup /\ link'[c].routing = link[c].routing
  BY <1>7, <1>9 DEF Inv, LinkInv, Link, OnlyConn, SameOwner
<1>15. Boarded(c)
  BY <1>11, <1>13, <1>14 DEF Boarded, Aboard
<1>16. \A d \in Ports : OnWire(d)
  BY <1>1, <1>2, <1>12 DEF OnWire
<1>17. Marks(c)'
  BY <1>1, <1>7, <1>14 DEF Agree, Marked, Marks, OnlyConn, Stopping, At
<1>18. Running'
  BY <1>1, <1>7, <1>14, RunningKept DEF Agree, OnlyConn, tables
<1>19. SameFrame /\ Marked' /\ Delivered
  BY <1>1, <1>7, <1>14, <1>15, <1>16, <1>17, OnlyConnChanges DEF Agree, Delivered
<1> QED
  BY <1>1, <1>9, <1>18, <1>19, AgreeMoved

\* A router's task that reads the end marker belongs to a vPPB whose managers
\* have been told to stop.
LEMMA HostReceiveAgrees ==
  ASSUME Inv, Agree, NEW v \in Vppbs, HostReceive(v)
  PROVE Agree'
<1>1. PICK c : c = reader[v]
  OBVIOUS
<1>2. /\ UNCHANGED <<slot, vppb, portMap, ldMap, active, mgr, usc, wires, cmd>>
      /\ c # None /\ link[c].vup # <<>>
      /\ link' = [link EXCEPT ![c].vup = Tail(link[c].vup)]
      /\ reader' = [reader EXCEPT ![v] = IF Head(link[c].vup) = Stop THEN None ELSE c]
  BY <1>1 DEF HostReceive, fm
<1>3. c \in Conns
  BY <1>1, <1>2 DEF Inv, TablesInv
<1>4. link[c].vup \in Seq(Requests \cup {Stop})
  BY <1>3, ConnQueues DEF Queue
<1>5. \A x \in Packets(Tail(link[c].vup)) : x \in Packets(link[c].vup)
  BY <1>2, <1>4, PacketsTail
<1>6. StopFree(link[c].vup) => StopFree(Tail(link[c].vup)) /\ Head(link[c].vup) # Stop
  BY <1>2, <1>4, StopsTail
<1>7. /\ OnlyConn(c) /\ link'[c].vup = Tail(link[c].vup)
      /\ link'[c].vdown = link[c].vdown /\ link'[c].pdown = link[c].pdown
      /\ link'[c].pup = link[c].pup /\ link'[c].routing = link[c].routing
  BY <1>2, <1>3 DEF Inv, LinkInv, Link, OnlyConn, SameOwner
<1>8. Boarded(c)
  BY <1>5, <1>7 DEF Boarded, Aboard
<1>9. \A d \in Ports : OnWire(d)
  BY <1>2 DEF OnWire, wires
<1>10. Marks(c)'
  BY <1>2, <1>3, <1>6, <1>7 DEF Agree, Marked, Marks, OnlyConn, Stopping, At
<1>11. Running'
  BY <1>2, <1>3, <1>7, RunningKept DEF Agree, OnlyConn
<1>12. SameFrame /\ Marked' /\ Delivered
  BY <1>2, <1>3, <1>7, <1>8, <1>9, <1>10, OnlyConnChanges DEF Agree, Delivered
<1>13. Joined(v) => reader'[v] = reader[v]
  BY <1>1, <1>2, <1>3, <1>6 DEF Joined, Attached, Agree, Marked, Marks, Inv, TablesInv
<1>14. TablesRight'
  BY <1>1, <1>2, <1>12, <1>13, TablesStill DEF Agree, Inv, TablesInv
<1>15. PacketsRight'
  <2>1. NoneUndone
    BY <1>2 DEF NoneUndone, Undone
  <2> QED
    BY <1>2, <1>12, <2>1, PacketsKept DEF Agree, wires
<1> QED
  BY <1>11, <1>12, <1>14, <1>15, NumberedKept DEF Agree


----------------------------------------------------------------------------
(* Commands keep the agreement.                                            *)

\* A step of a command that is between no parts, before and after
LEMMA TablesCalm ==
  ASSUME Inv, TablesRight, SameFrame, UNCHANGED tables, ~Midway, ~Midway', ~At("bind", "start")'
  PROVE TablesRight'
<1>1. \A c \in Conns : (Placed(c)' <=> Placed(c)) /\ (Managed(c)' <=> Managed(c))
  BY DEF Placed, Managed, SameFrame, SameOwner, tables
<1>2. \A v \in Vppbs : vppb[v].conn \in Conns \cup {None}
  BY DEF Inv, VppbInv
<1>3. ASSUME NEW v \in Vppbs
      PROVE (Free(v) => Free(v)') /\ (Joined(v) => Joined(v)')
  BY <1>1, <1>2 DEF Free, Joined, Attached, Unknown, Bound, SameFrame, SameOwner, tables
<1>4. Staged'
  BY <1>3 DEF TablesRight, Staged
<1>5. Owned'
  BY <1>1, <1>2 DEF TablesRight, Owned, SameFrame, SameOwner, tables
<1>6. Held'
  <2>1. \A p \in Ports : \A l \in DOMAIN usc[p] : usc[p][l] \in Conns
    BY EntryOf DEF Inv, TablesInv
  <2> QED
    BY <2>1 DEF TablesRight, Held, SameFrame, SameOwner, At, Midway, tables
<1>7. Prepared'
  BY DEF Prepared, At, Midway
<1> QED
  BY <1>4, <1>5, <1>6, <1>7 DEF TablesRight

LEMMA AgreeCalm ==
  ASSUME Inv, Agree, SameFrame, UNCHANGED <<tables, wires>>, ~Midway, ~Midway',
         ~At("bind", "start")', ~At("unbind", "start")', NoneUndone, Marked',
         \A c \in Conns : Boarded(c)
  PROVE Agree'
<1>1. TablesRight'
  BY TablesCalm DEF Agree
<1>2. PacketsRight'
  <2>1. Delivered
    BY DEF Delivered, OnWire, wires
  <2> QED
    BY <2>1, PacketsKept DEF Agree, tables, wires
<1>3. Running'
  BY DEF Running, Midway, At
<1> QED
  BY <1>1, <1>2, <1>3, NumberedKept DEF Agree

LEMMA StillFrame ==
  ASSUME UNCHANGED link
  PROVE SameFrame /\ \A c \in Conns : Boarded(c)
BY DEF SameFrame, SameOwner, Boarded

LEMMA FlyingAboard ==
  ASSUME Inv, NEW v \in Vppbs, ~InFlight(v)
  PROVE /\ \A c \in Conns : \A x \in Aboard(link[c]) : link[c].vppb = v => x.vppb # v
        /\ \A p \in Ports : \A x \in Items(down[p]) \cup Items(up[p]) : x = Stop \/ x.vppb # v
<1>1. ASSUME NEW q, NEW x \in Packets(q), x.vppb = v
      PROVE Mentions(q, v)
  BY <1>1 DEF Packets, Items, Mentions
<1>2. ASSUME NEW c \in Conns, link[c].vppb = v, NEW x \in Aboard(link[c]), x.vppb = v
      PROVE FALSE
  <2>1. v # None
    BY BindingAssumption
  <2>2. c \in Made
    BY <1>2, <2>1 DEF Made
  <2> QED
    BY <1>1, <1>2, <2>2 DEF InFlight, Aboard
<1>3. ASSUME NEW p \in Ports, NEW x \in Items(down[p]) \cup Items(up[p]), x # Stop, x.vppb = v
      PROVE FALSE
  BY <1>1, <1>3 DEF InFlight, Packets
<1> QED
  BY <1>2, <1>3

LEMMA SubmitAgrees ==
  ASSUME Inv, Agree, NEW c \in Commands, Submit(c), ~careless'
  PROVE Agree'
<1>1. cmd = Idle /\ cmd' = c /\ UNCHANGED <<tables, link, wires>> /\ ~Careless(c)
  BY DEF Submit
<1>2. /\ c.at = "start" /\ c.op \in {"bind", "unbind", "freeze", "unfreeze"} /\ c.vppb \in Vppbs
      /\ c.op = "bind" => c.port \in Ports
  <2>1. CASE \E v \in Vppbs, p \in Ports, l \in Lds : c = Bind(v, p, l)
    BY <2>1 DEF Bind, Idle
  <2>2. CASE \E op \in {"unbind", "freeze", "unfreeze"}, v \in Vppbs : c = Change(op, v)
    BY <2>2 DEF Change, Idle
  <2> QED
    BY <2>1, <2>2 DEF Commands
<1>3. ~Midway /\ ~Midway' /\ \A v : ~Undone(v)
  BY <1>1, <1>2 DEF Midway, Undone, Idle
<1>4. SameFrame /\ \A d \in Conns : Boarded(d)
  BY <1>1, StillFrame
<1>5. ASSUME NEW d \in Conns
      PROVE link[d].routing \in {"RUNNING", "STOPPED"} /\ Marks(d)'
  BY <1>1, ConnQueues DEF Agree, Marked, Marks, Stopping, At, Idle, Link
<1>6. Marked'
  BY <1>5 DEF Marked
<1>7. Numbered'
  BY <1>4, NumberedKept DEF Agree
<1>8. CASE c.op \in {"freeze", "unfreeze"}
  <2>1. NoneUndone /\ ~At("bind", "start")' /\ ~At("unbind", "start")'
    BY <1>1, <1>8 DEF NoneUndone, Undone, At
  <2> QED
    BY <1>1, <1>3, <1>4, <1>6, <2>1, AgreeCalm
<1>9. CASE c.op = "bind"
  <2>1. NoneUndone /\ ~At("unbind", "start")' /\ ~At("unbind", "ppb")'
    BY <1>1, <1>9 DEF NoneUndone, Undone, At
  <2>2. PacketsRight'
    <3>1. Delivered
      BY <1>1, <1>4 DEF Delivered, OnWire, wires
    <3> QED
      BY <1>1, <1>4, <2>1, <3>1, PacketsKept DEF Agree, tables, wires
  <2>3. TablesRight'
    <3>1. c.ld \notin DOMAIN usc[c.port]
      BY <1>1, <1>9 DEF Careless
    <3>2. Prepared'
      BY <1>1, <1>2, <3>1 DEF Prepared, At, tables
    <3>3. Staged'
      <4>1. ASSUME NEW w \in Vppbs PROVE Free(w)' \/ Joined(w)'
        <5>1. Free(w) \/ Joined(w)
          BY <1>3 DEF Agree, TablesRight, Staged
        <5>2. CASE Free(w)
          BY <1>1, <5>2 DEF Free, Unknown, Bound, tables
        <5>3. CASE Joined(w)
          BY <1>1, <5>3 DEF Joined, Attached, Bound, Managed, tables
        <5> QED
          BY <5>1, <5>2, <5>3
      <4> QED
        BY <1>3, <4>1 DEF Staged
    <3>4. Owned' /\ Held'
      <4>1. Owned /\ Held
        BY DEF Agree, TablesRight
      <4>2. UNCHANGED <<link, usc, vppb>> /\ ~At("bind", "slot") /\ ~At("bind", "vppb")
        BY <1>1 DEF At, Idle, tables
      <4>3. Owned'
        BY <1>3, <4>1, <4>2 DEF Owned, Placed
      <4> QED
        BY <1>1, <4>1, <4>2, <4>3 DEF Held
    <3> QED
      BY <3>2, <3>3, <3>4 DEF TablesRight
  <2> QED
    BY <1>6, <1>7, <2>1, <2>2, <2>3 DEF Agree, Running
<1>10. CASE c.op = "unbind"
  <2> DEFINE v == c.vppb
  <2>1. ~Frozen(v) /\ ~InFlight(v) /\ v \in Vppbs
    BY <1>1, <1>2, <1>10 DEF Careless
  <2>2. TablesRight'
    <3>1. ~At("bind", "start")'
      BY <1>1, <1>10 DEF At
    <3> QED
      BY <1>1, <1>3, <1>4, <3>1, TablesCalm DEF Agree
  <2>3. Running'
    <3>1. vppb[v].conn # None => link[vppb[v].conn].routing = "RUNNING"
      BY <1>5, <2>1 DEF Frozen, Inv, VppbInv
    <3> QED
      BY <1>1, <3>1 DEF Running, tables
  <2>4. \A w : Undone(w)' => w = v
    BY <1>1 DEF Undone
  <2> HIDE DEF v
  <2>5. ASSUME NEW d \in Conns, NEW x \in Aboard(link[d])
        PROVE Fits(d, x)'
    <3>1. Fits(d, x)
      BY DEF Agree, PacketsRight
    <3>2. x.vppb # v
      BY <2>1, <3>1, FlyingAboard DEF Fits
    <3> QED
      BY <1>1, <2>4, <3>1, <3>2 DEF Fits, Placed, tables
  <2>6. ASSUME NEW p \in Ports, NEW x \in Items(down[p]) \cup Items(up[p])
        PROVE FitsWire(p, x)'
    <3>1. FitsWire(p, x) /\ x # Stop
      <4>1. FitsWire(p, x)
        BY DEF Agree, PacketsRight
      <4>2. x \in Wired
        BY DEF Inv, WireInv, Items
      <4> QED
        BY <4>1, <4>2, BindingAssumption DEF Stop
    <3>2. x.vppb # v
      BY <2>1, <3>1, FlyingAboard
    <3> QED
      BY <1>1, <2>4, <3>1, <3>2 DEF FitsWire, tables
  <2>7. PacketsRight'
    BY <1>1, <2>5, <2>6 DEF Agree, PacketsRight, Aboard, Packets, Items, wires
  <2> QED
    BY <1>6, <1>7, <2>2, <2>3, <2>7 DEF Agree
<1> QED
  BY <1>2, <1>8, <1>9, <1>10


\* While a command begins, no routing is being stopped.
LEMMA NoneStopping ==
  ASSUME Inv, Agree, NEW c \in Conns, ~Stopping(c)
  PROVE /\ link[c].routing \in {"RUNNING", "STOPPED"}
        /\ StopFree(link[c].pdown)
BY ConnQueues DEF Agree, Marked, Marks, Link

\* A command that ends with all tasks as they were
LEMMA FinishAgrees ==
  ASSUME Inv, Agree, ~Midway, cmd' = Idle, UNCHANGED <<tables, link, wires>>,
         \A c \in Conns : Stopping(c) => link[c].routing = "STOPPED"
  PROVE Agree'
<1>1. ~Midway' /\ ~At("bind", "start")' /\ ~At("unbind", "start")' /\ NoneUndone
  BY DEF Midway, At, NoneUndone, Undone, Idle
<1>2. Marked'
  BY DEF Agree, Marked, Marks
<1> QED
  BY <1>1, <1>2, StillFrame, AgreeCalm

LEMMA RefuseAgrees ==
  ASSUME Inv, Agree, RefuseBind \/ RefuseChange \/ FreezeDone
  PROVE Agree'
<1>1. cmd' = Idle /\ UNCHANGED <<tables, link, wires>> /\ ~Midway
  BY DEF RefuseBind, RefuseChange, FreezeDone, Finish, Midway, At
<1>2. \A c \in Conns : Stopping(c) => link[c].routing = "STOPPED"
  BY DEF RefuseBind, RefuseChange, FreezeDone, Stopping, At
<1> QED
  BY <1>1, <1>2, FinishAgrees

LEMMA FreezeAgrees ==
  ASSUME Inv, Agree, Freeze
  PROVE Agree'
<1>1. PICK c : c = Routed
  OBVIOUS
<1>2. /\ cmd.op = "freeze" /\ cmd.at = "start" /\ UNCHANGED <<tables, wires>>
      /\ ~Midway /\ c \in Conns \cup {None}
  BY <1>1, RoutedConn DEF Freeze, At, Midway
<1>3. \A d \in Conns : ~Stopping(d)
  BY <1>2 DEF Stopping, At
<1>4. CASE c # None /\ link[c].routing = "RUNNING"
  <2> DEFINE q == Append(link[c].pdown, Stop)
  <2>1. /\ link' = [link EXCEPT ![c].pdown = q, ![c].routing = "STOPPING"]
        /\ cmd' = [cmd EXCEPT !.at = "done", !.conn = c]
    BY <1>1, <1>4 DEF Freeze
  <2>2. c \in Conns /\ link[c].pdown \in Seq(Requests \cup {Stop}) /\ Stop \in Requests \cup {Stop}
    BY <1>2, <1>4, ConnQueues DEF Queue
  <2>3. \A x \in Packets(q) : x \in Packets(link[c].pdown)
    BY <2>2, PacketsAppend
  <2>4. OneStop(q)
    BY <1>3, <2>2, NoneStopping, StopsAppend
  <2> HIDE DEF q
  <2>5. /\ OnlyConn(c) /\ link'[c].pdown = q /\ link'[c].routing = "STOPPING"
        /\ link'[c].vdown = link[c].vdown /\ link'[c].pup = link[c].pup /\ link'[c].vup = link[c].vup
    BY <2>1, <2>2 DEF Inv, LinkInv, Link, OnlyConn, SameOwner
  <2>6. Boarded(c)
    BY <2>3, <2>5 DEF Boarded, Aboard
  <2>7. SameFrame /\ \A d \in Conns : Boarded(d)
    BY <2>2, <2>5, <2>6, OnlyConnChanges
  <2>8. cmd'.op = "freeze" /\ cmd'.at = "done" /\ cmd'.conn = c /\ cmd'.vppb = cmd.vppb
    BY <1>2, <2>1 DEF Inv, CmdOK
  <2>9. Marked'
    <3>1. Marks(c)'
      BY <2>2, <2>4, <2>5, <2>8 DEF Agree, Marked, Marks, OnlyConn, Stopping, At
    <3>2. ASSUME NEW d \in Conns \ {c} PROVE Marks(d)'
      <4>1. link'[d] = link[d] /\ link[d].routing # "STOPPING"
        BY <1>3, <2>5, NoneStopping DEF OnlyConn
      <4> QED
        BY <4>1 DEF Agree, Marked, Marks
    <3> QED
      BY <3>1, <3>2 DEF Marked
  <2>10. ~Midway' /\ ~At("bind", "start")' /\ ~At("unbind", "start")' /\ NoneUndone
    BY <2>8 DEF Midway, At, NoneUndone, Undone
  <2> QED
    BY <1>2, <2>7, <2>9, <2>10, AgreeCalm
<1>5. CASE ~(c # None /\ link[c].routing = "RUNNING")
  <2>1. cmd' = Idle /\ UNCHANGED link
    BY <1>1, <1>5 DEF Freeze, Finish
  <2> QED
    BY <1>2, <1>3, <2>1, FinishAgrees
<1> QED
  BY <1>4, <1>5

LEMMA UnfreezeAgrees ==
  ASSUME Inv, Agree, Unfreeze
  PROVE Agree'
<1>1. PICK c : c = Routed
  OBVIOUS
<1>2. /\ cmd.op = "unfreeze" /\ cmd.at = "start" /\ UNCHANGED <<tables, wires>>
      /\ ~Midway /\ c \in Conns \cup {None} /\ cmd' = Idle
  BY <1>1, RoutedConn DEF Unfreeze, At, Midway, Finish
<1>3. \A d \in Conns : ~Stopping(d)
  BY <1>2 DEF Stopping, At
<1>4. CASE c # None
  <2>1. link' = [link EXCEPT ![c].routing = "RUNNING"] /\ c \in Conns
    BY <1>1, <1>2, <1>4 DEF Unfreeze
  <2>2. /\ OnlyConn(c) /\ link'[c].pdown = link[c].pdown /\ link'[c].routing = "RUNNING"
        /\ link'[c].vdown = link[c].vdown /\ link'[c].pup = link[c].pup /\ link'[c].vup = link[c].vup
    BY <2>1 DEF Inv, LinkInv, Link, OnlyConn, SameOwner
  <2>3. Boarded(c)
    BY <2>2 DEF Boarded, Aboard
  <2>4. SameFrame /\ \A d \in Conns : Boarded(d)
    BY <2>1, <2>2, <2>3, OnlyConnChanges
  <2>5. Marked'
    <3>1. Marks(c)'
      BY <1>3, <2>1, <2>2, NoneStopping DEF Agree, Marked, Marks, OnlyConn
    <3>2. ASSUME NEW d \in Conns \ {c} PROVE Marks(d)'
      <4>1. link'[d] = link[d] /\ link[d].routing # "STOPPING"
        BY <1>3, <2>2, NoneStopping DEF OnlyConn
      <4> QED
        BY <4>1 DEF Agree, Marked, Marks
    <3> QED
      BY <3>1, <3>2 DEF Marked
  <2>6. ~Midway' /\ ~At("bind", "start")' /\ ~At("unbind", "start")' /\ NoneUndone
    BY <1>2 DEF Midway, At, NoneUndone, Undone, Idle
  <2> QED
    BY <1>2, <2>4, <2>5, <2>6, AgreeCalm
<1>5. CASE c = None
  <2>1. UNCHANGED link
    BY <1>1, <1>5 DEF Unfreeze
  <2> QED
    BY <1>2, <1>3, <2>1, FinishAgrees
<1> QED
  BY <1>2, <1>4, <1>5


\* A connection that is somebody's, or about to be, was made.
LEMMA UsedMade ==
  ASSUME Inv, Agree, ~At("bind", "vppb")
  PROVE /\ \A v \in Vppbs : vppb[v].conn # None => vppb[v].conn \in Made
        /\ \A p \in Ports : \A l \in DOMAIN usc[p] : usc[p][l] \in Made
        /\ \A c \in Conns : Placed(c) => c \in Made
<1>1. \A v \in Vppbs : v # None
  BY BindingAssumption
<1>2. ASSUME NEW p \in Ports, NEW l \in DOMAIN usc[p]
      PROVE usc[p][l] \in Made
  <2>1. usc[p][l] \in Conns
    BY EntryOf DEF Inv, TablesInv
  <2>2. link[usc[p][l]].vppb \in Vppbs
    BY DEF Agree, TablesRight, Held
  <2> QED
    BY <1>1, <2>1, <2>2 DEF Made
<1>3. \A v \in Vppbs : vppb[v].conn # None => vppb[v].conn \in Made
  BY <1>1 DEF Agree, TablesRight, Owned, Made, Inv, VppbInv
<1>4. \A c \in Conns : Placed(c) => c \in Made
  BY <1>2 DEF Placed
<1> QED
  BY <1>2, <1>3, <1>4

LEMMA FreshUnmade ==
  ASSUME Numbered
  PROVE Fresh \notin Made /\ Cardinality(Made) \in Nat /\ IsFiniteSet(Made)
<1>1. IsFiniteSet(Made) /\ Cardinality(Made) \in Nat
  <2>1. IsFiniteSet(Conns)
    BY BindingAssumption, FS_Interval DEF Conns
  <2> QED
    BY <2>1, FS_Subset, FS_CardinalityType DEF Made
<1> QED
  BY <1>1 DEF Numbered, Fresh

\* The LD has no connection, so the new one takes nobody's place.
LEMMA BindPpbAgrees ==
  ASSUME Inv, Agree, BindPpb
  PROVE Agree'
<1>1. PICK c, v, p, l : c = Fresh /\ v = cmd.vppb /\ p = cmd.port /\ l = cmd.ld
  OBVIOUS
<1>2. /\ At("bind", "start") /\ ~Bound(v)
      /\ v \in Vppbs /\ p \in Ports /\ l \in Lds /\ c \in Conns
  BY <1>1, FreshConn DEF Inv, CmdOK, BindPpb, At
<1>3. /\ cmd'.op = "bind" /\ cmd'.at = "vppb" /\ cmd'.conn = c
      /\ cmd'.vppb = v /\ cmd'.port = p /\ cmd'.ld = l
  BY <1>1, <1>2 DEF BindPpb, Inv, CmdOK, At
<1>4. /\ \A d \in Conns \ {c} : link'[d] = link[d]
      /\ link'[c] = Opened(v, p, l)
  BY <1>1, <1>2 DEF BindPpb, Inv, LinkInv
<1>5. /\ link'[c].vppb = v /\ link'[c].port = p /\ link'[c].ld = l
      /\ link'[c].routing = "RUNNING" /\ ~link'[c].deaf
      /\ link'[c].vdown = <<>> /\ link'[c].pdown = <<>> /\ link'[c].pup = <<>> /\ link'[c].vup = <<>>
  BY <1>4 DEF Opened, NoLink
<1>6. /\ UNCHANGED <<slot, vppb, portMap, ldMap, reader, mgr, wires>>
      /\ active' = active \cup {v}
      /\ usc' = [usc EXCEPT ![p] = With(usc[p], l, c)]
  BY <1>1 DEF BindPpb
<1>7. /\ l \notin DOMAIN usc[p] /\ ~Midway /\ \A d \in Conns : ~Stopping(d)
  BY <1>1, <1>2 DEF Agree, TablesRight, Prepared, Midway, Stopping, At
<1>8. c \notin Made /\ Cardinality(Made) \in Nat /\ IsFiniteSet(Made)
  BY <1>1, FreshUnmade DEF Agree
<1>9. usc \in [Ports -> Dict(Conns)]
  BY DEF Inv, TablesInv
<1>10. /\ \A q \in Ports : DOMAIN usc'[q] = IF q = p THEN DOMAIN usc[p] \cup {l} ELSE DOMAIN usc[q]
       /\ \A q \in Ports : \A k \in DOMAIN usc[q] : usc'[q][k] = usc[q][k]
       /\ usc'[p][l] = c
  <2>1. PICK w : w = With(usc[p], l, c)
    OBVIOUS
  <2>2. usc'[p] = w /\ \A q \in Ports \ {p} : usc'[q] = usc[q]
    BY <1>2, <1>6, <1>9, <2>1
  <2>3. /\ DOMAIN w = DOMAIN usc[p] \cup {l} /\ w[l] = c
        /\ \A k \in DOMAIN usc[p] \ {l} : w[k] = usc[p][k]
    BY <2>1 DEF With
  <2> QED
    BY <1>2, <1>7, <2>2, <2>3
<1>11. /\ \A w \in Vppbs : vppb[w].conn # None => vppb[w].conn \in Conns \ {c}
       /\ \A q \in Ports : \A k \in DOMAIN usc[q] : usc[q][k] \in Conns \ {c}
       /\ ~Placed(c)
  BY <1>2, <1>8, UsedMade DEF At, Made
<1>12. \A d \in Conns \ {c} : Placed(d) => Placed(d)'
  BY <1>4, <1>10 DEF Placed
<1>13. Placed(c)'
  BY <1>2, <1>5, <1>10 DEF Placed
<1>14. TablesRight'
  <2>1. ASSUME NEW w \in Vppbs, Joined(w), w # v
        PROVE Joined(w)'
    BY <1>4, <1>6, <1>11, <2>1 DEF Joined, Attached, Managed, Bound
  <2>2. ASSUME NEW w \in Vppbs, Free(w), w # v
        PROVE Free(w)'
    BY <1>6, <2>2 DEF Free, Unknown, Bound
  <2>3. Free(v) \/ Joined(v)
    BY <1>2, <1>7 DEF Agree, TablesRight, Staged
  <2>4. Opening(v)'
    BY <1>2, <1>3, <1>6, <2>3 DEF Opening, Free, Joined, Unknown, Bound, At
  <2>5. Staged'
    BY <1>3, <1>7, <2>1, <2>2, <2>4 DEF Agree, TablesRight, Staged, Midway
  <2>6. Owned'
    BY <1>4, <1>6, <1>11, <1>12 DEF Agree, TablesRight, Owned
  <2>7. Held'
    <3>1. ASSUME NEW q \in Ports, NEW k \in DOMAIN usc[q]
          PROVE LET d == usc[q][k] IN
                /\ link'[d].port = q /\ link'[d].ld = k
                /\ link'[d].vppb \in Vppbs /\ vppb'[link'[d].vppb].conn = d
      BY <1>2, <1>4, <1>6, <1>11 DEF Agree, TablesRight, Held, At
    <3>2. At("bind", "vppb")'
      BY <1>3 DEF At
    <3> QED
      BY <1>2, <1>3, <1>5, <1>10, <3>1, <3>2 DEF Held
  <2>8. Prepared'
    BY <1>3, <1>5, <1>13 DEF Prepared, At
  <2> QED
    BY <2>5, <2>6, <2>7, <2>8 DEF TablesRight
<1>15. Marked'
  <2>1. Marks(c)'
    BY <1>5 DEF Marks, StopFree, OneStop
  <2>2. ASSUME NEW d \in Conns \ {c}
        PROVE Marks(d)'
    <3>1. link[d].routing # "STOPPING"
      BY <1>7, NoneStopping
    <3> QED
      BY <1>4, <3>1 DEF Agree, Marked, Marks
  <2> QED
    BY <2>1, <2>2 DEF Marked
<1>16. PacketsRight'
  <2>1. \A w : ~Undone(w)'
    BY <1>3 DEF Undone
  <2>2. ASSUME NEW d \in Conns \ {c}, NEW x \in Aboard(link[d])
        PROVE Fits(d, x)'
    BY <1>4, <1>12, <2>1 DEF Agree, PacketsRight, Fits
  <2>3. Aboard(link'[c]) = {}
    BY <1>5 DEF Aboard, Packets, Items
  <2>4. ASSUME NEW q \in Ports, NEW x \in Items(down[q]) \cup Items(up[q])
        PROVE FitsWire(q, x)'
    <3>1. FitsWire(q, x)
      BY DEF Agree, PacketsRight
    <3> QED
      BY <1>4, <1>10, <1>11, <2>1, <3>1 DEF FitsWire
  <2>5. \A d \in Conns : \A x \in Aboard(link'[d]) : Fits(d, x)'
    BY <1>4, <2>2, <2>3
  <2> QED
    BY <1>6, <2>4, <2>5 DEF Agree, PacketsRight, Aboard, Packets, Items, wires
<1>17. Numbered'
  <2>1. Made' = Made \cup {c}
    <3>1. v # None
      BY <1>2, BindingAssumption
    <3> QED
      BY <1>2, <1>4, <1>5, <3>1 DEF Made
  <2>2. Cardinality(Made') = Cardinality(Made) + 1
    BY <1>8, <2>1, FS_AddElement
  <2>3. c = Cardinality(Made) + 1
    BY <1>1 DEF Fresh
  <2>4. \A d \in Made : d \in Nat
    BY DEF Made, Conns
  <2> QED
    BY <1>8, <2>1, <2>2, <2>3, <2>4 DEF Agree, Numbered
<1>18. Running'
  BY <1>3 DEF Running, At
<1> QED
  BY <1>14, <1>15, <1>16, <1>17, <1>18 DEF Agree

\* Two connections that the port knows are in different places.
LEMMA PlacesDiffer ==
  ASSUME NEW c, NEW d, c # d, Placed(c), Placed(d)
  PROVE link[c].port # link[d].port \/ link[c].ld # link[d].ld
BY DEF Placed

LEMMA BindVppbAgrees ==
  ASSUME Inv, Agree, BindVppb
  PROVE Agree'
<1>1. PICK c, v, p, l : c = cmd.conn /\ v = cmd.vppb /\ p = cmd.port /\ l = cmd.ld
  OBVIOUS
<1>2. /\ At("bind", "vppb") /\ v \in Vppbs /\ p \in Ports /\ l \in Lds /\ c \in Conns
  BY <1>1 DEF Inv, CmdOK, BindVppb, At
<1>3. /\ cmd'.op = "bind" /\ cmd'.at = "slot" /\ cmd'.vppb = v
  BY <1>1, <1>2 DEF BindVppb, Goto, Inv, CmdOK, At
<1>4. /\ UNCHANGED <<slot, active, reader, usc, link, wires>>
      /\ mgr' = [mgr EXCEPT ![p] = With(mgr[p], l, c)]
      /\ vppb' = [vppb EXCEPT ![v] = [ld |-> l, conn |-> c]]
      /\ portMap' = [portMap EXCEPT ![v] = p]
      /\ ldMap' = [ldMap EXCEPT ![v] = l]
  BY <1>1 DEF BindVppb
<1>5. /\ mgr \in [Ports -> Dict(Conns)] /\ vppb \in [Vppbs -> [ld : Lds, conn : Conns \cup {None}]]
      /\ portMap \in [Vppbs -> Ports \cup {None}] /\ ldMap \in [Vppbs -> Lds \cup {None}]
  BY DEF Inv, TablesInv, VppbInv
<1>6. /\ link[c].vppb = v /\ link[c].port = p /\ link[c].ld = l /\ ~link[c].deaf /\ Placed(c)
  BY <1>1, <1>2 DEF Agree, TablesRight, Prepared, At
<1>7. Opening(v)
  BY <1>1, <1>2 DEF Agree, TablesRight, Staged, Midway, At, Opening, Joining, Closing, Parting, Parted
<1>8. /\ DOMAIN mgr'[p] = DOMAIN mgr[p] \cup {l} /\ mgr'[p][l] = c
      /\ \A q \in Ports : \A k \in DOMAIN mgr[q] : (q # p \/ k # l) =>
           k \in DOMAIN mgr'[q] /\ mgr'[q][k] = mgr[q][k]
  <2>1. PICK w : w = With(mgr[p], l, c)
    OBVIOUS
  <2>2. mgr'[p] = w /\ \A q \in Ports \ {p} : mgr'[q] = mgr[q]
    BY <1>2, <1>4, <1>5, <2>1
  <2>3. /\ DOMAIN w = DOMAIN mgr[p] \cup {l} /\ w[l] = c
        /\ \A k \in DOMAIN mgr[p] \ {l} : w[k] = mgr[p][k]
    BY <2>1 DEF With
  <2> QED
    BY <1>2, <2>2, <2>3
<1>9. c # None
  BY <1>2, BindingAssumption
<1>10. \A d \in Conns : Placed(d)' <=> Placed(d)
  BY <1>4 DEF Placed
<1>11. ASSUME NEW w \in Vppbs, w # v, vppb[w].conn # None
       PROVE vppb[w].conn \in Conns /\ vppb[w].conn # c /\ Placed(vppb[w].conn)
  BY <1>5, <1>6, <1>11 DEF Agree, TablesRight, Owned
<1>12. TablesRight'
  <2>1. ASSUME NEW w \in Vppbs, Joined(w), w # v
        PROVE Joined(w)'
    <3>1. PICK d : d = vppb[w].conn
      OBVIOUS
    <3>2. d # None /\ Managed(d)
      BY <2>1, <3>1 DEF Joined, Attached
    <3>3. link[c].port # link[d].port \/ link[c].ld # link[d].ld
      BY <1>6, <1>11, <2>1, <3>1, <3>2, PlacesDiffer
    <3>4. Managed(d)'
      BY <1>4, <1>6, <1>8, <3>2, <3>3 DEF Managed
    <3>5. d = vppb'[w].conn
      BY <1>4, <2>1, <3>1
    <3> QED
      BY <1>4, <2>1, <3>1, <3>4, <3>5 DEF Joined, Attached, Bound
  <2>2. ASSUME NEW w \in Vppbs, Free(w), w # v
        PROVE Free(w)'
    BY <1>4, <2>2 DEF Free, Unknown, Bound
  <2>3. vppb'[v] = [ld |-> l, conn |-> c] /\ portMap'[v] = p /\ ldMap'[v] = l
    BY <1>2, <1>4, <1>5
  <2>4. Joining(v)'
    <3>1. Managed(c)'
      BY <1>2, <1>4, <1>6, <1>8 DEF Managed
    <3> QED
      BY <1>3, <1>4, <1>6, <1>7, <1>9, <2>3, <3>1 DEF Joining, Opening, Attached, Bound, At
  <2>5. Staged'
    BY <1>1, <1>3, <2>1, <2>2, <2>4 DEF Agree, TablesRight, Staged, Midway
  <2>6. Owned'
    <3>1. ASSUME NEW w \in Vppbs, w # v
          PROVE vppb'[w] = vppb[w]
      BY <1>4, <1>5, <3>1
    <3>2. Placed(c)'
      BY <1>6, <1>10, <1>2
    <3>3. ASSUME NEW w \in Vppbs, NEW d, d = vppb'[w].conn, d # None
          PROVE link[d].vppb = w /\ Placed(d)' /\ vppb'[w].ld = link[d].ld
      <4>1. CASE w = v
        BY <1>6, <2>3, <3>2, <3>3, <4>1
      <4>2. CASE w # v
        BY <1>10, <1>11, <3>1, <3>3, <4>2 DEF Agree, TablesRight, Owned
      <4> QED
        BY <4>1, <4>2
    <3> QED
      BY <1>4, <3>3 DEF Owned, Placed
  <2>7. Held'
    <3>1. ASSUME NEW q \in Ports, NEW k \in DOMAIN usc[q]
          PROVE LET d == usc[q][k] IN
                link[d].vppb \in Vppbs /\ vppb'[link[d].vppb].conn = d
      <4>1. PICK d : d = usc[q][k]
        OBVIOUS
      <4>2. CASE d = c
        BY <1>2, <1>6, <2>3, <4>1, <4>2
      <4>3. CASE d # c
        <5>1. link[d].vppb \in Vppbs /\ vppb[link[d].vppb].conn = d
          BY <1>1, <4>1, <4>3 DEF Agree, TablesRight, Held
        <5>2. d # None
          BY <4>1, EntryOf, BindingAssumption DEF Inv, TablesInv
        <5>3. link[d].vppb # v
          BY <1>7, <5>1, <5>2 DEF Opening, Unknown
        <5> QED
          BY <1>4, <1>5, <4>1, <5>1, <5>3
      <4> QED
        BY <4>2, <4>3
    <3> QED
      BY <1>4, <3>1 DEF Agree, TablesRight, Held
  <2>8. Prepared'
    BY <1>3 DEF Prepared, At
  <2> QED
    BY <2>5, <2>6, <2>7, <2>8 DEF TablesRight
<1>13. \A d \in Conns : ~Stopping(d)
  BY <1>2 DEF Stopping, At
<1>14. Marked'
  BY <1>4, <1>13, NoneStopping DEF Agree, Marked, Marks
<1>15. PacketsRight'
  <2>1. NoneUndone
    BY <1>3 DEF NoneUndone, Undone
  <2>2. Delivered
    BY <1>4, StillFrame DEF Delivered, OnWire, wires
  <2> QED
    BY <1>4, <2>1, <2>2, StillFrame, PacketsKept DEF Agree, wires
<1>16. Running'
  BY <1>3 DEF Running, At
<1> QED
  BY <1>4, <1>12, <1>14, <1>15, <1>16, StillFrame, NumberedKept DEF Agree


\* A vPPB stays joined while neither it nor its connection's frame changes.
LEMMA JoinedStill ==
  ASSUME NEW w, Joined(w), NEW d, d = vppb[w].conn,
         SameOwner(d), link'[d].deaf = link[d].deaf, Managed(d)',
         vppb'[w] = vppb[w], portMap'[w] = portMap[w], ldMap'[w] = ldMap[w],
         slot'[w] = slot[w], reader'[w] = reader[w], w \in active'
  PROVE  Joined(w)'
<1>1. Attached(w)'
  BY DEF Joined, Attached, SameOwner
<1> QED
  BY <1>1 DEF Joined, Bound

LEMMA BindSlotAgrees ==
  ASSUME Inv, Agree, BindSlot
  PROVE Agree'
<1>1. PICK v, c : v = cmd.vppb /\ c = vppb[v].conn
  OBVIOUS
<1>2. At("bind", "slot") /\ v \in Vppbs /\ Joining(v)
  BY <1>1 DEF BindSlot, Inv, CmdOK, Agree, TablesRight, Staged, Midway, At,
     Opening, Joining, Closing, Parting, Parted
<1>3. c \in Conns
  BY <1>1, <1>2 DEF Joining, Attached, Inv, VppbInv
<1> DEFINE joined == {"down", "up"}
<1>4. /\ UNCHANGED <<vppb, portMap, ldMap, active, mgr, usc, wires>> /\ cmd' = Idle
      /\ slot' = [slot EXCEPT ![v] = [status |-> "BOUND", conn |-> c]]
      /\ link' = [link EXCEPT ![c].joined = joined]
      /\ reader' = [reader EXCEPT ![v] = c]
  BY <1>1 DEF BindSlot, RouterReads, Finish
<1> HIDE DEF joined
<1>5. /\ OnlyConn(c) /\ link'[c].pdown = link[c].pdown /\ link'[c].routing = link[c].routing
      /\ link'[c].vdown = link[c].vdown /\ link'[c].pup = link[c].pup /\ link'[c].vup = link[c].vup
  BY <1>3, <1>4 DEF Inv, LinkInv, Link, OnlyConn, SameOwner
<1>6. Boarded(c)
  BY <1>5 DEF Boarded, Aboard
<1>7. SameFrame /\ \A d \in Conns : Boarded(d)
  BY <1>3, <1>5, <1>6, OnlyConnChanges
<1>8. \A d \in Conns : ~Stopping(d)
  BY <1>2 DEF Stopping, At
<1>9. Marked'
  <2>1. ASSUME NEW d \in Conns
        PROVE Marks(d)'
    <3>1. /\ link'[d].deaf = link[d].deaf /\ link'[d].vup = link[d].vup
          /\ link'[d].routing = link[d].routing /\ link'[d].pdown = link[d].pdown
      BY <1>5 DEF OnlyConn
    <3>2. link[d].routing # "STOPPING"
      BY <1>8, NoneStopping
    <3> QED
      BY <3>1, <3>2 DEF Agree, Marked, Marks
  <2> QED
    BY <2>1 DEF Marked
<1>10. PacketsRight'
  <2>1. NoneUndone /\ Delivered
    BY <1>4, <1>7 DEF NoneUndone, Undone, Idle, Delivered, OnWire, wires
  <2> QED
    BY <1>4, <1>7, <2>1, PacketsKept DEF Agree, wires
<1>11. \A d \in Conns : (Placed(d)' <=> Placed(d)) /\ (Managed(d)' <=> Managed(d))
  BY <1>4, <1>7 DEF Placed, Managed, SameFrame, SameOwner
<1>12. \A w \in Vppbs : vppb[w].conn \in Conns \cup {None}
  BY DEF Inv, VppbInv
<1>13. TablesRight'
  <2>1. ~Midway'
    BY <1>4 DEF Midway, Idle
  <2>2. ASSUME NEW w \in Vppbs, w # v
        PROVE (Free(w) => Free(w)') /\ (Joined(w) => Joined(w)')
    <3>1. slot'[w] = slot[w] /\ reader'[w] = reader[w]
      BY <1>4, <2>2 DEF Inv, TablesInv
    <3> QED
      BY <1>4, <1>7, <1>11, <1>12, <3>1 DEF Free, Joined, Attached, Unknown, Bound, SameFrame, SameOwner
  <2>3. Joined(v)'
    <3>1. slot'[v] = [status |-> "BOUND", conn |-> c] /\ reader'[v] = c
      BY <1>2, <1>4 DEF Inv, TablesInv
    <3>2. Attached(v) /\ v \in active
      BY <1>2 DEF Joining
    <3>3. SameOwner(c) /\ link'[c].deaf = link[c].deaf /\ (Managed(c)' <=> Managed(c))
      BY <1>3, <1>7, <1>11 DEF SameFrame
    <3>4. Attached(v)'
      BY <1>1, <1>4, <3>2, <3>3 DEF Attached, SameOwner
    <3> QED
      BY <1>1, <1>4, <3>1, <3>2, <3>4 DEF Joined, Bound
  <2>4. Staged'
    BY <1>1, <2>1, <2>2, <2>3 DEF Agree, TablesRight, Staged
  <2>5. Owned'
    BY <1>4, <1>7, <1>11, <1>12 DEF Agree, TablesRight, Owned, SameFrame, SameOwner
  <2>6. Held'
    <3>1. \A p \in Ports : \A l \in DOMAIN usc[p] : usc[p][l] \in Conns
      BY EntryOf DEF Inv, TablesInv
    <3> QED
      BY <1>2, <1>4, <1>7, <3>1 DEF Agree, TablesRight, Held, SameFrame, SameOwner, At
  <2>7. Prepared'
    BY <1>4 DEF Prepared, At, Idle
  <2> QED
    BY <2>4, <2>5, <2>6, <2>7 DEF TablesRight
<1>14. Running'
  BY <1>4 DEF Running, At, Idle
<1> QED
  BY <1>7, <1>9, <1>10, <1>13, <1>14, NumberedKept DEF Agree

\* A vPPB that can be changed is bound as all tables say.
LEMMA ChangeableJoined ==
  ASSUME Inv, Agree, NEW v \in Vppbs, Changeable(v), ~Midway
  PROVE /\ Joined(v) /\ vppb[v].conn \in Conns /\ Placed(vppb[v].conn) /\ Managed(vppb[v].conn)
        /\ portMap[v] = link[vppb[v].conn].port /\ vppb[v].ld = link[vppb[v].conn].ld
        /\ link[vppb[v].conn].vppb = v
BY DEF Agree, TablesRight, Staged, Owned, Changeable, Joined, Free, Attached, Inv, VppbInv

LEMMA UnbindManagersAgrees ==
  ASSUME Inv, Agree, UnbindManagers
  PROVE Agree'
<1>1. PICK v, c, p, l : v = cmd.vppb /\ c = vppb[v].conn /\ p = portMap[v] /\ l = vppb[v].ld
  OBVIOUS
<1>2. /\ At("unbind", "start") /\ v \in Vppbs /\ Changeable(v) /\ ~Midway
      /\ \A d \in Conns : ~Stopping(d)
  BY <1>1 DEF UnbindManagers, Inv, CmdOK, Midway, Stopping, At
<1>3. /\ Joined(v) /\ c \in Conns /\ Placed(c) /\ Managed(c)
      /\ p = link[c].port /\ l = link[c].ld /\ link[c].vppb = v
  BY <1>1, <1>2, ChangeableJoined
<1>4. l \in DOMAIN mgr[p] /\ mgr[p][l] = c /\ p \in Ports /\ l \in Lds
  BY <1>3, ConnQueues DEF Managed, Link
<1> DEFINE q == Append(link[c].vup, Stop)
           deaf == TRUE
<1>5. /\ UNCHANGED <<slot, vppb, portMap, ldMap, active, reader, usc, wires>>
      /\ mgr' = [mgr EXCEPT ![p] = Without(mgr[p], l)]
      /\ link' = [link EXCEPT ![c].deaf = deaf, ![c].vup = q]
      /\ cmd' = [cmd EXCEPT !.at = "ppb", !.ld = l, !.port = p, !.conn = c]
  BY <1>1, <1>4 DEF UnbindManagers
<1>6. /\ cmd'.op = "unbind" /\ cmd'.at = "ppb" /\ cmd'.vppb = v /\ cmd'.port = p /\ cmd'.ld = l
  BY <1>1, <1>2, <1>5 DEF Inv, CmdOK, At
<1>7. \A x \in Packets(q) : x \in Packets(link[c].vup)
  BY <1>3, ConnQueues, PacketsAppend DEF Queue
<1> HIDE DEF q
<1>8. /\ \A d \in Conns \ {c} : link'[d] = link[d]
      /\ SameOwner(c) /\ link'[c].deaf
      /\ link'[c].pdown = link[c].pdown /\ link'[c].routing = link[c].routing
      /\ link'[c].vdown = link[c].vdown /\ link'[c].pup = link[c].pup /\ link'[c].vup = q
  BY <1>3, <1>5 DEF Inv, LinkInv, Link, SameOwner
<1>9. \A d \in Conns : SameOwner(d)
  BY <1>8 DEF SameOwner
<1>10. mgr \in [Ports -> Dict(Conns)]
  BY DEF Inv, TablesInv
<1>11. ASSUME NEW d \in Conns \ {c}, Placed(d), Managed(d)
       PROVE Managed(d)'
  <2>1. link[d].port # p \/ link[d].ld # l
    BY <1>3, <1>11, PlacesDiffer
  <2>2. PICK w : w = Without(mgr[p], l)
    OBVIOUS
  <2>3. mgr'[p] = w /\ \A r \in Ports \ {p} : mgr'[r] = mgr[r]
    BY <1>4, <1>5, <1>10, <2>2
  <2>4. DOMAIN w = DOMAIN mgr[p] \ {l} /\ \A k \in DOMAIN mgr[p] \ {l} : w[k] = mgr[p][k]
    BY <2>2 DEF Without
  <2> QED
    BY <1>8, <1>11, <2>1, <2>3, <2>4 DEF Managed
<1>12. \A w \in Vppbs : vppb[w].conn \in Conns \cup {None}
  BY DEF Inv, VppbInv
<1>13. \A d \in Conns : Placed(d)' <=> Placed(d)
  BY <1>5, <1>9 DEF Placed, SameOwner
<1>14. TablesRight'
  <2>1. ASSUME NEW w \in Vppbs, w # v
        PROVE Free(w)' \/ Joined(w)'
    <3>1. Free(w) \/ Joined(w)
      BY <1>2 DEF Agree, TablesRight, Staged
    <3>2. CASE Free(w)
      BY <1>5, <3>2 DEF Free, Unknown, Bound
    <3>3. CASE Joined(w)
      <4>1. PICK d : d = vppb[w].conn
        OBVIOUS
      <4>2. d \in Conns /\ d # c /\ Placed(d) /\ Managed(d)
        BY <1>3, <1>12, <2>1, <3>3, <4>1 DEF Joined, Attached, Agree, TablesRight, Owned
      <4>3. Managed(d)' /\ link'[d] = link[d]
        BY <1>8, <1>11, <4>2
      <4>4. SameOwner(d) /\ link'[d].deaf = link[d].deaf
        BY <4>3 DEF SameOwner
      <4>5. /\ vppb'[w] = vppb[w] /\ portMap'[w] = portMap[w] /\ ldMap'[w] = ldMap[w]
            /\ slot'[w] = slot[w] /\ reader'[w] = reader[w] /\ w \in active'
        BY <1>5, <3>3 DEF Joined
      <4> QED
        BY <3>3, <4>1, <4>3, <4>4, <4>5, JoinedStill
    <3> QED
      BY <3>1, <3>2, <3>3
  <2>2. Closing(v)'
    <3>1. c # None
      BY <1>3, BindingAssumption
    <3>2. At("unbind", "ppb")' /\ cmd'.port = link'[c].port /\ cmd'.ld = link'[c].ld
      BY <1>3, <1>6, <1>9 DEF SameOwner, At
    <3> QED
      BY <1>1, <1>5, <3>1, <3>2 DEF Closing
  <2>3. Staged'
    BY <1>6, <2>1, <2>2 DEF Staged, Midway
  <2>4. Owned'
    BY <1>5, <1>9, <1>12, <1>13 DEF Agree, TablesRight, Owned, SameOwner
  <2>5. Held'
    <3>1. \A r \in Ports : \A k \in DOMAIN usc[r] : usc[r][k] \in Conns
      BY EntryOf DEF Inv, TablesInv
    <3>2. usc' = usc /\ vppb' = vppb /\ ~At("bind", "vppb")
      BY <1>2, <1>5 DEF At
    <3> QED
      BY <1>9, <3>1, <3>2 DEF Agree, TablesRight, Held, SameOwner
  <2>6. Prepared'
    BY <1>6 DEF Prepared, At
  <2> QED
    BY <2>3, <2>4, <2>5, <2>6 DEF TablesRight
<1>15. Marked'
  <2>1. Marks(c)'
    BY <1>2, <1>3, <1>8, NoneStopping DEF Agree, Marked, Marks
  <2>2. ASSUME NEW d \in Conns \ {c}
        PROVE Marks(d)'
    BY <1>2, <1>8, NoneStopping DEF Agree, Marked, Marks
  <2> QED
    BY <2>1, <2>2 DEF Marked
<1>16. PacketsRight'
  <2>1. ASSUME NEW d \in Conns, NEW x, Fits(d, x)
        PROVE Fits(d, x)'
    BY <1>2, <1>1, <1>6, <1>9, <1>13, <2>1 DEF Fits, SameOwner, Undone, At
  <2>2. \A d \in Conns : \A x \in Aboard(link'[d]) : x \in Aboard(link[d])
    BY <1>7, <1>8 DEF Aboard
  <2>3. ASSUME NEW r \in Ports, NEW x \in Items(down[r]) \cup Items(up[r])
        PROVE FitsWire(r, x)'
    <3>1. FitsWire(r, x)
      BY DEF Agree, PacketsRight
    <3>2. usc[r][x.ld] \in Conns
      BY <3>1, EntryOf DEF FitsWire, Inv, TablesInv
    <3> QED
      BY <1>1, <1>2, <1>5, <1>6, <1>9, <3>1, <3>2 DEF FitsWire, SameOwner, Undone, At
  <2>4. \A d \in Conns : \A x \in Aboard(link'[d]) : Fits(d, x)'
    BY <2>1, <2>2 DEF Agree, PacketsRight
  <2>5. UNCHANGED wires
    BY <1>5
  <2> QED
    BY <2>3, <2>4, <2>5 DEF Agree, PacketsRight, Aboard, Packets, Items, wires
<1>17. Running'
  BY <1>1, <1>2, <1>3, <1>5, <1>6, <1>8 DEF Agree, Running, At
<1>18. Numbered'
  <2>1. Made' = Made
    BY <1>9 DEF Made, SameOwner
  <2> QED
    BY <2>1 DEF Agree, Numbered
<1> QED
  BY <1>14, <1>15, <1>16, <1>17, <1>18 DEF Agree


\* The unbind's routing runs, so it is told to stop; nothing is on its way.
LEMMA UnbindPpbAgrees ==
  ASSUME Inv, Agree, UnbindPpb
  PROVE Agree'
<1>1. PICK v, c, p, l : v = cmd.vppb /\ c = vppb[v].conn /\ p = cmd.port /\ l = cmd.ld
  OBVIOUS
<1>2. At("unbind", "ppb") /\ v \in Vppbs /\ Midway /\ \A d \in Conns : ~Stopping(d)
  BY <1>1 DEF UnbindPpb, Inv, CmdOK, Midway, Stopping, At
<1>3. Closing(v)
  BY <1>1, <1>2 DEF Agree, TablesRight, Staged, At, Opening, Joining, Closing, Parting, Parted
<1>4. /\ c \in Conns /\ Placed(c) /\ p = link[c].port /\ l = link[c].ld /\ link[c].vppb = v
      /\ link[c].routing = "RUNNING"
  BY <1>1, <1>2, <1>3 DEF Closing, Agree, TablesRight, Owned, Inv, VppbInv, Running
<1>5. l \in DOMAIN usc[p] /\ usc[p][l] = c /\ p \in Ports /\ l \in Lds
  BY <1>4, ConnQueues DEF Placed, Link
<1> DEFINE q == Append(link[c].pdown, Stop)
<1>6. /\ UNCHANGED <<slot, portMap, ldMap, active, reader, mgr, wires>>
      /\ vppb' = [vppb EXCEPT ![v] = [ld |-> 0, conn |-> None]]
      /\ usc' = [usc EXCEPT ![p] = Without(usc[p], l)]
      /\ link' = [link EXCEPT ![c].pdown = q, ![c].routing = "STOPPING"]
      /\ cmd' = [cmd EXCEPT !.at = "slot", !.conn = c]
  BY <1>1, <1>4, <1>5 DEF UnbindPpb
<1>7. cmd'.op = "unbind" /\ cmd'.at = "slot" /\ cmd'.vppb = v /\ cmd'.conn = c
  BY <1>1, <1>2, <1>6 DEF Inv, CmdOK, At
<1>8. link[c].pdown \in Seq(Requests \cup {Stop}) /\ Stop \in Requests \cup {Stop}
  BY <1>4, ConnQueues DEF Queue
<1>9. \A x \in Packets(q) : x \in Packets(link[c].pdown)
  BY <1>8, PacketsAppend
<1>10. OneStop(q)
  BY <1>2, <1>4, <1>8, NoneStopping, StopsAppend
<1> HIDE DEF q
<1>11. /\ OnlyConn(c) /\ link'[c].pdown = q /\ link'[c].routing = "STOPPING"
       /\ link'[c].vdown = link[c].vdown /\ link'[c].pup = link[c].pup /\ link'[c].vup = link[c].vup
  BY <1>4, <1>6 DEF Inv, LinkInv, Link, OnlyConn, SameOwner
<1>12. SameFrame
  BY <1>4, <1>11, OnlyConnChanges
<1>13. /\ vppb'[v] = [ld |-> 0, conn |-> None]
       /\ \A w \in Vppbs \ {v} : vppb'[w] = vppb[w]
  BY <1>2, <1>6 DEF Inv, VppbInv
<1>14. /\ \A r \in Ports : DOMAIN usc'[r] \subseteq DOMAIN usc[r]
       /\ l \notin DOMAIN usc'[p]
       /\ \A r \in Ports : \A k \in DOMAIN usc[r] :
            r # p \/ k # l => k \in DOMAIN usc'[r] /\ usc'[r][k] = usc[r][k]
  <2>1. PICK w : w = Without(usc[p], l)
    OBVIOUS
  <2>2. usc'[p] = w /\ \A r \in Ports \ {p} : usc'[r] = usc[r]
    BY <1>5, <1>6, <2>1 DEF Inv, TablesInv
  <2>3. DOMAIN w = DOMAIN usc[p] \ {l} /\ \A k \in DOMAIN usc[p] \ {l} : w[k] = usc[p][k]
    BY <2>1 DEF Without
  <2> QED
    BY <2>2, <2>3
<1>15. ASSUME NEW d \in Conns \ {c}, Placed(d)
       PROVE Placed(d)'
  <2>1. link[d].port # p \/ link[d].ld # l
    BY <1>4, <1>15, PlacesDiffer
  <2> QED
    BY <1>11, <1>14, <1>15, <2>1 DEF Placed, OnlyConn
<1>16. \A d \in Conns : Managed(d)' <=> Managed(d)
  BY <1>6, <1>12 DEF Managed, SameFrame, SameOwner
<1>17. \A w \in Vppbs : vppb[w].conn \in Conns \cup {None}
  BY DEF Inv, VppbInv
<1>18. TablesRight'
  <2>1. ASSUME NEW w \in Vppbs, w # v
        PROVE Free(w)' \/ Joined(w)'
    <3>1. Free(w) \/ Joined(w)
      BY <1>1, <2>1 DEF Agree, TablesRight, Staged
    <3>2. CASE Free(w)
      BY <1>6, <1>13, <2>1, <3>2 DEF Free, Unknown, Bound
    <3>3. CASE Joined(w)
      <4>1. PICK d : d = vppb[w].conn
        OBVIOUS
      <4>2. d \in Conns /\ Managed(d) /\ w \in active
        BY <1>17, <3>3, <4>1 DEF Joined, Attached
      <4>3. SameOwner(d) /\ link'[d].deaf = link[d].deaf /\ Managed(d)'
        BY <1>12, <1>16, <4>2 DEF SameFrame
      <4>4. /\ vppb'[w] = vppb[w] /\ portMap'[w] = portMap[w] /\ ldMap'[w] = ldMap[w]
            /\ slot'[w] = slot[w] /\ reader'[w] = reader[w] /\ w \in active'
        BY <1>6, <1>13, <2>1, <4>2
      <4> QED
        BY <3>3, <4>1, <4>3, <4>4, JoinedStill
    <3> QED
      BY <3>1, <3>2, <3>3
  <2>2. Parting(v)'
    BY <1>7, <1>13 DEF Parting, At
  <2>3. Staged'
    BY <1>7, <2>1, <2>2 DEF Staged, Midway
  <2>4. ASSUME NEW w \in Vppbs, NEW d, d = vppb'[w].conn, d # None
        PROVE link'[d].vppb = w /\ Placed(d)' /\ vppb'[w].ld = link'[d].ld
    <3>1. w # v /\ vppb'[w] = vppb[w]
      BY <1>13, <2>4
    <3>2. d \in Conns /\ link[d].vppb = w /\ Placed(d) /\ vppb[w].ld = link[d].ld
      BY <1>17, <2>4, <3>1 DEF Agree, TablesRight, Owned
    <3> QED
      BY <1>4, <1>12, <1>15, <3>1, <3>2 DEF SameFrame, SameOwner
  <2>5. Owned'
    BY <2>4 DEF Owned, Placed
  <2>6. ASSUME NEW r \in Ports, NEW k \in DOMAIN usc'[r], NEW d, d = usc'[r][k]
        PROVE /\ link'[d].port = r /\ link'[d].ld = k
              /\ link'[d].vppb \in Vppbs /\ vppb'[link'[d].vppb].conn = d
    <3>1. (r # p \/ k # l) /\ k \in DOMAIN usc[r] /\ d = usc[r][k]
      BY <1>14, <2>6
    <3>2. d \in Conns
      BY <3>1, EntryOf DEF Inv, TablesInv
    <3>3. /\ link[d].port = r /\ link[d].ld = k
          /\ link[d].vppb \in Vppbs /\ vppb[link[d].vppb].conn = d
      BY <1>2, <3>1 DEF Agree, TablesRight, Held, At
    <3>4. link[d].vppb # v
      BY <1>1, <1>4, <3>1, <3>3
    <3> QED
      BY <1>12, <1>13, <3>2, <3>3, <3>4 DEF SameFrame, SameOwner
  <2>7. Held'
    BY <2>6 DEF Held
  <2>8. Prepared'
    BY <1>7 DEF Prepared, At
  <2> QED
    BY <2>3, <2>5, <2>7, <2>8 DEF TablesRight
<1>19. Marked'
  <2>1. Marks(c)'
    BY <1>4, <1>7, <1>10, <1>11 DEF Agree, Marked, Marks, OnlyConn, Stopping, At
  <2>2. ASSUME NEW d \in Conns \ {c}
        PROVE Marks(d)'
    BY <1>2, <1>11, NoneStopping DEF Agree, Marked, Marks, OnlyConn
  <2> QED
    BY <2>1, <2>2 DEF Marked
<1>20. PacketsRight'
  <2>1. Undone(v) /\ \A w : Undone(w)' => Undone(w)
    BY <1>1, <1>2, <1>7 DEF Undone, At
  <2>2. \A x : ~Fits(c, x)
    BY <1>4, <2>1 DEF Fits
  <2>3. Aboard(link'[c]) = {}
    <3>1. \A x \in Aboard(link'[c]) : x \in Aboard(link[c])
      BY <1>9, <1>11 DEF Aboard
    <3> QED
      BY <1>4, <2>2, <3>1 DEF Agree, PacketsRight
  <2>4. ASSUME NEW d \in Conns \ {c}, NEW x \in Aboard(link[d])
        PROVE Fits(d, x)'
    BY <1>12, <1>15, <2>1 DEF Agree, PacketsRight, Fits, SameFrame, SameOwner
  <2>5. ASSUME NEW r \in Ports, NEW x \in Items(down[r]) \cup Items(up[r])
        PROVE FitsWire(r, x)'
    <3>1. FitsWire(r, x)
      BY DEF Agree, PacketsRight
    <3>2. usc[r][x.ld] \in Conns /\ (r # p \/ x.ld # l)
      BY <1>4, <1>5, <2>1, <3>1, EntryOf DEF FitsWire, Inv, TablesInv
    <3> QED
      BY <1>12, <1>14, <2>1, <3>1, <3>2 DEF FitsWire, SameFrame, SameOwner
  <2>6. \A d \in Conns : \A x \in Aboard(link'[d]) : Fits(d, x)'
    BY <1>11, <2>3, <2>4 DEF OnlyConn
  <2>7. UNCHANGED wires
    BY <1>6
  <2> QED
    BY <2>5, <2>6, <2>7 DEF Agree, PacketsRight, Aboard, Packets, Items, wires
<1>21. Running'
  BY <1>7 DEF Running, At
<1> QED
  BY <1>12, <1>18, <1>19, <1>20, <1>21, NumberedKept DEF Agree

\* Both ends of the bind processor get an end marker, which changes nothing else.
LEMMA UnbindSlotAgrees ==
  ASSUME Inv, Agree, UnbindSlot
  PROVE Agree'
<1>1. PICK v, c, e : v = cmd.vppb /\ c = slot[v].conn /\ e = cmd.conn
  OBVIOUS
<1>2. /\ At("unbind", "slot") /\ v \in Vppbs /\ Midway
      /\ link[e].routing = "STOPPED" /\ \A d \in Conns : Stopping(d) => d = e
  BY <1>1 DEF UnbindSlot, Inv, CmdOK, Midway, Stopping, At
<1>3. Parting(v)
  BY <1>1, <1>2 DEF Agree, TablesRight, Staged, At, Opening, Joining, Closing, Parting, Parted
<1> DEFINE q == Append(link[c].vdown, Stop)
           u == Append(link[c].pup, Stop)
           r == [link[c] EXCEPT !.vdown = q, !.pup = u]
<1>4. /\ UNCHANGED <<slot, vppb, ldMap, active, reader, mgr, usc, wires>>
      /\ portMap' = [portMap EXCEPT ![v] = None]
      /\ link' = [link EXCEPT ![c] = r]
      /\ cmd' = [cmd EXCEPT !.at = "done", !.conn = c]
  BY <1>1 DEF UnbindSlot, EndBoth
<1>5. cmd'.op = "unbind" /\ cmd'.at = "done" /\ cmd'.vppb = v
  BY <1>1, <1>2, <1>4 DEF Inv, CmdOK, At
<1>6. ASSUME NEW d \in Conns
      PROVE /\ SameOwner(d) /\ link'[d].deaf = link[d].deaf /\ link'[d].vup = link[d].vup
            /\ link'[d].pdown = link[d].pdown /\ link'[d].routing = link[d].routing
            /\ Boarded(d)
  <2>1. CASE d = c
    <3>1. link[c].vdown \in Seq(Requests \cup {Stop}) /\ link[c].pup \in Seq(Requests \cup {Stop})
      BY <2>1, ConnQueues DEF Queue
    <3>2. /\ \A x \in Packets(q) : x \in Packets(link[c].vdown)
          /\ \A x \in Packets(u) : x \in Packets(link[c].pup)
      BY <3>1, PacketsAppend
    <3> HIDE DEF q, u
    <3>3. link'[c] = r
      BY <1>4, <2>1 DEF Inv, LinkInv
    <3>4. link[c] \in Link
      BY <2>1, ConnQueues
    <3>5. /\ r.vppb = link[c].vppb /\ r.port = link[c].port /\ r.ld = link[c].ld
          /\ r.deaf = link[c].deaf /\ r.vup = link[c].vup /\ r.pdown = link[c].pdown
          /\ r.routing = link[c].routing /\ r.vdown = q /\ r.pup = u
      BY <3>4 DEF Link
    <3> QED
      BY <2>1, <3>2, <3>3, <3>5 DEF SameOwner, Boarded, Aboard
  <2>2. CASE d # c
    <3>1. link'[d] = link[d]
      BY <1>4, <2>2 DEF Inv, LinkInv
    <3> QED
      BY <3>1 DEF SameOwner, Boarded
  <2> QED
    BY <2>1, <2>2
<1>7. SameFrame
  BY <1>6 DEF SameFrame
<1>8. \A d \in Conns : (Placed(d)' <=> Placed(d)) /\ (Managed(d)' <=> Managed(d))
  BY <1>4, <1>7 DEF Placed, Managed, SameFrame, SameOwner
<1>9. \A w \in Vppbs : vppb[w].conn \in Conns \cup {None}
  BY DEF Inv, VppbInv
<1>10. portMap'[v] = None /\ \A w \in Vppbs \ {v} : portMap'[w] = portMap[w]
  BY <1>2, <1>4 DEF Inv, TablesInv
<1>11. TablesRight'
  <2>1. ASSUME NEW w \in Vppbs, w # v
        PROVE Free(w)' \/ Joined(w)'
    <3>1. Free(w) \/ Joined(w)
      BY <1>1, <2>1 DEF Agree, TablesRight, Staged
    <3>2. CASE Free(w)
      BY <1>4, <1>10, <2>1, <3>2 DEF Free, Unknown, Bound
    <3>3. CASE Joined(w)
      BY <1>4, <1>7, <1>8, <1>9, <1>10, <2>1, <3>3 DEF Joined, Attached, Bound, SameFrame, SameOwner
    <3> QED
      BY <3>1, <3>2, <3>3
  <2>2. Parted(v)'
    BY <1>3, <1>4, <1>5, <1>10 DEF Parting, Parted, At
  <2>3. Staged'
    BY <1>5, <2>1, <2>2 DEF Staged, Midway
  <2>4. Owned'
    BY <1>4, <1>7, <1>8, <1>9 DEF Agree, TablesRight, Owned, SameFrame, SameOwner
  <2>5. Held'
    <3>1. \A p \in Ports : \A l \in DOMAIN usc[p] : usc[p][l] \in Conns
      BY EntryOf DEF Inv, TablesInv
    <3>2. usc' = usc /\ vppb' = vppb /\ ~At("bind", "vppb")
      BY <1>2, <1>4 DEF At
    <3> QED
      BY <1>7, <3>1, <3>2 DEF Agree, TablesRight, Held, SameFrame, SameOwner
  <2>6. Prepared'
    BY <1>5 DEF Prepared, At
  <2> QED
    BY <2>3, <2>4, <2>5, <2>6 DEF TablesRight
<1>12. Marked'
  <2>1. ASSUME NEW d \in Conns
        PROVE Marks(d)'
    <3>1. link[d].routing # "STOPPING"
      BY <1>2, NoneStopping
    <3> QED
      BY <1>6, <3>1 DEF Agree, Marked, Marks
  <2> QED
    BY <2>1 DEF Marked
<1>13. PacketsRight'
  <2>1. NoneUndone
    BY <1>1, <1>2, <1>5 DEF NoneUndone, Undone, At
  <2>2. Delivered
    BY <1>4, <1>6 DEF Delivered, OnWire, wires
  <2> QED
    BY <1>4, <1>7, <2>1, <2>2, PacketsKept DEF Agree, wires
<1>14. Running'
  BY <1>5 DEF Running, At
<1> QED
  BY <1>7, <1>11, <1>12, <1>13, <1>14, NumberedKept DEF Agree

LEMMA UnbindDoneAgrees ==
  ASSUME Inv, Agree, UnbindDone
  PROVE Agree'
<1>1. PICK v : v = cmd.vppb
  OBVIOUS
<1>2. /\ At("unbind", "done") /\ v \in Vppbs /\ Midway
      /\ \A d \in Conns : ~Stopping(d)
  BY <1>1 DEF UnbindDone, Inv, CmdOK, Midway, Stopping, At
<1>3. Parted(v)
  BY <1>1, <1>2 DEF Agree, TablesRight, Staged, At, Opening, Joining, Closing, Parting, Parted
<1>4. /\ UNCHANGED <<vppb, portMap, mgr, usc, link, wires>> /\ cmd' = Idle
      /\ slot' = [slot EXCEPT ![v] = UnboundSlot]
      /\ active' = active \ {v}
      /\ ldMap' = [ldMap EXCEPT ![v] = None]
      /\ reader' = [reader EXCEPT ![v] = None]
  BY <1>1 DEF UnbindDone, Finish
<1>5. /\ slot'[v].status = "UNBOUND" /\ ldMap'[v] = None /\ reader'[v] = None
      /\ \A w \in Vppbs \ {v} : slot'[w] = slot[w] /\ ldMap'[w] = ldMap[w] /\ reader'[w] = reader[w]
  BY <1>2, <1>4 DEF Inv, TablesInv, UnboundSlot
<1>6. TablesRight'
  <2>1. ASSUME NEW w \in Vppbs, w # v
        PROVE Free(w)' \/ Joined(w)'
    <3>1. Free(w) \/ Joined(w)
      BY <1>1, <2>1 DEF Agree, TablesRight, Staged
    <3> QED
      BY <1>4, <1>5, <2>1, <3>1 DEF Free, Joined, Attached, Unknown, Bound, Managed
  <2>2. Free(v)'
    BY <1>3, <1>4, <1>5 DEF Parted, Free, Unknown, Bound
  <2>3. Staged'
    BY <1>4, <2>1, <2>2 DEF Staged, Midway, Idle
  <2>4. Owned'
    BY <1>4 DEF Agree, TablesRight, Owned, Placed
  <2>5. Held'
    BY <1>2, <1>4 DEF Agree, TablesRight, Held, At
  <2>6. Prepared'
    BY <1>4 DEF Prepared, At, Idle
  <2> QED
    BY <2>3, <2>4, <2>5, <2>6 DEF TablesRight
<1>7. Marked'
  BY <1>2, <1>4, NoneStopping DEF Agree, Marked, Marks
<1>8. PacketsRight'
  <2>1. NoneUndone
    BY <1>4 DEF NoneUndone, Undone, Idle
  <2>2. Delivered
    BY <1>4, StillFrame DEF Delivered, OnWire, wires
  <2> QED
    BY <1>4, <2>1, <2>2, StillFrame, PacketsKept DEF Agree, wires
<1>9. Running'
  BY <1>4 DEF Running, At, Idle
<1> QED
  BY <1>4, <1>6, <1>7, <1>8, <1>9, StillFrame, NumberedKept DEF Agree

----------------------------------------------------------------------------
(* Initially the connections of the configured vPPBs are numbered in their *)
(* order, one to each.                                                     *)

Configured == {v \in Vppbs : InitialBounds[v] # None}

\* A connection that was just opened for a configured vPPB
Ready(r, v) ==
  /\ r.vppb = v /\ r.port = InitialBounds[v].port /\ r.ld = InitialBounds[v].ld
  /\ r.routing = "RUNNING" /\ ~r.deaf
  /\ r.vdown = <<>> /\ r.pdown = <<>> /\ r.pup = <<>> /\ r.vup = <<>>

LEMMA ConfiguredBounds ==
  ASSUME NEW v \in Configured
  PROVE /\ v \in Vppbs /\ v # None /\ InitialConn(v) \in Conns /\ InitialConn(v) # None
        /\ InitialBounds[v].port \in Ports /\ InitialBounds[v].ld \in Lds
        /\ InitialBounds[v] = [port |-> InitialBounds[v].port, ld |-> InitialBounds[v].ld]
        /\ InitialBounds[v].port # None /\ InitialBounds[v].ld # None
<1>1. v \in Vppbs /\ InitialBounds[v] \in Targets
  BY BindingAssumption DEF Configured
<1>2. InitialConn(v) \in Conns
  BY InitialConnOf DEF Configured
<1> QED
  BY <1>1, <1>2, BindingAssumption DEF Targets

LEMMA InitialConnsGrow ==
  ASSUME NEW v \in Configured, NEW w \in Configured, v < w
  PROVE InitialConn(v) # InitialConn(w)
<1> DEFINE S(u) == {x \in Vppbs : x <= u /\ InitialBounds[x] # None}
<1>1. v \in Nat /\ w \in Nat /\ Vppbs \subseteq Nat /\ IsFiniteSet(Vppbs)
  BY BindingAssumption DEF Configured
<1>2. S(v) \subseteq S(w) /\ S(w) \subseteq Vppbs
  <2>1. ASSUME NEW x \in Vppbs, x <= v
        PROVE x <= w
    <3>1. x \in Nat
      BY <1>1
    <3> QED
      BY <1>1, <2>1, <3>1
  <2> QED
    BY <2>1
<1>3. w \in S(w) /\ w \notin S(v)
  BY <1>1 DEF Configured
<1>4. InitialConn(v) = Cardinality(S(v)) /\ InitialConn(w) = Cardinality(S(w))
  BY DEF InitialConn
<1> HIDE DEF S
<1>5. IsFiniteSet(S(w))
  BY <1>1, <1>2, FS_Subset
<1> QED
  BY <1>2, <1>3, <1>4, <1>5, FS_Subset

LEMMA InitialConnsDiffer ==
  ASSUME NEW v \in Configured, NEW w \in Configured, InitialConn(v) = InitialConn(w)
  PROVE v = w
<1>1. v \in Nat /\ w \in Nat
  BY BindingAssumption DEF Configured
<1>2. v < w \/ w < v \/ v = w
  BY <1>1
<1> QED
  BY <1>2, InitialConnsGrow

LEMMA InitialLinks ==
  ASSUME Init, NEW c \in Conns
  PROVE \/ link[c] = NoLink
        \/ \E v \in Configured : c = InitialConn(v) /\ Ready(link[c], v)
<1>1. CASE InitialVppb(c) = {}
  BY <1>1 DEF Init
<1>2. CASE InitialVppb(c) # {}
  <2> DEFINE v == CHOOSE w \in InitialVppb(c) : TRUE
             p == InitialBounds[v].port
             l == InitialBounds[v].ld
             both == {"down", "up"}
  <2>1. v \in InitialVppb(c)
    BY <1>2
  <2>2. v \in Configured /\ c = InitialConn(v)
    BY <2>1 DEF InitialVppb, Configured
  <2>3. link[c] = [Opened(v, p, l) EXCEPT !.joined = both]
    BY <1>2 DEF Init
  <2> HIDE DEF v
  <2>4. Ready(link[c], v)
    BY <2>3 DEF Ready, Opened, NoLink
  <2> QED
    BY <2>2, <2>4
<1> QED
  BY <1>1, <1>2

LEMMA InitialLinkOf ==
  ASSUME Init, NEW v \in Configured
  PROVE Ready(link[InitialConn(v)], v)
<1>1. InitialConn(v) \in Conns /\ v \in InitialVppb(InitialConn(v))
  BY ConfiguredBounds DEF Configured, InitialVppb
<1> DEFINE c == InitialConn(v)
           w == CHOOSE u \in InitialVppb(c) : TRUE
           p == InitialBounds[w].port
           l == InitialBounds[w].ld
           both == {"down", "up"}
<1>2. w \in InitialVppb(c)
  BY <1>1
<1>3. w \in Configured /\ InitialConn(w) = InitialConn(v)
  BY <1>2 DEF InitialVppb, Configured
<1>4. w = v
  BY <1>3, InitialConnsDiffer
<1>5. link[c] = [Opened(w, p, l) EXCEPT !.joined = both]
  BY <1>1 DEF Init
<1> HIDE DEF w, c
<1>6. Ready(link[c], w)
  BY <1>5 DEF Ready, Opened, NoLink
<1> QED
  BY <1>4, <1>6 DEF c

LEMMA InitialPlaces ==
  ASSUME Init, NEW v \in Configured, NEW p, NEW l, InitialBounds[v] = [port |-> p, ld |-> l]
  PROVE /\ p \in Ports /\ l \in DOMAIN usc[p] /\ usc[p][l] = InitialConn(v)
        /\ l \in DOMAIN mgr[p] /\ mgr[p][l] = InitialConn(v)
<1>1. p \in Ports /\ l \in Lds /\ v \in Vppbs
  BY ConfiguredBounds
<1>2. l \in InitialLds(p)
  BY <1>1 DEF InitialLds
<1> DEFINE w == CHOOSE u \in Vppbs : InitialBounds[u] = [port |-> p, ld |-> l]
<1>3. w \in Vppbs /\ InitialBounds[w] = InitialBounds[v]
  BY <1>1
<1>4. w = v
  BY <1>1, <1>3, BindingAssumption DEF Configured
<1>5. usc[p] = [k \in InitialLds(p) |->
                  InitialConn(CHOOSE u \in Vppbs : InitialBounds[u] = [port |-> p, ld |-> k])]
  BY <1>1 DEF Init
<1>6. usc[p][l] = InitialConn(w)
  BY <1>2, <1>5
<1> QED
  BY <1>1, <1>2, <1>4, <1>5, <1>6 DEF Init

LEMMA InitNumbered == Init => Numbered
<1> SUFFICES ASSUME Init, NEW c \in Made PROVE c <= Cardinality(Made)
  BY DEF Numbered
<1>1. IsFiniteSet(Configured) /\ IsFiniteSet(Conns)
  BY BindingAssumption, FS_Subset, FS_Interval DEF Configured, Conns
<1>2. IsFiniteSet(Made)
  BY <1>1, FS_Subset DEF Made
<1> DEFINE f == [v \in Configured |-> InitialConn(v)]
<1>3. ASSUME NEW v \in Configured
      PROVE InitialConn(v) \in Made
  <2>1. link[InitialConn(v)].vppb = v
    BY InitialLinkOf DEF Ready
  <2> QED
    BY <2>1, ConfiguredBounds DEF Made
<1>4. f \in Injection(Configured, Made)
  BY <1>3, InitialConnsDiffer DEF Injection, IsInjective
<1> HIDE DEF f
<1>5. Cardinality(Configured) <= Cardinality(Made)
  BY <1>2, <1>4, FS_Injection
<1>6. PICK v \in Configured : c = InitialConn(v)
  BY InitialLinks DEF Made, NoLink
<1> DEFINE S == {w \in Vppbs : w <= v /\ InitialBounds[w] # None}
<1>7. S \subseteq Configured /\ c = Cardinality(S)
  BY <1>6 DEF InitialConn, Configured
<1> HIDE DEF S
<1>8. c <= Cardinality(Configured)
  BY <1>1, <1>7, FS_Subset
<1>9. c \in Nat /\ Cardinality(Configured) \in Nat /\ Cardinality(Made) \in Nat
  BY <1>1, <1>2, FS_CardinalityType DEF Made, Conns
<1> QED
  BY <1>5, <1>8, <1>9

LEMMA InitTables == Init => TablesRight
<1> SUFFICES ASSUME Init PROVE TablesRight
  OBVIOUS
<1>1. cmd.op = "idle" /\ ~Midway
  BY DEF Init, Idle, Midway
<1>2. ASSUME NEW v \in Vppbs, v \notin Configured
      PROVE Free(v)
  BY <1>2 DEF Configured, Init, Free, Unknown, Bound
<1>3. ASSUME NEW v \in Configured
      PROVE /\ Joined(v) /\ vppb[v].conn = InitialConn(v)
            /\ link[InitialConn(v)].vppb = v /\ Placed(InitialConn(v))
            /\ vppb[v].ld = link[InitialConn(v)].ld
  <2>1. PICK c, p, l : c = InitialConn(v) /\ p = InitialBounds[v].port /\ l = InitialBounds[v].ld
    OBVIOUS
  <2>2. v \in Vppbs /\ InitialBounds[v] # None /\ c # None /\ InitialBounds[v] = [port |-> p, ld |-> l]
    BY <2>1, ConfiguredBounds DEF Configured
  <2>3. link[c].vppb = v /\ link[c].port = p /\ link[c].ld = l /\ ~link[c].deaf
    BY <2>1, InitialLinkOf DEF Ready
  <2>4. Placed(c) /\ Managed(c)
    <3>1. /\ p \in Ports /\ l \in DOMAIN usc[p] /\ usc[p][l] = c
          /\ l \in DOMAIN mgr[p] /\ mgr[p][l] = c
      BY <2>1, <2>2, InitialPlaces
    <3> QED
      BY <2>3, <3>1 DEF Placed, Managed
  <2>5. vppb[v].conn = c /\ vppb[v].ld = l
    BY <2>1, <2>2 DEF Init
  <2>6. portMap[v] = p /\ ldMap[v] = l /\ v \in active
    BY <2>1, <2>2 DEF Init
  <2>7. slot[v].status = "BOUND" /\ slot[v].conn = c /\ reader[v] = c
    BY <2>1, <2>2, <2>5 DEF Init
  <2>8. Joined(v)
    BY <2>2, <2>3, <2>4, <2>5, <2>6, <2>7 DEF Joined, Attached, Bound
  <2> QED
    BY <2>1, <2>3, <2>4, <2>5, <2>8
<1>4. Staged
  BY <1>1, <1>2, <1>3 DEF Staged
<1>5. Owned
  BY <1>2, <1>3 DEF Owned, Free, Unknown
<1>6. Held
  <2> SUFFICES ASSUME NEW p \in Ports, NEW l \in DOMAIN usc[p]
               PROVE LET c == usc[p][l] IN
                     /\ link[c].port = p /\ link[c].ld = l
                     /\ link[c].vppb \in Vppbs /\ vppb[link[c].vppb].conn = c
    BY DEF Held
  <2>1. l \in InitialLds(p)
    BY DEF Init
  <2>2. PICK v \in Vppbs : InitialBounds[v] = [port |-> p, ld |-> l] /\ l \in Lds
    BY <2>1 DEF InitialLds
  <2>3. v \in Configured
    BY <2>2, BindingAssumption DEF Configured, Targets
  <2>4. usc[p][l] = InitialConn(v)
    BY <2>2, <2>3, InitialPlaces
  <2>5. link[InitialConn(v)].port = p /\ link[InitialConn(v)].ld = l
    BY <2>2, <2>3, InitialLinkOf DEF Ready
  <2> QED
    BY <1>3, <2>3, <2>4, <2>5
<1>7. Prepared
  BY <1>1 DEF Prepared, At
<1> QED
  BY <1>4, <1>5, <1>6, <1>7 DEF TablesRight

LEMMA InitAgrees == Init => Agree
<1> SUFFICES ASSUME Init PROVE Agree
  OBVIOUS
<1>1. ASSUME NEW c \in Conns
      PROVE /\ link[c].vdown = <<>> /\ link[c].pdown = <<>> /\ link[c].pup = <<>> /\ link[c].vup = <<>>
            /\ link[c].routing \in {"RUNNING", "STOPPED"}
  BY InitialLinks DEF Ready, NoLink
<1>2. StopFree(<<>>) /\ OneStop(<<>>) /\ Items(<<>>) = {} /\ Packets(<<>>) = {}
  BY DEF StopFree, OneStop, Items, Packets
<1>3. Marked
  BY <1>1, <1>2 DEF Marked, Marks
<1>4. Running
  BY DEF Running, Init, Idle, At
<1>5. PacketsRight
  <2>1. \A c \in Conns : Aboard(link[c]) = {}
    BY <1>1, <1>2 DEF Aboard
  <2>2. \A p \in Ports : down[p] = <<>> /\ up[p] = <<>>
    BY DEF Init
  <2>3. upDead = {}
    BY DEF Init
  <2> QED
    BY <1>2, <2>1, <2>2, <2>3 DEF PacketsRight
<1> QED
  BY <1>3, <1>4, <1>5, InitTables, InitNumbered DEF Agree

----------------------------------------------------------------------------
(* As long as the fabric manager is careful                                *)

Careful == ~careless => Agree

LEMMA CarefulBefore == Inv /\ [Next]_vars /\ ~careless' => ~careless
BY DEF Next, Execute, Transfer, HostSend, BindDown, BindUp, RouteDown, DeviceAnswers, RouteUp,
       HostReceive, Submit, RefuseBind, BindPpb, BindVppb, BindSlot, RefuseChange, UnbindManagers,
       UnbindPpb, UnbindSlot, UnbindDone, Freeze, FreezeDone, Unfreeze, vars, fm

LEMMA NextAgrees == Inv /\ Careful /\ [Next]_vars => Careful'
<1> SUFFICES ASSUME Inv, Careful, [Next]_vars, ~careless' PROVE Agree'
  BY DEF Careful
<1>1. Agree
  BY CarefulBefore DEF Careful
<1>2. ASSUME NEW v \in Vppbs, HostSend(v) \/ HostReceive(v)
      PROVE Agree'
  BY <1>1, <1>2, HostSendAgrees, HostReceiveAgrees
<1>3. ASSUME NEW c \in Commands, Submit(c)
      PROVE Agree'
  BY <1>1, <1>3, SubmitAgrees
<1>4. CASE Execute
  BY <1>1, <1>4, RefuseAgrees, BindPpbAgrees, BindVppbAgrees, BindSlotAgrees, UnbindManagersAgrees,
     UnbindPpbAgrees, UnbindSlotAgrees, UnbindDoneAgrees, FreezeAgrees, UnfreezeAgrees DEF Execute
<1>5. ASSUME NEW c \in Conns, BindDown(c) \/ BindUp(c) \/ RouteDown(c)
      PROVE Agree'
  BY <1>1, <1>5, BindDownAgrees, BindUpAgrees, RouteDownAgrees
<1>6. ASSUME NEW p \in Ports, DeviceAnswers(p) \/ RouteUp(p)
      PROVE Agree'
  BY <1>1, <1>6, DeviceAnswersAgrees, RouteUpAgrees
<1>7. CASE UNCHANGED vars
  <2>1. SameFrame /\ Delivered
    BY <1>7 DEF SameFrame, SameOwner, Delivered, Boarded, OnWire, vars, wires
  <2>2. Marked'
    BY <1>1, <1>7 DEF Agree, Marked, Marks, Stopping, At, vars, fm
  <2>3. Running'
    BY <1>1, <1>7 DEF Agree, Running, At, vars, fm, tables
  <2> QED
    BY <1>1, <1>7, <2>1, <2>2, <2>3, AgreeMoved DEF vars, fm, wires
<1> QED
  BY <1>2, <1>3, <1>4, <1>5, <1>6, <1>7 DEF Next, Transfer

LEMMA AgreeTables == Inv /\ Careful => TablesAgree
<1> SUFFICES ASSUME Inv, Agree, cmd = Idle PROVE TablesAgree
  BY DEF TablesAgree, Careful
<1>1. cmd.op = "idle" /\ ~Midway
  BY DEF Idle, Midway
<1>2. ASSUME NEW v \in Vppbs
      PROVE Free(v) \/ Joined(v)
  BY <1>1 DEF Agree, TablesRight, Staged
<1>3. ASSUME NEW v \in Vppbs, Bound(v)
      PROVE LET c == vppb[v].conn IN
              /\ v \in active /\ ldMap[v] = vppb[v].ld
              /\ slot[v].conn = c /\ reader[v] = c
              /\ usc[portMap[v]][vppb[v].ld] = c
              /\ mgr[portMap[v]][vppb[v].ld] = c
  BY <1>2, <1>3 DEF Free, Joined, Attached, Managed, Agree, TablesRight, Owned, Placed
<1>4. ASSUME NEW v \in Vppbs, ~Bound(v)
      PROVE /\ v \notin active
            /\ portMap[v] = None /\ ldMap[v] = None
            /\ vppb[v].conn = None /\ reader[v] = None
  BY <1>2, <1>4 DEF Free, Joined, Unknown
<1>5. ASSUME NEW p \in Ports, NEW l \in DOMAIN usc[p]
      PROVE \E v \in Vppbs : Bound(v) /\ vppb[v].conn = usc[p][l]
  <2>1. PICK v \in Vppbs : vppb[v].conn = usc[p][l]
    BY <1>1 DEF Agree, TablesRight, Held, At
  <2>2. usc[p][l] \in Conns
    BY EntryOf DEF Inv, TablesInv
  <2>3. usc[p][l] # None
    BY <2>2, BindingAssumption
  <2>4. Joined(v)
    BY <1>2, <2>1, <2>3 DEF Free, Unknown
  <2> QED
    BY <2>1, <2>4 DEF Joined
<1> QED
  BY <1>3, <1>4, <1>5 DEF TablesAgree

LEMMA AgreeAnswers == Inv /\ Careful => OwnAnswers /\ UpRoutingAlive
<1> SUFFICES ASSUME Inv, Agree PROVE OwnAnswers /\ UpRoutingAlive
  BY DEF OwnAnswers, UpRoutingAlive, Careful
<1>1. ASSUME NEW v \in Vppbs, vppb[v].conn # None,
             NEW q \in {link[vppb[v].conn].pup, link[vppb[v].conn].vup},
             NEW i \in DOMAIN q, q[i] # Stop
      PROVE q[i].vppb = v
  <2>1. vppb[v].conn \in Conns /\ link[vppb[v].conn].vppb = v
    BY <1>1 DEF Inv, VppbInv, Agree, TablesRight, Owned
  <2>2. q[i] \in Aboard(link[vppb[v].conn])
    BY <1>1 DEF Aboard, Packets, Items
  <2> QED
    BY <2>1, <2>2 DEF Agree, PacketsRight, Fits
<1>2. UpRoutingAlive
  BY DEF Agree, PacketsRight, UpRoutingAlive
<1> QED
  BY <1>1, <1>2 DEF OwnAnswers

\* Between the commands of a careful fabric manager the tables in which the
\* switch keeps a binding agree (bind_vppb and unbind_vppb of
\* virtual_switch.py, port_binder.py, ppb.py and the routers' update_router).
THEOREM TablesAgreeAlways == Spec => []TablesAgree
<1>1. Spec => [](Inv /\ Careful)
  BY InitInv, NextInv, InitAgrees, NextAgrees, PTL DEF Spec, Careful
<1> QED
  BY <1>1, AgreeTables, PTL

\* With a careful fabric manager the answers that wait for a vPPB's host are
\* answers to that host's requests (PpbUpRouting, GenericBindProcessor).
THEOREM OwnAnswersAlways == Spec => []OwnAnswers
<1>1. Spec => [](Inv /\ Careful)
  BY InitInv, NextInv, InitAgrees, NextAgrees, PTL DEF Spec, Careful
<1> QED
  BY <1>1, AgreeAnswers, PTL

\* With a careful fabric manager no answer meets a missing connection, the
\* KeyError that would end the port's PpbUpRouting.
THEOREM UpRoutingNeverFails == Spec => []UpRoutingAlive
<1>1. Spec => [](Inv /\ Careful)
  BY InitInv, NextInv, InitAgrees, NextAgrees, PTL DEF Spec, Careful
<1> QED
  BY <1>1, AgreeAnswers, PTL
=============================================================================
