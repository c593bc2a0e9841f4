---------------------------- MODULE VppbBinding ----------------------------
(***************************************************************************)
(* Binding of logical devices to the vPPBs of virtual switches: the fabric *)
(* manager's bind, unbind, freeze and unfreeze commands, executed one at a *)
(* time by the background task of CciExecutor, while requests and answers  *)
(* are under way through                                                   *)
(*                                                                         *)
(*   router -- vPPB -- VppbPpbBindProcessor -- PpbDownRouting -- port      *)
(*                                             PpbUpRouting                *)
(*                                                                         *)
(* A component is stopped with an end marker in the queues it reads, so    *)
(* what is queued before the marker still passes.  The four protocols have *)
(* four copies of every queue and a stop waits for all of them: one copy   *)
(* is modelled.  The managers of a vPPB only pass packets on here: a       *)
(* request goes to the bind processor's queue at once.  PpbDspBindProcessor*)
(* and the transport below it are one FIFO each way, and a device answers  *)
(* its requests in turn.                                                   *)
(***************************************************************************)
EXTENDS Naturals, Sequences, FiniteSets

CONSTANTS
  Vppbs,         \* the downstream vPPBs of all virtual switches, numbered
  Ports,         \* downstream ports
  Lds,           \* logical device numbers
  AllocatedLd,   \* per port, the LDs of its device
  InitialBounds, \* per vPPB, the [port, ld] it starts with, or None
  None,          \* Python's None
  MaxBinds,      \* bound: how often a vPPB is bound
  MaxCommands,   \* bound: commands of the fabric manager
  MaxRequests    \* bound: requests of each vPPB's host

Conns == 1 .. MaxBinds
Targets == [port : Ports, ld : Lds]

\* Packets: a host's request, marked with the device it is for, and what it is
\* on the way to the device and back
Requests == [vppb : Vppbs, n : 1 .. MaxRequests, to : Targets]
Wired == [vppb : Vppbs, n : 1 .. MaxRequests, to : Targets, ld : Lds]

ASSUME BindingAssumption ==
  /\ Vppbs \subseteq Nat /\ IsFiniteSet(Vppbs)
  /\ Lds \subseteq Nat /\ 0 \in Lds
  /\ None \notin Ports \cup Conns \cup Nat \cup Targets \cup Wired
  /\ AllocatedLd \in [Ports -> SUBSET Lds]
  /\ InitialBounds \in [Vppbs -> Targets \cup {None}]
  /\ \A v, w \in Vppbs : InitialBounds[v] = InitialBounds[w] => v = w \/ InitialBounds[v] = None
  /\ MaxBinds \in Nat /\ MaxCommands \in Nat /\ MaxRequests \in Nat
  /\ Cardinality({v \in Vppbs : InitialBounds[v] # None}) <= MaxBinds

VARIABLES
  slot,    \* PortBinder._bind_slots: status, and the connection it joins
  vppb,    \* DownstreamVppb: _ld_id and its connection
  portMap, \* _physical_ports_vppb_map
  ldMap,   \* _vppb_ld_id_map
  active,  \* the vPPBs active in the routing table
  reader,  \* per vPPB, the connection its router task reads
  mgr,     \* per port, the connections of the managers of each LD
  usc,     \* per port, PpbDevice._upstream_connections and _down_routings
  link,    \* per connection, its owner, its queues and the tasks that read them
  down, up,\* per port, the packets to the device and back
  upDead,  \* the ports whose PpbUpRouting has ended with an exception
  cmd,     \* the executor's background command and how far it is
  issued,  \* how many commands were taken
  sent,    \* per vPPB, how many requests were sent
  careless \* history: the fabric manager broke a rule, see Careless

tables == <<slot, vppb, portMap, ldMap, active, reader, mgr, usc>>
wires  == <<down, up, upDead>>
fm     == <<cmd, issued, careless>>
vars   == <<tables, link, wires, fm, sent>>

Stop == None  \* the end marker
NoLink == [vppb |-> None, port |-> None, ld |-> 0, joined |-> {}, routing |-> "STOPPED",
           deaf |-> FALSE, vdown |-> <<>>, pdown |-> <<>>, pup |-> <<>>, vup |-> <<>>]

Idle == [op |-> "idle", at |-> "idle", vppb |-> None, port |-> None, ld |-> 0, conn |-> None]
Bind(v, p, l) == [Idle EXCEPT !.op = "bind", !.at = "start", !.vppb = v, !.port = p, !.ld = l]
Change(op, v) == [Idle EXCEPT !.op = op, !.at = "start", !.vppb = v]
Commands == {Bind(v, p, l) : v \in Vppbs, p \in Ports, l \in Lds}
              \cup {Change(op, v) : op \in {"unbind", "freeze", "unfreeze"}, v \in Vppbs}

----------------------------------------------------------------------------
(* Helpers *)

\* is_vppb_bound
Bound(v) == slot[v].status = "BOUND"

Made == {c \in Conns : link[c].vppb # None}
Fresh == Cardinality(Made) + 1

\* (Mutant: the dictionary is cleared.)
Cleared(dict, key) == [k \in {} |-> key]
Without(dict, key) == [k \in DOMAIN dict \ {key} |-> dict[k]]
With(dict, key, value) == [k \in DOMAIN dict \cup {key} |-> IF k = key THEN value ELSE dict[k]]

Frozen(v) == vppb[v].conn # None /\ link[vppb[v].conn].routing = "STOPPED"

Mentions(q, v) == \E i \in DOMAIN q : q[i] # Stop /\ q[i].vppb = v

InFlight(v) ==
  \/ \E c \in Made : \E q \in {link[c].vdown, link[c].pdown, link[c].pup, link[c].vup} : Mentions(q, v)
  \/ \E p \in Ports : Mentions(down[p], v) \/ Mentions(up[p], v)

\* What a careful fabric manager does not do: bind a logical device that is
\* bound, or unbind one that is frozen or in use.
Careless(c) ==
  \/ c.op = "bind" /\ c.ld \in DOMAIN usc[c.port]
  \/ c.op = "unbind" /\ (Frozen(c.vppb) \/ InFlight(c.vppb))

----------------------------------------------------------------------------
(* Initially _bind_initial_vppb has bound the configured vPPBs.            *)

InitialConn(v) == Cardinality({w \in Vppbs : w <= v /\ InitialBounds[w] # None})
InitialVppb(c) == {v \in Vppbs : InitialBounds[v] # None /\ InitialConn(v) = c}
InitialLds(p) == {l \in Lds : \E v \in Vppbs : InitialBounds[v] = [port |-> p, ld |-> l]}

\* (Mutant: nobody waits until the routing runs.)
OpenedStarting(v, p, l) == [NoLink EXCEPT !.vppb = v, !.port = p, !.ld = l, !.routing = "STARTING"]
Opened(v, p, l) == [NoLink EXCEPT !.vppb = v, !.port = p, !.ld = l, !.routing = "RUNNING"]

Init ==
  /\ slot = [v \in Vppbs |-> IF InitialBounds[v] = None THEN [status |-> "INIT", conn |-> None]
                             ELSE [status |-> "BOUND", conn |-> InitialConn(v)]]
  /\ vppb = [v \in Vppbs |-> IF InitialBounds[v] = None THEN [ld |-> 0, conn |-> None]
                             ELSE [ld |-> InitialBounds[v].ld, conn |-> InitialConn(v)]]
  /\ portMap = [v \in Vppbs |-> IF InitialBounds[v] = None THEN None ELSE InitialBounds[v].port]
  /\ ldMap = [v \in Vppbs |-> IF InitialBounds[v] = None THEN None ELSE InitialBounds[v].ld]
  /\ active = {v \in Vppbs : InitialBounds[v] # None}
  /\ reader = [v \in Vppbs |-> vppb[v].conn]
  /\ usc = [p \in Ports |-> [l \in InitialLds(p) |->
              InitialConn(CHOOSE v \in Vppbs : InitialBounds[v] = [port |-> p, ld |-> l])]]
  /\ mgr = usc
  /\ link = [c \in Conns |-> IF InitialVppb(c) = {} THEN NoLink
               ELSE LET v == CHOOSE w \in InitialVppb(c) : TRUE IN
                    [Opened(v, InitialBounds[v].port, InitialBounds[v].ld)
                       EXCEPT !.joined = {"down", "up"}]]
  /\ down = [p \in Ports |-> <<>>] /\ up = down /\ upDead = {}
  /\ cmd = Idle /\ issued = 0 /\ careless = FALSE
  /\ sent = [v \in Vppbs |-> 0]

----------------------------------------------------------------------------
(* Packets.                                                                *)

\* A host's request reaches a vPPB: the router passes it to the vPPB's
\* connection if there is one; the managers, once told to stop, lose it.
HostSend(v) ==
  /\ sent[v] < MaxRequests
  /\ sent' = [sent EXCEPT ![v] = @ + 1]
  /\ LET c == vppb[v].conn IN
       IF c = None THEN UNCHANGED link
       ELSE IF link[c].deaf
       THEN UNCHANGED link
       ELSE link' = [link EXCEPT ![c].vdown = Append(@,
              [vppb |-> v, n |-> sent[v] + 1, to |-> [port |-> link[c].port, ld |-> link[c].ld]])]
  /\ careless' = (careless \/ (cmd.op = "unbind" /\ cmd.vppb = v))
  /\ UNCHANGED <<tables, wires, cmd, issued>>

\* GenericBindProcessor._process, towards the device
BindDown(c) ==
  /\ "down" \in link[c].joined /\ link[c].vdown # <<>>
  /\ LET item == Head(link[c].vdown) IN
       link' = [link EXCEPT ![c].vdown = Tail(@),
                            ![c].joined = IF item = Stop THEN @ \ {"down"} ELSE @,
                            ![c].pdown = IF item = Stop THEN @ ELSE Append(@, item)]
  /\ UNCHANGED <<tables, wires, fm, sent>>

\* GenericBindProcessor._process, towards the host
BindUp(c) ==
  /\ "up" \in link[c].joined /\ link[c].pup # <<>>
  /\ LET item == Head(link[c].pup) IN
       link' = [link EXCEPT ![c].pup = Tail(@),
                            ![c].joined = IF item = Stop THEN @ \ {"up"} ELSE @,
                            ![c].vup = IF item = Stop THEN @ ELSE Append(@, item)]
  /\ UNCHANGED <<tables, wires, fm, sent>>

\* (Mutant: every packet is stamped with LD 0.)
StampFirstLd(c) == 0
Stamp(c) == link[c].ld

\* PpbDownRouting: packets get the LD number of the binding.
RouteDown(c) ==
  /\ link[c].routing # "STOPPED" /\ link[c].pdown # <<>>
  /\ LET item == Head(link[c].pdown) IN
       /\ link' = [link EXCEPT ![c].pdown = Tail(@),
                               ![c].routing = IF item = Stop THEN "STOPPED" ELSE @]
       /\ IF item = Stop THEN UNCHANGED down
          ELSE down' = [down EXCEPT ![link[c].port] = Append(@,
                 [vppb |-> item.vppb, n |-> item.n, to |-> item.to, ld |-> Stamp(c)])]
  /\ UNCHANGED <<tables, up, upDead, fm, sent>>

\* The device answers a request with the LD number it came with.
DeviceAnswers(p) ==
  /\ down[p] # <<>>
  /\ down' = [down EXCEPT ![p] = Tail(@)]
  /\ up' = [up EXCEPT ![p] = Append(@, Head(down[p]))]
  /\ UNCHANGED <<tables, link, upDead, fm, sent>>

\* (Mutant: an answer goes to the connection of LD 0, as CXL.cache's do.)
AnswersFirstLd(packet) == 0
AnswerLd(packet) == packet.ld

\* PpbUpRouting: the answer of an LD without a connection is a KeyError,
\* which ends the task.
RouteUp(p) ==
  /\ p \notin upDead /\ up[p] # <<>>
  /\ LET packet == Head(up[p])
         l == AnswerLd(packet) IN
       IF l \in DOMAIN usc[p]
       THEN /\ link' = [link EXCEPT ![usc[p][l]].pup = Append(@,
                          [vppb |-> packet.vppb, n |-> packet.n, to |-> packet.to])]
            /\ UNCHANGED upDead
       ELSE upDead' = upDead \cup {p} /\ UNCHANGED link
  /\ up' = [up EXCEPT ![p] = Tail(@)]
  /\ UNCHANGED <<tables, down, fm, sent>>

\* The vPPB's managers and the router's task hand an answer to the host.
HostReceive(v) ==
  /\ reader[v] # None
  /\ LET c == reader[v] IN
       /\ link[c].vup # <<>>
       /\ link' = [link EXCEPT ![c].vup = Tail(@)]
       /\ reader' = [reader EXCEPT ![v] = IF Head(link[c].vup) = Stop THEN None ELSE @]
  /\ UNCHANGED <<slot, vppb, portMap, ldMap, active, mgr, usc, wires, fm, sent>>

----------------------------------------------------------------------------
(* Commands.  The executor takes one; the rest of the actions are the      *)
(* parts of its execution between the awaits.                              *)

\* _submit_background_command: a command that finds the slot taken is
\* answered BUSY and changes nothing.
Submit(c) ==
  /\ cmd = Idle /\ issued < MaxCommands
  /\ c.op = "bind" => Fresh <= MaxBinds
  /\ cmd' = c
  /\ issued' = issued + 1
  /\ careless' = (careless \/ Careless(c))
  /\ UNCHANGED <<tables, link, wires, sent>>

Goto(at) == cmd' = [cmd EXCEPT !.at = at]

\* The response, SUCCESS or not, is the end of the command.
Finish == cmd' = Idle

At(op, at) == cmd.op = op /\ cmd.at = at

\* BindVppbCommand and bind_vppb refuse a vPPB that is bound and an LD the
\* port does not have.
RefuseBind ==
  /\ At("bind", "start")
  /\ Bound(cmd.vppb) \/ cmd.ld \notin AllocatedLd[cmd.port]
  /\ Finish
  /\ UNCHANGED <<tables, link, wires, issued, careless, sent>>

\* PpbDevice.bind: a new connection and its PpbDownRouting
BindPpb ==
  /\ At("bind", "start")
  /\ ~Bound(cmd.vppb) /\ cmd.ld \in AllocatedLd[cmd.port]
  /\ active' = active \cup {cmd.vppb}
  /\ LET c == Fresh IN
       /\ link' = [link EXCEPT ![c] = Opened(cmd.vppb, cmd.port, cmd.ld)]
       /\ usc' = [usc EXCEPT ![cmd.port] = With(@, cmd.ld, c)]
       /\ cmd' = [cmd EXCEPT !.at = "vppb", !.conn = c]
  /\ UNCHANGED <<slot, vppb, portMap, ldMap, reader, mgr, wires, issued, careless, sent>>

\* Vppb.bind_to_physical_dsp_port: connections and managers of the vPPB
BindVppb ==
  /\ At("bind", "vppb")
  /\ mgr' = [mgr EXCEPT ![cmd.port] = With(@, cmd.ld, cmd.conn)]
  /\ vppb' = [vppb EXCEPT ![cmd.vppb] = [ld |-> cmd.ld, conn |-> cmd.conn]]
  /\ portMap' = [portMap EXCEPT ![cmd.vppb] = cmd.port]
  /\ ldMap' = [ldMap EXCEPT ![cmd.vppb] = cmd.ld]
  /\ Goto("slot")
  /\ UNCHANGED <<slot, active, reader, usc, link, wires, issued, careless, sent>>

\* update_router: the router's task of the vPPB reads the new connection.
\* (Mutant: the task reads the old one.)
RouterKeeps(v, c) == reader[v]
RouterReads(v, c) == c

\* PortBinder.bind_vppb, then the routers' update_router
BindSlot ==
  /\ At("bind", "slot")
  /\ LET c == vppb[cmd.vppb].conn IN
       /\ slot' = [slot EXCEPT ![cmd.vppb] = [status |-> "BOUND", conn |-> c]]
       /\ link' = [link EXCEPT ![c].joined = {"down", "up"}]
       /\ reader' = [reader EXCEPT ![cmd.vppb] = RouterReads(cmd.vppb, c)]
  /\ Finish
  /\ UNCHANGED <<vppb, portMap, ldMap, active, mgr, usc, wires, issued, careless, sent>>

\* The other commands want a vPPB that is bound, and in the map.
Changeable(v) == Bound(v) /\ portMap[v] # None

RefuseChange ==
  /\ cmd.op \in {"unbind", "freeze", "unfreeze"} /\ cmd.at = "start"
  /\ ~Changeable(cmd.vppb)
  /\ Finish
  /\ UNCHANGED <<tables, link, wires, issued, careless, sent>>

\* DownstreamPortDevice.unbind_from_vppb forgets the LD's managers, stops
\* them and waits for them.
UnbindManagers ==
  /\ At("unbind", "start") /\ Changeable(cmd.vppb)
  /\ LET p == portMap[cmd.vppb]
         l == vppb[cmd.vppb].ld IN
       /\ mgr' = [mgr EXCEPT ![p] = Without(@, l)]
       /\ link' = IF l \in DOMAIN mgr[p]
                  THEN [link EXCEPT ![mgr[p][l]].deaf = TRUE, ![mgr[p][l]].vup = Append(@, Stop)]
                  ELSE link
       /\ cmd' = [cmd EXCEPT !.at = "ppb", !.ld = l, !.port = p,
                             !.conn = IF l \in DOMAIN mgr[p] THEN mgr[p][l] ELSE None]
  /\ UNCHANGED <<slot, vppb, portMap, ldMap, active, reader, usc, wires, issued, careless, sent>>

ManagersStopped ==
  \A c \in {cmd.conn} \ {None} : \A i \in DOMAIN link[c].vup : link[c].vup[i] # Stop

\* PpbDevice.unbind forgets the connection and stops its routing, which fails
\* when there is none or it is frozen: the vPPB then stays BOUND.
UnbindPpb ==
  /\ At("unbind", "ppb") /\ ManagersStopped
  /\ vppb' = [vppb EXCEPT ![cmd.vppb] = [ld |-> 0, conn |-> None]]
  /\ usc' = [usc EXCEPT ![cmd.port] = Without(@, cmd.ld)]
  /\ IF cmd.ld \in DOMAIN usc[cmd.port] /\ link[usc[cmd.port][cmd.ld]].routing = "RUNNING"
     THEN LET c == usc[cmd.port][cmd.ld] IN
          /\ link' = [link EXCEPT ![c].pdown = Append(@, Stop), ![c].routing = "STOPPING"]
          /\ cmd' = [cmd EXCEPT !.at = "slot", !.conn = c]
     ELSE Finish /\ UNCHANGED link
  /\ UNCHANGED <<slot, portMap, ldMap, active, reader, mgr, wires, issued, careless, sent>>

\* GenericBindProcessor._stop
\* (Mutant: the direction towards the host gets no marker.)
EndHalf(l) == [l EXCEPT !.vdown = Append(@, Stop)]
EndBoth(l) == [l EXCEPT !.vdown = Append(@, Stop), !.pup = Append(@, Stop)]

\* PortBinder.unbind_vppb stops the bind processor.
UnbindSlot ==
  /\ At("unbind", "slot") /\ link[cmd.conn].routing = "STOPPED"
  /\ portMap' = [portMap EXCEPT ![cmd.vppb] = None]
  /\ LET c == slot[cmd.vppb].conn IN
       /\ link' = [link EXCEPT ![c] = EndBoth(@)]
       /\ cmd' = [cmd EXCEPT !.at = "done", !.conn = c]
  /\ UNCHANGED <<slot, vppb, ldMap, active, reader, mgr, usc, wires, issued, careless, sent>>

\* (Mutant: the slot keeps its status.)
UnboundSlotKept == [status |-> "BOUND", conn |-> None]
UnboundSlot == [status |-> "UNBOUND", conn |-> None]

UnbindDone ==
  /\ At("unbind", "done") /\ link[cmd.conn].joined = {}
  /\ slot' = [slot EXCEPT ![cmd.vppb] = UnboundSlot]
  /\ active' = active \ {cmd.vppb}
  /\ ldMap' = [ldMap EXCEPT ![cmd.vppb] = None]
  /\ reader' = [reader EXCEPT ![cmd.vppb] = None]
  /\ Finish
  /\ UNCHANGED <<vppb, portMap, mgr, usc, link, wires, issued, careless, sent>>

\* The connection freeze and unfreeze work on: a KeyError if there is none.
Routed == LET p == portMap[cmd.vppb]
              l == vppb[cmd.vppb].ld IN
          IF l \in DOMAIN usc[p] THEN usc[p][l] ELSE None

\* freeze_vppb stops the LD's PpbDownRouting and waits for it.
Freeze ==
  /\ At("freeze", "start") /\ Changeable(cmd.vppb)
  /\ IF Routed # None /\ link[Routed].routing = "RUNNING"
     THEN /\ link' = [link EXCEPT ![Routed].pdown = Append(@, Stop), ![Routed].routing = "STOPPING"]
          /\ cmd' = [cmd EXCEPT !.at = "done", !.conn = Routed]
     ELSE Finish /\ UNCHANGED link
  /\ UNCHANGED <<tables, wires, issued, careless, sent>>

FreezeDone ==
  /\ At("freeze", "done") /\ link[cmd.conn].routing = "STOPPED"
  /\ Finish
  /\ UNCHANGED <<tables, link, wires, issued, careless, sent>>

\* unfreeze_vppb runs it again, on the queues it left.
Unfreeze ==
  /\ At("unfreeze", "start") /\ Changeable(cmd.vppb)
  /\ link' = IF Routed = None THEN link ELSE [link EXCEPT ![Routed].routing = "RUNNING"]
  /\ Finish
  /\ UNCHANGED <<tables, wires, issued, careless, sent>>

----------------------------------------------------------------------------
Execute ==
  \/ RefuseBind \/ BindPpb \/ BindVppb \/ BindSlot
  \/ RefuseChange \/ UnbindManagers \/ UnbindPpb \/ UnbindSlot \/ UnbindDone
  \/ Freeze \/ FreezeDone \/ Unfreeze

Transfer ==
  \/ \E c \in Conns : BindDown(c) \/ BindUp(c) \/ RouteDown(c)
  \/ \E p \in Ports : DeviceAnswers(p) \/ RouteUp(p)
  \/ \E v \in Vppbs : HostReceive(v)

Next ==
  \/ \E v \in Vppbs : HostSend(v)
  \/ \E c \in Commands : Submit(c)
  \/ Execute
  \/ Transfer

\* Every task of the event loop that can go on does; devices answer.
Fairness ==
  /\ WF_vars(Execute)
  /\ \A c \in Conns : WF_vars(BindDown(c)) /\ WF_vars(BindUp(c)) /\ WF_vars(RouteDown(c))
  /\ \A p \in Ports : WF_vars(DeviceAnswers(p)) /\ WF_vars(RouteUp(p))
  /\ \A v \in Vppbs : WF_vars(HostReceive(v))

Spec == Init /\ [][Next]_vars /\ Fairness

----------------------------------------------------------------------------
(* Properties.                                                             *)

Dict(S) == UNION {[K -> S] : K \in SUBSET Lds}
Queue == Seq(Requests \cup {Stop})

Link == [vppb : Vppbs \cup {None}, port : Ports \cup {None}, ld : Lds,
         joined : SUBSET {"down", "up"}, routing : {"STOPPED", "RUNNING", "STOPPING"},
         deaf : BOOLEAN, vdown : Queue, pdown : Queue, pup : Queue, vup : Queue]

\* Types.
TypeOK ==
  /\ slot \in [Vppbs -> [status : {"INIT", "BOUND", "UNBOUND"}, conn : Conns \cup {None}]]
  /\ vppb \in [Vppbs -> [ld : Lds, conn : Conns \cup {None}]]
  /\ portMap \in [Vppbs -> Ports \cup {None}]
  /\ ldMap \in [Vppbs -> Lds \cup {None}]
  /\ active \in SUBSET Vppbs
  /\ reader \in [Vppbs -> Conns \cup {None}]
  /\ mgr \in [Ports -> Dict(Conns)]
  /\ usc \in [Ports -> Dict(Conns)]
  /\ link \in [Conns -> Link]
  /\ down \in [Ports -> Seq(Wired)] /\ up \in [Ports -> Seq(Wired)]
  /\ upDead \in SUBSET Ports
  /\ cmd \in [op : {"idle", "bind", "unbind", "freeze", "unfreeze"},
              at : {"idle", "start", "vppb", "slot", "ppb", "done"},
              vppb : Vppbs \cup {None}, port : Ports \cup {None}, ld : Lds,
              conn : Conns \cup {None}]
  /\ issued \in 0 .. MaxCommands
  /\ sent \in [Vppbs -> 0 .. MaxRequests]
  /\ careless \in BOOLEAN

\* Between the commands of a careful fabric manager the nine tables in which
\* the switch keeps a binding agree: a vPPB that the FM API calls bound is
\* active, known to both maps of the virtual switch, and its connection is the
\* one its bind processor, its router task and the port use for its LD; one
\* that is not bound is in none of them.
TablesAgree ==
  (cmd = Idle /\ ~careless) =>
    /\ \A v \in Vppbs :
         IF Bound(v)
         THEN LET c == vppb[v].conn IN
              /\ v \in active /\ ldMap[v] = vppb[v].ld
              /\ slot[v].conn = c /\ reader[v] = c
              /\ usc[portMap[v]][vppb[v].ld] = c
              /\ mgr[portMap[v]][vppb[v].ld] = c
         ELSE /\ v \notin active
              /\ portMap[v] = None /\ ldMap[v] = None
              /\ vppb[v].conn = None /\ reader[v] = None
    /\ \A p \in Ports : \A l \in DOMAIN usc[p] :
         \E v \in Vppbs : Bound(v) /\ vppb[v].conn = usc[p][l]

\* Whatever the fabric manager does, a request only ever reaches the logical
\* device its vPPB was bound to when it was sent.
OwnLd ==
  \A p \in Ports : \A i \in DOMAIN down[p] :
    down[p][i].to = [port |-> p, ld |-> down[p][i].ld]

\* With a careful fabric manager the answers that wait for a vPPB's host are
\* answers to that host's requests.
OwnAnswers ==
  ~careless =>
    \A v \in Vppbs : vppb[v].conn # None =>
      \A q \in {link[vppb[v].conn].pup, link[vppb[v].conn].vup} :
        \A i \in DOMAIN q : q[i] # Stop => q[i].vppb = v

\* With a careful fabric manager no answer meets a missing connection, which
\* would end the answers of every LD of the port.
UpRoutingAlive == ~careless => upDead = {}

\* Every command the executor takes ends, whatever the packets do.
CommandsEnd == cmd # Idle ~> cmd = Idle

\* Every request of a host is answered, unless its vPPB is frozen; a freeze
\* only delays it.
Answered ==
  \A v \in Vppbs : InFlight(v) ~> (~InFlight(v) \/ Frozen(v) \/ careless)
=============================================================================
