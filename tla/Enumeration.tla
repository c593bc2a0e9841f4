---------------------------- MODULE Enumeration ----------------------------
(***************************************************************************)
(* How a host finds what is behind its switch and maps it: the PCI and CXL *)
(* bus drivers' scans, the address ranges the memory pooling application   *)
(* gives out at boot and at a hot bind or unbind, and the switch's tables  *)
(* through which every configuration, register and memory access goes.     *)
(*                                                                         *)
(* The host talks to one switch (its root port is passed through, so its   *)
(* first bus holds only the upstream port).  The fabric manager sends one  *)
(* command and waits for the host's handler to end before the next; the    *)
(* one race left is that of an unbind, which the host hears of before the  *)
(* switch.  Bus and register addresses are in units of 1 MB, host physical *)
(* addresses (HPA) in bytes from the base of the CXL window.               *)
(***************************************************************************)
EXTENDS HdmRegisters, FiniteSets, SequencesExt

CONSTANTS
  VppbCount,      \* vPPBs of the virtual switch
  Devices,        \* memory devices, each with one HDM decoder
  DeviceSize,     \* bytes of memory of each
  InitialSlots,   \* the initial bounds to choose from: [Vppbs -> Devices or Dummy]
  IwChoices,      \* the interleave ways the application may be started with
  UspDecoders,    \* decoders of the upstream port
  MaxCommands,    \* commands of the fabric manager
  None, Dummy     \* a vPPB after an unbind, and before its first bind

Vppbs == 0 .. VppbCount - 1

ASSUME EnumerationAssumption ==
  /\ VppbCount \in 1 .. 32 /\ UspDecoders \in 1 .. 32 /\ MaxCommands \in Nat
  /\ DeviceSize \in [Devices -> {256 * n : n \in 1 .. 1000}]
  /\ IwChoices \subseteq IwCodes
  /\ InitialSlots \subseteq [Vppbs -> Devices \cup {Dummy}]

Usp == <<"usp", 0>>
Dsp(v) == <<"dsp", v>>
Dev(d) == <<"dev", d>>
Bridges == {Usp} \cup {Dsp(v) : v \in Vppbs}
Components == Bridges \cup {Dev(d) : d \in Devices}

VARIABLES
  net,        \* the switch and the devices: registers, tables and decoders
  host,       \* the drivers' lists and the application's ranges
  handler,    \* the application's handler that runs, and its place
  pending,    \* the vPPB whose unbinding the host was told of, not yet done
  commands,   \* commands sent so far
  history     \* ghosts: what the properties remember
vars == <<net, host, handler, pending, commands, history>>

RootBus == 1
CfgBase == 256
CfgSize == 256
MmioBase == 4064
Ig == 0

(***************************************************************************)
(* The switch.  Routes answer who gets an access: None says nobody (all    *)
(* ones or zeros come back), Silent that no answer ever comes.             *)
(***************************************************************************)
Silent == <<"silent", 0>>
BoundIn(slot) == {v \in Vppbs : slot[v] \in Devices}
Active(n) == BoundIn(n.slot)
LowestOf(S) == CHOOSE v \in S : \A w \in S : v <= w
Within(addr, window) == window[1] <= addr /\ addr <= window[2]

\* PciRoutingTable.get_config_space_target_port
\* (Mutant: a device number is not compared with the active vPPBs.)
ConfigTargetAny(n, bus, dev) ==
  LET hits == {v \in Active(n) : n.entry[v].sec <= bus /\ bus <= n.entry[v].sub} IN
  IF bus = n.bus THEN dev ELSE IF hits = {} THEN None ELSE LowestOf(hits)
ConfigTarget(n, bus, dev) ==
  LET hits == {v \in Active(n) : n.entry[v].sec <= bus /\ bus <= n.entry[v].sub} IN
  IF bus = n.bus THEN IF dev < Cardinality(Active(n)) THEN dev ELSE None
  ELSE IF hits = {} THEN None ELSE LowestOf(hits)

\* IoBridge: on the first bus only device 0 is ever asked.
HostAsks(bdf) == bdf[1] # RootBus \/ bdf[2] = 0

\* ConfigSpaceManager of a downstream port and of the device behind it: the
\* port answers what the upstream port has made a type 0 access, and makes
\* one of what is for its secondary bus; a device answers as device 0 only.
PortAnswer(n, v, bdf) ==
  IF bdf[1] = n.bus THEN Dsp(v)
  ELSE IF bdf[1] = n.sec[Dsp(v)] /\ bdf[2] = 0 THEN Dev(n.slot[v]) ELSE None

\* ConfigSpaceRouter
RouterAnswer(n, bdf) ==
  LET v == ConfigTarget(n, bdf[1], bdf[2]) IN
  IF v = None THEN None
  ELSE CASE n.slot[v] = None -> None
         [] n.slot[v] = Dummy -> Silent
         [] OTHER -> PortAnswer(n, v, bdf)

\* The component that answers a configuration access to <<bus, device>>.
ConfigAnswer(n, bdf) ==
  IF ~HostAsks(bdf) THEN None ELSE IF bdf[1] = RootBus THEN Usp ELSE RouterAnswer(n, bdf)

\* PciRoutingTable.get_mmio_target_port: inactive vPPBs count, too.
MmioTarget(n, addr) ==
  LET hits == {v \in Vppbs : addr = n.entry[v].bar \/ Within(addr, n.entry[v].window)} IN
  IF hits = {} THEN None ELSE LowestOf(hits)

\* MmioRouter, from there on to the port and the device behind it.
RouterMmio(n, addr) ==
  LET v == MmioTarget(n, addr) IN
  IF v = None THEN None
  ELSE IF n.slot[v] \notin Devices THEN Silent
  ELSE IF addr = n.bar[Dsp(v)] THEN Dsp(v)
  ELSE IF Within(addr, n.window[Dsp(v)]) /\ addr = n.bar[Dev(n.slot[v])] THEN Dev(n.slot[v])
  ELSE None

\* MmioManager of the upstream port: its own registers, or its window.
MmioAnswer(n, addr) ==
  IF addr = n.bar[Usp] THEN Usp
  ELSE IF Within(addr, n.window[Usp]) THEN RouterMmio(n, addr) ELSE None

\* Writes of the host's to a component's registers, and what they set off.
SetSecondary(n, c, bus) ==
  IF c = Usp THEN [n EXCEPT !.sec[c] = bus, !.bus = bus]
  ELSE [n EXCEPT !.sec[c] = bus, !.entry[c[2]].sec = bus]
SetSubordinate(n, c, bus) ==
  IF c = Usp THEN n ELSE [n EXCEPT !.entry[c[2]].sub = bus]
SetWindow(n, c, window) ==
  IF c = Usp THEN [n EXCEPT !.window[c] = window]
  ELSE [n EXCEPT !.window[c] = window, !.entry[c[2]].window = window]
SetBar(n, c, addr) ==
  IF c[1] = "dsp" THEN [n EXCEPT !.bar[c] = addr, !.entry[c[2]].bar = addr] ELSE [n EXCEPT !.bar[c] = addr]

\* A device's port that is bound again has fresh registers; the routing
\* table keeps what it held of the vPPB.
BindSlot(n, v, d) ==
  [n EXCEPT !.slot[v] = d, !.sec[Dsp(v)] = 0, !.window[Dsp(v)] = <<0, 0>>, !.bar[Dsp(v)] = 0]

(***************************************************************************)
(* The scans.  s is the scan's state: [net, devs, bus, start, hung]; devs  *)
(* is the driver's list of [bdf, who, parent, bar], start the next free    *)
(* register address.                                                       *)
(***************************************************************************)
\* op(x), with x evaluated once.
With(x, op(_)) == CHOOSE r \in {op(y) : y \in {x}} : TRUE

Bdfs(devs) == {devs[i].bdf : i \in DOMAIN devs}

Found(s, bdf, who, parent) ==
  [s EXCEPT !.net = SetBar(s.net, who, s.start), !.start = @ + 1,
            !.devs = Append(@, [bdf |-> bdf, who |-> who, parent |-> parent, bar |-> s.start])]

\* What a bridge's part of the scan does after the bus behind it is scanned.
\* (Mutant: the port keeps the widest range of buses it was opened with.)
CloseBridgeOpen(s, child, bridge) ==
  [child EXCEPT !.net = IF child.start = s.start THEN child.net
                        ELSE SetWindow(child.net, bridge, <<s.start, child.start - 1>>)]
\* (Mutant: the scan goes on at the number of the bridge's own bus.)
CloseBridgeSame(s, child, bridge) ==
  LET windowed == IF child.start = s.start THEN child.net
                  ELSE SetWindow(child.net, bridge, <<s.start, child.start - 1>>)
  IN [child EXCEPT !.net = SetSubordinate(windowed, bridge, child.bus), !.bus = s.bus]
CloseBridge(s, child, bridge) ==
  LET windowed == IF child.start = s.start THEN child.net
                  ELSE SetWindow(child.net, bridge, <<s.start, child.start - 1>>)
  IN [child EXCEPT !.net = SetSubordinate(windowed, bridge, child.bus)]

\* PciBusDriver._scan_bus: device numbers past the vPPBs' never answer.
\* A device is known by its number at the start of the scan of its bus.
RECURSIVE VisitFrom(_, _, _, _, _)
ScanBus(s, bus, parent) == VisitFrom(s, <<bus, 0>>, Bdfs(s.devs), parent, VppbCount)
OpenBridge(n, bridge, bus) == SetSubordinate(SetSecondary(n, bridge, bus), bridge, 255)
Behind(found, bdf, bridge) ==
  LET bus == found.bus + 1
      opened == [found EXCEPT !.net = OpenBridge(@, bridge, bus), !.bus = bus]
  IN With(ScanBus(opened, bus, bdf),
          LAMBDA child : IF child.hung THEN child ELSE CloseBridge(found, child, bridge))
Visit(s, bdf, known, parent) ==
  LET who == ConfigAnswer(s.net, bdf)
      found == IF bdf \in known THEN s ELSE Found(s, bdf, who, parent)
  IN IF s.hung \/ who = None THEN s
     ELSE IF who = Silent THEN [s EXCEPT !.hung = TRUE]
     ELSE IF who \notin Bridges THEN found
     ELSE With(found, LAMBDA f : Behind(f, bdf, who))
VisitFrom(s, bdf, known, parent, left) ==
  IF left = 0 THEN s
  ELSE With(Visit(s, bdf, known, parent),
            LAMBDA visited : VisitFrom(visited, <<bdf[1], bdf[2] + 1>>, known, parent, left - 1))

Scan(n, devs, start) ==
  ScanBus([net |-> n, devs |-> devs, bus |-> RootBus, start |-> start, hung |-> FALSE], RootBus, None)

(***************************************************************************)
(* CxlBusDriver.init.  A device of the list is a memory device if an       *)
(* endpoint answers with the device DVSEC; the registers of one that       *)
(* answers are looked for where its BAR was put.  A read that is never     *)
(* answered is None after a timeout, and the handler dies of it.           *)
(***************************************************************************)
Answers(n, dev) == ConfigAnswer(n, dev.bdf) # None
IsMem(n, dev) == dev.who \notin Bridges /\ Answers(n, dev) /\ ConfigAnswer(n, dev.bdf) \notin Bridges
RegisterAddress(dev) == dev.bar
HasRegisters(n, dev) == Answers(n, dev) /\ MmioAnswer(n, RegisterAddress(dev)) # None
Kills(n, dev) == Answers(n, dev) /\ MmioAnswer(n, RegisterAddress(dev)) = Silent
\* Somebody of the list makes the scan of all of them end in an error.
InitDies(n, devs) == \E i \in DOMAIN devs : Kills(n, devs[i])
MemorySize(dev) == DeviceSize[dev.who[2]]
MemDevices(n, devs) == SelectSeq(devs, LAMBDA dev : IsMem(n, dev))

(***************************************************************************)
(* The application's ranges.  host.tracker keeps one range per vPPB and    *)
(* type, host.ranges is the memory hub's list.                             *)
(***************************************************************************)
Types == {"CFG", "MMIO", "BI", "UNCACHED", "DRAM"}
MemRange(base, size, type) == [base |-> base, size |-> size, type |-> type]
\* Never "BI": the driver looks for the enable bit in the wrong register.
BiEnabled == GetBiEnable("D2", 1)
MemType(n, dev) == IF HasRegisters(n, dev) /\ BiEnabled THEN "BI" ELSE "UNCACHED"

AddRange(h, range) == [h EXCEPT !.ranges = Append(@, range)]
\* CxlDeviceMemTracker.add_mem_range
Track(h, v, range) ==
  AddRange([h EXCEPT !.tracker[v] = {r \in @ : r.type # range.type} \cup {range}], range)

\* CxlDeviceMemTracker.remove_mem_range
\* (Mutant: the vPPB's record is deleted, its ranges stay in the hub.)
UntrackOnly(h, v) == [h EXCEPT !.tracker[v] = {}]
Untrack(h, v) ==
  [h EXCEPT !.tracker[v] = {}, !.ranges = SelectSeq(@, LAMBDA r : r \notin h.tracker[v])]

\* The vPPB of a device of the driver's list: its parent's port number, as
\* its PCI Express capability gave it when the parent was found.
\* None when the parent is no longer known.
PortNumber(dev) == dev.who[2]
PortOf(devs, dev) ==
  LET parents == {i \in DOMAIN devs : devs[i].bdf = dev.parent} IN
  IF parents = {} THEN None ELSE PortNumber(devs[CHOOSE i \in parents : TRUE])

\* config_usp: the first decoder that is not committed, if there is one.
ConfigUsp(n, base, size, iw, list) ==
  IF FreeDecoders(n.uspDecoders) = {} THEN n
  ELSE [n EXCEPT !.uspDecoders[LowestOf(FreeDecoders(n.uspDecoders))] =
                   Configure(@, base, size, Ig, iw, list)]
\* Each device has one decoder; one that is committed is left as it is.
ConfigDevices(n, devices, base, size, iw) ==
  [n EXCEPT !.devDecoder =
     [d \in Devices |->
        IF d \in devices /\ FreeDecoders(<<@[d]>>) # {} THEN Configure(@[d], base, size, Ig, iw, <<>>)
        ELSE @[d]]]

(***************************************************************************)
(* Boot: my_sys_sw_app up to the connection with the fabric manager.       *)
(***************************************************************************)
AddBridges(h) ==
  LET bridges == SelectSeq(h.devs, LAMBDA dev : dev.who \in Bridges) IN
  [h EXCEPT !.cfg = @ + (CfgSize * Len(bridges)),
            !.ranges = FlattenSeq([i \in DOMAIN bridges |->
                         <<MemRange(h.cfg + (CfgSize * (i - 1)), CfgSize, "CFG"),
                           MemRange(bridges[i].bar, 1, "MMIO")>>])]

\* Interleaving: all devices share one range, recorded for the first vPPB.
InterleaveAll(n, h, mems) ==
  LET sizes == [i \in DOMAIN mems |-> MemorySize(mems[i])]
      size == Len(mems) * LowestOf(ToSet(sizes))
      ports == [i \in DOMAIN mems |-> PortOf(h.devs, mems[i])]
      devices == {mems[i].who[2] : i \in DOMAIN mems}
  IN [net |-> ConfigUsp(ConfigDevices(n, devices, h.hpa, size, h.iw), h.hpa, size, h.iw, ports),
      host |-> Track(h, ports[1], MemRange(h.hpa, size, MemType(n, Last(mems))))]

\* attach_single_mem_device, and the range of the device attached.
Attach(s, dev) ==
  LET size == MemorySize(dev)
      v == PortOf(s.host.devs, dev)
      decoded == ConfigDevices(s.net, {dev.who[2]}, s.host.hpa, size, 0)
      sized == [s.host EXCEPT !.size = size]
  IN IF FreeDecoders(s.net.uspDecoders) = {} THEN [net |-> decoded, host |-> sized]
     ELSE [net |-> ConfigUsp(decoded, s.host.hpa, size, 0, <<v>>),
           host |-> [Track(sized, v, MemRange(s.host.hpa, size, MemType(s.net, dev))) EXCEPT !.hpa = @ + size]]

RECURSIVE AttachAll(_, _)
AttachAll(s, mems) ==
  IF mems = <<>> THEN s ELSE With(Attach(s, Head(mems)), LAMBDA attached : AttachAll(attached, Tail(mems)))

Idle == [op |-> "idle", vppb |-> None, i |-> 0, kept |-> <<>>]
Dead == [Idle EXCEPT !.op = "dead"]
Free == handler = Idle /\ pending = None

\* The boot's outcome, from the end of the first scan.
BootFrom(s) ==
  LET mems == MemDevices(s.net, s.devs)
      known == [host EXCEPT !.devs = s.devs, !.mmio = s.start, !.mem = Bdfs(mems)]
      mapped == IF Ways(host.iw) > 1 THEN InterleaveAll(s.net, AddBridges(known), mems)
                ELSE AttachAll([net |-> s.net, host |-> AddBridges(known)], mems)
  IN IF s.hung \/ InitDies(s.net, s.devs) \/ (mems = <<>> /\ Ways(host.iw) > 1)
     THEN [net |-> s.net, host |-> [host EXCEPT !.devs = s.devs], handler |-> Dead]
     ELSE [net |-> mapped.net, host |-> AddRange(mapped.host, MemRange(0, 1, "DRAM")), handler |-> Idle]

Becomes(end) ==
  /\ net' = end.net /\ host' = end.host /\ handler' = end.handler
  /\ history' = [history EXCEPT !.fresh = Bdfs(end.host.devs) \ Bdfs(host.devs)]
  /\ UNCHANGED <<pending, commands>>

Boot ==
  /\ handler.op = "boot"
  /\ \E s \in {Scan(net, <<>>, MmioBase)} : \E end \in {BootFrom(s)} : Becomes(end)

(***************************************************************************)
(* The fabric manager's commands.                                          *)
(***************************************************************************)
\* The vPPBs the tables can number: none unbound before a bound one.
Tidy(slot) == BoundIn(slot) = 0 .. Cardinality(BoundIn(slot)) - 1

FmBind(v, d) ==
  /\ Free /\ commands < MaxCommands
  /\ net.slot[v] \notin Devices /\ \A w \in Vppbs : net.slot[w] # d
  /\ net' = BindSlot(net, v, d)
  /\ handler' = [Idle EXCEPT !.op = "bind", !.vppb = v]
  /\ commands' = commands + 1
  /\ history' = [history EXCEPT !.careless = @ \/ ~Tidy(net'.slot)]
  /\ UNCHANGED <<host, pending>>

\* The host is told first, then the switch.
FmUnbind(v) ==
  /\ Free /\ commands < MaxCommands
  /\ net.slot[v] \in Devices
  /\ pending' = v
  /\ handler' = [Idle EXCEPT !.op = "unbind", !.vppb = v]
  /\ commands' = commands + 1
  /\ UNCHANGED <<net, host, history>>

\* Careless, too, when the host has already read what now goes away.
SwitchUnbind ==
  /\ pending # None
  /\ net' = [net EXCEPT !.slot[pending] = None]
  /\ pending' = None
  /\ history' = [history EXCEPT
       !.untouched = FALSE,
       !.careless = \/ @ \/ ~Tidy(net'.slot) \/ handler.op \notin {"unbind", "scan"}
                    \/ \E i \in DOMAIN handler.kept :
                         handler.kept[i].who \in {Dsp(pending), Dev(net.slot[pending])}]
  /\ UNCHANGED <<host, handler, commands>>

(***************************************************************************)
(* The host's handlers.                                                    *)
(***************************************************************************)
\* _bind: nothing else runs, so the whole handler is one step.  The first
\* device that was not known gets the ranges; its size is the last one the
\* boot has attached.
BindFrom(s) ==
  LET mems == MemDevices(s.net, s.devs)
      new == SelectSeq(mems, LAMBDA dev : dev.bdf \notin host.mem)
      known == [host EXCEPT !.devs = s.devs, !.mmio = s.start, !.mem = Bdfs(mems)]
      v == PortOf(s.devs, Head(new))
      configured == Track([known EXCEPT !.cfg = @ + CfgSize], v, MemRange(known.cfg, CfgSize, "CFG"))
      mapped == Track(configured, v, MemRange(Head(new).bar, 1, "MMIO"))
      sized == Track([mapped EXCEPT !.hpa = @ + host.size], v,
                     MemRange(mapped.hpa, host.size, MemType(s.net, Head(new))))
      End(h, at) == [net |-> s.net, host |-> h, handler |-> at]
  IN IF s.hung \/ InitDies(s.net, s.devs) THEN End([host EXCEPT !.devs = s.devs], Dead)
     ELSE IF new = <<>> THEN End(known, Idle)
     ELSE IF v = None THEN End(known, Dead)
     ELSE IF host.size = None THEN End(mapped, Dead)
     ELSE End(sized, Idle)

HostBind ==
  /\ handler.op = "bind"
  /\ \E s \in {Scan(net, host.devs, host.mmio)} : \E end \in {BindFrom(s)} : Becomes(end)

\* _unbind: the ranges go first, then every known device is asked again.
HostUnbind ==
  /\ handler.op = "unbind"
  /\ host' = Untrack(host, handler.vppb)
  /\ handler' = [handler EXCEPT !.op = "scan", !.i = 1]
  /\ UNCHANGED <<net, pending, commands, history>>

\* scan_bus_unbind, one device a step.
HostRescan ==
  /\ handler.op = "scan" /\ handler.i <= Len(host.devs)
  /\ LET dev == host.devs[handler.i]
         who == ConfigAnswer(net, dev.bdf)
     IN handler' = IF who = Silent THEN Dead
                   ELSE [handler EXCEPT !.i = @ + 1, !.kept = IF who = None THEN @ ELSE Append(@, dev)]
  /\ UNCHANGED <<net, host, pending, commands, history>>

\* (Mutant: the memory devices found before stay listed.)
HostRescannedKept ==
  /\ handler.op = "scan" /\ handler.i > Len(host.devs)
  /\ host' = [host EXCEPT !.devs = handler.kept]
  /\ handler' = [handler EXCEPT !.op = "dvsec", !.i = 1, !.kept = <<>>]
  /\ UNCHANGED <<net, pending, commands, history>>
HostRescanned ==
  /\ handler.op = "scan" /\ handler.i > Len(host.devs)
  /\ host' = [host EXCEPT !.devs = handler.kept, !.mem = {}]
  /\ handler' = [handler EXCEPT !.op = "dvsec", !.i = 1, !.kept = <<>>]
  /\ UNCHANGED <<net, pending, commands, history>>

\* CxlBusDriver.init again: the DVSECs of a device, then its registers.
HostDvsec ==
  /\ handler.op = "dvsec" /\ handler.i <= Len(host.devs)
  /\ LET dev == host.devs[handler.i] IN
     /\ host' = IF IsMem(net, dev) THEN [host EXCEPT !.mem = @ \cup {dev.bdf}] ELSE host
     /\ handler' = CASE ConfigAnswer(net, dev.bdf) = None -> [handler EXCEPT !.i = @ + 1]
                     [] ConfigAnswer(net, dev.bdf) = Silent -> Dead
                     [] OTHER -> [handler EXCEPT !.op = "registers"]
  /\ UNCHANGED <<net, pending, commands, history>>

HostRegisters ==
  /\ handler.op = "registers"
  /\ handler' = IF MmioAnswer(net, RegisterAddress(host.devs[handler.i])) = Silent THEN Dead
                ELSE [handler EXCEPT !.op = "dvsec", !.i = @ + 1]
  /\ UNCHANGED <<net, host, pending, commands, history>>

HostConfirms ==
  /\ handler.op = "dvsec" /\ handler.i > Len(host.devs)
  /\ handler' = Idle
  /\ UNCHANGED <<net, host, pending, commands, history>>

Host == \/ Boot \/ HostBind \/ HostUnbind \/ HostRescan \/ HostRescanned
        \/ HostDvsec \/ HostRegisters \/ HostConfirms
Next == \/ Host
        \/ SwitchUnbind
        \/ \E v \in Vppbs, d \in Devices : FmBind(v, d)
        \/ \E v \in Vppbs : FmUnbind(v)

Init ==
  \E slot \in InitialSlots, iw \in IwChoices :
    /\ net = [slot |-> slot, bus |-> None, sec |-> [c \in Bridges |-> 0],
              window |-> [c \in Bridges |-> <<0, 0>>], bar |-> [c \in Components |-> 0],
              entry |-> [v \in Vppbs |-> [sec |-> 0, sub |-> 0, window |-> <<0, 0>>, bar |-> 0]],
              uspDecoders |-> Structure(TRUE, UspDecoders),
              devDecoder |-> [d \in Devices |-> Item(FALSE)]]
    /\ host = [devs |-> <<>>, mem |-> {}, tracker |-> [v \in Vppbs |-> {}], ranges |-> <<>>,
               cfg |-> CfgBase, mmio |-> MmioBase, hpa |-> 0, size |-> None, iw |-> iw]
    /\ handler = [Idle EXCEPT !.op = "boot"]
    /\ pending = None /\ commands = 0
    /\ history = [careless |-> ~Tidy(slot), fresh |-> {},
                  untouched |-> TRUE,
                  booted |-> Cardinality(BoundIn(slot))]

\* The switch carries out the commands it gets and the host's tasks run on.
Fairness == WF_vars(Host) /\ WF_vars(SwitchUnbind)
Spec == Init /\ [][Next]_vars /\ Fairness
-----------------------------------------------------------------------------
TypeOK ==
  /\ net.slot \in [Vppbs -> Devices \cup {None, Dummy}]
  /\ net.bus \in Nat \cup {None} /\ \A c \in Bridges : net.sec[c] \in 0 .. 255
  /\ \A i \in DOMAIN host.devs : host.devs[i].who \in Components
  /\ host.mem \subseteq Bdfs(host.devs)
  /\ \A v \in Vppbs : \A r \in host.tracker[v] : r.type \in Types
  /\ handler.op \in {"boot", "idle", "bind", "unbind", "scan", "dvsec", "registers", "dead"}
  /\ pending \in Vppbs \cup {None} /\ commands \in 0 .. MaxCommands

Settled == Free /\ ~history.careless

\* Whenever no handler runs and the fabric manager was careful, the host knows
\* every bound device, every component it knows answers at the bus number it
\* was found at, however the later scans renumbered the buses (scan_bus_bind,
\* scan_bus_unbind), and the registers of those the latest scan has added are
\* reached through every window and table on the way.
Reaches ==
  Settled =>
    /\ \A v \in BoundIn(net.slot) : \E i \in DOMAIN host.devs : host.devs[i].who = Dev(net.slot[v])
    /\ \A i \in DOMAIN host.devs :
         LET dev == host.devs[i] IN
         /\ ConfigAnswer(net, dev.bdf) = dev.who
         /\ dev.bdf \in history.fresh => MmioAnswer(net, dev.bar) = dev.who

\* The device and the address in it that an HPA is routed to.
Place(hpa) ==
  LET v == ManagerTarget(DecodersOf(net.uspDecoders), hpa, None)
      d == IF v = None THEN None ELSE net.slot[v]
      dpa == IF d \in Devices THEN ManagerDpa(<<net.devDecoder[d].decoder>>, hpa, None) ELSE None
  IN IF dpa = None THEN None ELSE <<d, dpa>>
Mapped == UNION {{128 * k : k \in (d.base \div 128) .. ((d.base + d.size) \div 128) - 1} :
                   d \in {net.uspDecoders[i].decoder : i \in 1 .. UspDecoders}}
\* The number of devices is that of the ways the application was given.
Matched == Ways(host.iw) = 1 \/ Ways(host.iw) = history.booted

\* Once decoders are programmed no two host addresses reach the same byte of
\* a device, none leaves the device's memory, and as long as all devices of
\* the boot stay bound each address of the programmed ranges reaches one; all
\* that the boot gives the memory hub as device memory is programmed.  The
\* switch's and the devices' decoders cut an address in the same way, and the
\* host's writes leave them what it meant (configure_hdm_decoder_switch).
MemRanges == {r \in ToSet(host.ranges) : r.type \in {"BI", "UNCACHED"}}
RoutedOnce ==
  (Matched /\ ~history.careless) =>
    \E place \in {[a \in Mapped |-> Place(a)]} :
      /\ \A a, b \in DOMAIN place : (a # b /\ place[a] # None) => place[a] # place[b]
      /\ \A a \in DOMAIN place : place[a] # None => place[a][2] < DeviceSize[place[a][1]]
      /\ history.untouched => \A a \in DOMAIN place : place[a] # None
      /\ (Free /\ commands = 0) => \A r \in MemRanges : {r.base, r.base + r.size - 128} \subseteq DOMAIN place

\* When no handler runs, exactly the bound vPPBs have ranges, the memory hub
\* has every range the tracker has, and no two of its ranges of one kind
\* overlap (add_mem_range, remove_mem_range).
Overlap(r, s) == r.base < s.base + s.size /\ s.base < r.base + r.size
Space(type) == IF type \in {"BI", "UNCACHED"} THEN "mem" ELSE type
Tracked ==
  (Settled /\ Ways(host.iw) = 1) =>
    /\ \A v \in Vppbs : host.tracker[v] # {} <=> v \in BoundIn(net.slot)
    /\ \A v \in Vppbs : host.tracker[v] \subseteq ToSet(host.ranges)
    /\ \A r \in MemRanges : \E v \in Vppbs : r \in host.tracker[v]
    /\ \A i, j \in DOMAIN host.ranges :
         (i < j /\ Space(host.ranges[i].type) = Space(host.ranges[j].type))
           => ~Overlap(host.ranges[i], host.ranges[j])

\* CxlMemRouter: the number it puts in a back-invalidation that comes up from
\* a vPPB's port, None when it lets none up, and where it takes a response that
\* carries that number.  It goes by the decoder's values at reset, whatever the
\* host has written since.
BiId(v) ==
  LET control == Reset(BiDecoderControl("DSP")) IN
  IF control.bi_enable = 1 /\ control.bi_forward = 0 THEN net.sec[Dsp(v)] ELSE None
BiTarget(bus) ==
  LET hits == {v \in Vppbs : net.slot[v] \notin Devices \/ net.sec[Dsp(v)] = bus} IN
  IF hits = {} THEN None ELSE LowestOf(hits)

\* The number that stands for a vPPB in a back-invalidation leads the response
\* back to that vPPB, and to no other.
BiReturns == Settled => \A v \in BoundIn(net.slot) : BiTarget(BiId(v)) = v

\* The boot and every command of a careful manager are carried out to the end
\* by the host: no handler waits for ever for an answer of a vPPB without a
\* device, or dies half-way (an application that did not attach a device
\* singly at its boot has no size for one bound later, and dies).
HandlersEnd ==
  [](handler.op \in {"boot", "bind", "unbind"} /\ Ways(host.iw) = 1 /\ history.booted > 0
       => <>(Free \/ history.careless))
=============================================================================
