# Formal models of OpenCIS

OpenCIS emulates a CXL system: hosts, a switch and CXL devices, each a set of
asyncio coroutines that exchange packets over queues and TCP connections. This
directory holds TLA+ models of it, TLC configurations that check them on small
instances, and theorems that TLAPS checks for every instance. Paths below are
under `src/opencis/`; `component/` stands for `cxl/component/`.

## 1. Inventory

| part | code | state it keeps | operations | hard behaviour | what makes it correct |
|---|---|---|---|---|---|
| Cache controller | `component/cache_controller.py` | blocks (tag, MESI state, data), LRU | load, store, replace, lookup for an agent | the processor's access suspends in replacement, fill and ownership request; snoops run in between | a copy that may be used is the last value stored; responses match requests |
| Cache coherency bridge | `component/root_complex/cache_coherency_bridge.py` | current packet and state, a snoop filter per device | host and device requests in turn, snoops, responses | packets of several devices, untagged responses | snoop filter covers the devices; one owner; every request ends |
| CXL.cache DCOH | `component/cxl_cache_dcoh.py` | own request, three input channels | own request, response, host snoop | snoops are served during its own request | no answer contradicts the cache; the loop survives |
| Home agent | `component/root_complex/home_agent.py` | current packet, scheduled snoop response | host requests, NDR, DRS, BISnp | NDR and DRS are separate queues, one current packet | one request in flight, answered whole |
| CXL.mem DCOH | `component/cxl_mem_dcoh.py` | own request, snoop filter of the host | own request, M2S requests and writes, BIRsp | serves the host while its own request waits for the host | as for the bridge |
| Host memory hub, memory controller | `component/cxl_memory_hub.py`, `root_complex/memory_controller.py` | response queues | load, store by address type | several callers share a response queue | an answer reaches who asked |
| Component life cycle | `util/component.py` | status, condition | run, stop, wait_for_ready | failure while starting, stop before ready | nobody waits for ever |
| Switch connections | `component/switch_connection_{manager,client}.py`, `cxl_packet_processor.py` | `connected` and a processor per port, TLP table | handshake, start, disconnect | check and set of `connected` around an await; retry | one client per port; `connected` says whether there is one |
| Virtual switch, binding | `component/virtual_switch/*`, `bind_processor.py`, `physical_port_manager.py` | slots, vPPB to port map, LD ids, routing table | bind, unbind, freeze, unfreeze | steps before a check that may fail; concurrent commands; packets left in queues | slot, map and routing table agree; no packet for an old binding |
| Routers | `virtual_switch/routers.py`, `pci/component/routing_table.py` | ranges per vPPB | route by address, BDF, cache id | update while packets are routed | a packet has one way |
| PBR switch | `component/pbr_switch_manager.py`, `pbr_switch_router.py` | PID assignments and bindings, DRT | assign, clear, bind, set | re-assignment, range boundaries | an assignment has one target and a target one PID |
| Address decoders | `component/hdm_decoder.py`, `bi_decoder.py`, `cache_route_table.py` | decoders, interleaving | commit, HPA to DPA | interleave arithmetic, boundaries | HPA to DPA is one to one |
| CXL.io | `root_complex/io_bridge.py`, `pci/component/*` | next tag, completion queue | config and MMIO access with timeout | a late completion | a completion answers its request |
| CCI, MCTP, fabric manager | `component/cci_executor.py`, `component/mctp/*`, `fmld.py` | background command, outstanding requests | commands, tunnelling | a background command with polling | one background command |
| Dynamic capacity | `cxl/cci/fabric_manager/dcd_management/*` | extents | add, release | overlapping extents, partial failure | extents do not overlap |
| Devices, registers, packets, drivers, applications | `cxl/device`, `cxl/mmio`, `cxl/config_space`, `cxl/transport`, `drivers`, `apps` | registers, tables | read, write, encode | | tables of bit fields, wiring |

How they interact: the processor of a host or device (driver, traffic generator)
issues loads and stores to its cache controller; on a miss the controller puts
one request on a FIFO to its coherence agent and waits for the response. The
agent is chosen by the address: in the host the bridge for host memory and the
home agent for device memory, in a device the DCOH of CXL.cache (Type 1) or
CXL.mem (Type 2). Agents of host and device exchange packets over the switch,
whose FIFOs, bindings and TCP connections keep the order of a direction, and
look lines up in their own controller over a second pair of FIFOs.

## 2. Plan

The order was: the most important behaviour, coherence, first; then what the
switch does to the packets of a system that changes while it runs; then what
decides where an address goes; then who manages it.

1. **Coherence** : `CacheController`, composed with both protocols, `CxlCache`
   (host memory) and `CxlMem` (device memory), each shown to implement
   `CoherentMemory`; the invariants of both proved, and the implementation too.
2. **Binding**: `VppbBinding`; its invariants all proved.
3. **Connections**: `Packets`, `IoManagers`, `SwitchConnection`; the safety
   its run checks, of ports, readers, transactions and layouts, is proved.
4. **Addresses**: `HdmDecoder`, `Registers`, `HdmRegisters`, composed with the
   host's drivers and applications, the bridges and the routers in
   `Enumeration`; the decoder's arithmetic and its programming proved.
5. **Management**: `CciPayloads`, `CciPackets`, `PbrSwitch`, composed with the
   fabric manager, the executor and the devices in `FabricManagement`; its
   invariants all proved.

All of this is done, and with it the theorems of section 6. What a
continuation would take up first: the life cycle of a component
(`util/component.py`), and uncached and cached traffic to one device.

## 3. Modules

| module | models |
|---|---|
| `CoherentMemory` | what a coherent cache system promises: copies are what was last stored, a store needs every other copy gone |
| `CoherentMemoryProofs` | `TypeCorrect`, `CopiesFresh` |
| `CacheController` | state and operations of a controller, instantiated by both protocols |
| `CxlCache` | host memory: controllers, `CacheCoherencyBridge`, the `CxlCacheDcoh` of each Type 1 device, their links, host memory |
| `CxlCacheProofs` | `TypeCorrect`, `ResponsesMatch` |
| `CxlCacheSnoopProofs` | `FilterInclusive`, `DevicesOwnAlone`, `AnswersAlwaysSupported`, `OneMemory` |
| `CxlMem` | device memory: both controllers, `HomeAgent`, `CxlMemDcoh`, their links, the device's memory |
| `CxlMemProofs` | `TypesKept`, `OneInFlight`, `AnswersWhole`, `HomeAgentAlive`, `MissIsLast`, `HostFilterInclusive`, `OneOwner`, `OneMemory` |
| `VppbBinding` | a virtual switch and its port: bind, unbind, freeze and unfreeze commands of the fabric manager, the bind processors, the managers of the bridge and the vPPB, the multi-logical device behind it, and the packets between them |
| `VppbBindingProofs` | `BindingTypes`, `OwnLdAlways`, `TablesAgreeAlways`, `OwnAnswersAlways`, `UpRoutingNeverFails` |
| `Packets` | layouts of CXL.io, CXL.mem, CXL.cache and sideband packets, with their creators and accessors |
| `IoManagers` | what the configuration space and MMIO managers answer |
| `SwitchConnection` | a port's connections: handshake, packet processors on both sides, clients that stop, exit, or are killed |
| `SwitchConnectionProofs` | `OnePerPortAlways`, `ConnectionTypes`, `OneReaderAlways`, `TagsPairedAlways`, `FieldsFitAlways` |
| `HdmDecoder` | decoders of switches and devices: target and device address of a host address |
| `Registers` | masked register writes, capability structures, the BI decoder |
| `HdmRegisters` | the registers of HDM decoders and how the bus driver programs them |
| `HdmDecoderProofs` | `OneHpaPerByte`, `DpaInDevice`, `ConfigureCommits` |
| `Enumeration` | a host that scans the bus behind a virtual switch, assigns windows and BARs, programs the decoders, and follows binds and unbinds |
| `CciPayloads`, `CciPackets` | layouts of CCI commands and answers; CCI messages and the packets that carry them |
| `PbrSwitch` | PID assignments, routing tables and PID bindings of a PBR switch |
| `FabricManagement` | the fabric manager and its connection, the switch's executor, multi-logical devices, and `PbrSwitch` |
| `FabricManagementProofs` | `PbrTypes`, `PidsOwned`, `FabricTypes`, `AnswersOwned` |
| `MCCxlCache`, `MCCxlMem`, `MCVppbBinding`, `MCSwitchConnection`, `MCEnumeration`, `MCFabricManagement` | values of the constants for TLC |

`EXTENDS` composes: `SwitchConnection` takes its packets and its device from
`Packets` and `IoManagers`; `Enumeration` puts its packets through
`HdmRegisters`, `HdmDecoder` and `Registers`; `FabricManagement` has the state
of `PbrSwitch` and the messages of `CciPackets`. `CacheController` is
instantiated by both protocols. A command of the fabric manager that binds a
vPPB appears in three modules, each of which has one side of it: how it travels
and is answered in `FabricManagement`, what it does to the switch in
`VppbBinding`, and what the host makes of it in `Enumeration`.

### What a step is

The program is single-threaded: a coroutine runs until it is really suspended.
A put on an unbounded `Queue` never suspends and a get on a non-empty one does
not either, so an action is everything a coroutine does between two points at
which it can wait. Four consequences are used throughout:

* An answer and what its receiver does with it are one step. The task that waits
  on the response queue is made ready by the put and runs before the answering
  loop, which first yields with `sleep(0)`, reaches its next turn.
* A lookup an agent makes in its controller (`request.put`, `response.get`) is
  part of the agent's step in `CxlCache`. The controller's task for these
  lookups does nothing else, and until it answers, the only other code that can
  touch the line is the processor of that controller, whose hits on it commute
  with the rest of the step.
* The bridge's memory accesses are part of its step. The task that serves them
  does so in order, so a write that is queued is seen by the next read. Accesses
  to the device's memory (`FileAccessor`) do not suspend at all.
* In `CxlMem` a turn of a loop may do several things. What it can do without
  suspending is one step; it is cut where a lookup can suspend it, and `part`
  records where it is. A turn that finds nothing to do is no step.

`HaReceive`, `BridgeReceive` and `DcohReceive` move a packet from the link, which
is FIFO per direction, to the queue of its channel: from there on packets of
different channels can overtake one another, as in the code. In `CxlCache` the
DCOH takes the first packet of its channel from the link itself.

### The modules of the switch and its manager

* **`VppbBinding`**. `slot`, `maps` and the port's table are the fields of
  `VirtualSwitch`, `PortBinder` and `PciToPciBridgeDevice`; a command is a task
  that may be at any await of `bind_vppb` or `unbind_vppb`, one action for each
  stretch between two of them. `stop` puts an end marker into a FIFO; the task
  that reads it ends when it gets there.
* **`SwitchConnection`**. `conn[k]` is a TCP connection and the handler of it in
  `SwitchConnectionManager` with its packet processor; `client[c]` a program with
  its own. Writing suspends only when the other side has reset the connection
  (`drain`). A FIFO whose packets are taken out as they come is left out.
* **`Enumeration`**. The host's handler is a program with a position; each
  action is what it does up to the next point where the switch or the manager
  can come between. Register and configuration addresses are in units of
  1 MB, host physical addresses in bytes from the start of the window.
  `RangeUnit` is the granule of a decoder's range, 2^28 in the code, scaled
  with the sizes of the devices.
* **`FabricManagement`**. `requests` is all that is under way from the manager's
  queue to the executor, `answers` all from the executor's queue to the
  manager's client: what part of them had crossed the connection matters only
  when the manager dies, and is chosen then. `link` follows the connection from
  `up` over `gone` (the manager is dead) and `ending` (the end marker waits
  behind the answers) to `closed`, or to `over` when a write failed first.
  `fm.at` is `stale` when a new command finds an old answer under its tag, which it
  then takes without waiting, as `_get_response` does. That is how a manager goes on
  once its tags have come round (`fm.lap`), because answers are never taken off
  `_responses`. When every tag has an old answer and none of them ends a loop of polls,
  that loop never waits, and nothing else of the manager runs (`Spinning`); what it
  would send is left out.
  `lds[p]` is a port and its device: `line` is its connection, as `link` is the
  manager's, `task` the task that takes commands from `cci_fifo`, `down` that FIFO and
  `up` what the device has answered. A device may be absent at the start (`Plugged`),
  leave at any point and come again. What waits in the FIFO stays for the next one;
  what is written to a device that is gone, or dropped by one that is not
  multi-logical, is lost (`history.lost`). A marker of a connection whose write raised
  stays and ends the task of the next, whose port is then deaf.
  A notice of a binding to a host that is not connected is a `KeyError` in
  `component/short_msg_conn.py:187`, which ends the event (`TellsHost`).

### Data

Addresses are the lines that map to one set (other sets do not interact, but for
the bridge's or agent's turns, which more lines of one set show as well). A value
stands for the 64 bytes of a line. The victim of a replacement is any valid
block, which includes the least recently used. A response's fields that nobody
reads are left out; fields of an agent at rest that are never read again are
reset, which only merges states. A GO of state SHARED and the data packet put
behind it are one message, since the DCOH waits for the second when it has the
first. `latest` is a history variable: the value of the last store that took
effect. `Loads` and `Stores` say who reads and writes what; they do not restrict
the code but the programs run on it.

## 4. Runs

Every pass run is exhaustive. `CHECK_DEADLOCK FALSE` is set because these systems
may rest: a processor need not issue accesses, a fabric manager need not send
commands, a device whose DCOH loop has died stops, and commands, requests and
connections are bounded.

| run | instance | shows |
|---|---|---|
| `cache_protocol` | 2 devices, 2 lines, all caches one way, 1 value; 2.3 M states | `TypeOK`, `RequestsPaired`, `SnoopFilterInclusive`, `DeviceOwnsAlone`, `AnswersSupported` |
| `cache_data` | 1 device (1 way), host (2 ways), 2 lines with one writer each, 2 values; 31 k states | `Completes`, `CoherentMemory` |
| `cache_dcoh` | 1 device, 1 line | finding: the DCOH's assertion fails |
| `cache_clean` | 1 device, 2 lines, one way | finding: a dirty line flushed as clean |
| `mem_protocol` | 3 lines, 2 ways, the host reads, both write; 204 k states | types, `OnePacketPerChannel`, `ResponsesWhole`, `HaAlive`, `SnoopFilterInclusive`, `OwnerAlone`, `Completes` |
| `mem_readers` | 3 lines, 2 ways, both read, the host writes; 337 k states | `MissFollowsWriteBack` |
| `mem_data` | 3 lines, 3 ways, 2 values; one line the host writes and the device reads, two the host reads and both write; 2.4 M states | `CoherentMemory` |
| `mem_whole` | 1 line, reads only | finding: a completion without its data |
| `binding` | 2 vPPBs, 1 port, LDs 0 to 2 of which 0 and 1 are allocated, one initial binding, 4 commands; 145 k states | types, `TablesAgree`, `OwnLd`, `OwnAnswers`, `UpRoutingAlive`, `CommandsEnd`, `Answered` |
| `connections` | 1 port, a client that retries and a stray one, 2 connections, 2 requests; 260 k states | types, `OnePerPort`, `OneReader`, `TagsPaired`, `FieldsFit`, `Freed`, `HandshakeEnds` |
| `enumeration` | 2 vPPBs, 3 devices of two sizes, 4 initial bindings, 1 or 2 ways, 4 commands; 20 k states | types, `Reaches`, `RoutedOnce`, `Tracked`, `BiReturns`, `HandlersEnd` |
| `fabric` | 2 switches (with and without PBR commands), an MLD and an SLD, 15 events of which 2 happen, the manager dies or a device leaves once; 633 k states | types, `PidOwner`, `OwnAnswers`, `Answered` |

### Bounds

*Coherence.* Two devices are the least for which a snoop list has more than one
way to be answered and a dirty line can go from device to device; two lines of
one way make every access replace; three lines of two ways let the host hold two
lines while it replaces one; three lines that fit, two of them written by both, show
data without replacement. One value is enough where properties are about
states and not about data; with two a stale copy differs from a fresh one. No
counter or queue needs a bound: every agent has at most one request in flight.

*`binding`.* Four commands are enough to bind, freeze, unbind and bind again, and
to bind the second vPPB to the LD the first has left. `MaxBinds` bounds the
connections a run may make (objects are never reused, so each has a number);
`MaxRequests = 1` is one request in flight per vPPB, which is all it takes for one
to be left behind by an unbind. LD 2 is a number the device has not allocated;
the command refuses it (`RefuseBind`).

*`connections`.* `MaxConns` bounds the connections that are made. Two are enough
for both clients to want the port at once, and for one to be lost and made again;
what a third would meet is what the second left. The stray client opens with a request, with a port that does not exist, or
with a packet only a switch sends. One tag makes a host that goes on after
a timeout use it again at once.

*`enumeration`.* Two vPPBs are enough for a device to come between others and for
an address range to be given up below another. With three devices each slot can
be given a device that was not there at boot. Sizes 512, 768 and 512 bytes
with a granule of 256 let two devices interleave, and one be larger than
the next. Four commands unbind both and bind both, in every order.

*`fabric`.* With two bits of tag, a start of the manager has four tags, and an event
of two commands and a few polls makes them come round; the code's eight bits do so
after 256 commands, polls included. Two events are the least that can be confused.
`MaxTurns = 1` is one death of the manager or one device that leaves, and comes again.
All devices are there at the start, and one that has left stands for one that never
came. `mld_get` goes to each port: the upstream one, for which the executor's loop ends,
the multi-logical device, and the single one, which drops it. Three targets, of
which two share a target id, are the least for the manager of PIDs to mistake one for
the other. The configuration was also run with one bit of tag (421 k states), where a
manager that spins is reached, and with `MaxTurns = 2` and only the event `mld_get` for
the multi-logical device (26 k states), where a port that is deaf is reached.

### Fairness

`WF_vars` of every loop (bridge, DCOH, home agent, receivers, bind processors,
packet processors, handlers). Each is a task that yields with `sleep(0)` or awaits
a queue or a socket, and the event loop runs ready tasks in turn, so none that can
go on is passed over for ever. Processors, clients that come, and the fabric
manager's user have no fairness: nothing obliges them to act. Crashes, resets and
freezes have none either. In `cache_data` completion is stated up to the death of
a DCOH, which is the finding of `cache_dcoh`. In `binding` devices answer: a device
of the repository answers every request in its own loop. `Answered` there is
stated up to a vPPB that stays frozen. `enumeration` has two tasks, the host's
handler and the switch's unbind. In `fabric` one `WF_vars` for all tasks
is enough: between two events, deaths or turns of a device the steps are finitely many, since
every answer awaited fills one more place of `_responses`, so no task can starve
another. That a device comes again has no fairness. `Answered` there is
stated up to `Broken`: a command that nobody will answer, for which the client has no
timeout and holds the event lock for ever (`Unanswered`: it was lost, or waits at a
port where nothing is sent or nobody reads), polls that spin, a connection that is not
opened again, and loops that raised. So the property says that every other command is
answered and every event ends, and names the ones that hang.

### Mutants

The operators introduced by `(Mutant: ...)` are broken variants of the
definition that follows them: put in its place, each makes TLC find the property
`PROJECT.json` pairs it with violated, so every property is known to depend on
the code it is about. No specification uses them.

### Restrictions of the passing runs, and what fails outside them

The models are unrestricted; the runs fix which programs they are checked for, and
where a property holds only for a careful user its own condition says so. Outside
these the following were seen to fail, as consequences of the findings or of the
same mechanisms:

* `CxlCache`: with two devices a dirty line forwarded from one to the other leaves
  memory stale; a host that replaces lines loses data (`cache_clean`) even with
  one writer per line; a `DIRTY_EVICT` that was overtaken by an `RSP_I_HIT_I`
  writes old data. So `CoherentMemory` is checked and proved for one device, a host that
  does not replace, and one writer per line. When the host loads a line the device
  has modified, it installs it as modified while the device keeps a shared copy;
  `DeviceOwnsAlone` is therefore about devices.
* `CxlMem`: when the device loads a line that the host reads as well, or that both
  write, a hit of `BISNP_DATA` in the host makes it write the line back, which takes the host out of the snoop filter while it keeps a
  shared copy: `CoherentMemory` fails; and the completions of clean hits
  (`mem_whole`) leave data behind that can end a later snoop's turn, after which
  `OnePacketPerChannel` and `HaAlive` fail. `CoherentMemory` also fails with
  replacement at the host: a write-back queued behind a back-invalidate snoop of
  the same line later writes old data and invalidates the device's copy.
* `MissFollowsWriteBack` holds for all programs tried. The comment at
  `home_agent.py:270` explains the miss by a write-back that is under way; the
  model shows that the write-back has always been completed by then.
* `VppbBinding`: `careless` records that the fabric manager broke a rule the switch
  does not enforce: it bound an LD that was bound, unbound a frozen vPPB, or unbound
  one while its host had requests under way. Only `OwnLd`, `CommandsEnd` and
  `TypeOK` hold without this condition.
* `SwitchConnection`: a client that resets its connection during the handshake
  ("dropped") makes the end of its handler free a port that another client may have;
  a task that fails while it writes ("unsent", "unpaired") leaves the other tasks of
  its processor reading the port's FIFOs; tags are counted apart for configuration
  and MMIO requests, and one that was given up stays in the table ("reused").
  The channel of CXL.mem and the layouts of its requests are in the module and
  in `FieldsFit`, but the run's host sends no memory traffic.
* `Enumeration`: `history.careless` records an initial binding with a gap, a host
  that read a vPPB between the manager's notice of the unbind and the unbind, or
  an unbind after the rescan. `HandlersEnd` is for one way and at least one device
  at boot: otherwise the handler of a hot bind dies of the unassigned `size`
  (`apps/memory_pooling.py:221`).
* `FabricManagement`: a caller takes another command's answer in two cases, both of
  which `OwnAnswers` names. A command that was under way when a manager died can
  leave an answer that the next manager takes for its own; and when the tags of one
  start have come round, each command takes the answer of an earlier one with its
  tag. No comment or test of the repository says otherwise of either.

## 5. Findings

Each of these is shown by a run that ends in a violation:

1. `cxl_cache_dcoh.py:496`: the assertion that a snoop for the line of the own
   request meets a write-back fails when the device is asking for that line.
2. `cache_controller.py:289`: a line the host modified and a device then read is
   SHARED, is flushed as clean, and its data are dropped by the bridge.
3. `cxl_mem_dcoh.py:184`: a read that hits an exclusive line in the device is
   answered by a plain completion and data; `HomeAgent` takes the completion for
   that of a write. The host's load is then answered by the data alone with
   status OK, or, depending on the order of the turns, does not end.

The models follow the code in these points too, where a reader may expect
otherwise; a property's condition names them or they lie outside the runs:

* *Connections.* The completion of a configuration read has requester id 0
  (`pci/component/config_space_manager.py:119`) while the routers look for the id of
  the virtual switch, so that only virtual switch 0 gets its completions. The length
  of an access of 256 double words and more is read without its upper bits in
  place (`cxl/transport/transaction.py:399`). An LD's packet processor does not
  end when its stream does.
* *Binding.* The API client answers a bind with the return code of the status
  command, so the host is told of a bind that failed
  (`component/mctp/mctp_cci_api_client.py:257`).
* *Addresses.* The fabric manager tells the host of an unbind before it unbinds
  (`component/fabric_manager/socketio_server.py:307`); the host may still see the device. A hot bind
  rewrites the bridge's window with the new region alone, never programs the new
  device's decoder, and takes the size of the last device of the boot. Unbinding
  vPPB 0 while 1 is bound drops the entry of vPPB 1's bridge
  (`pci/component/routing_table.py:110`). `get_bi_enable` reads the capability
  where it means the control register (`drivers/cxl_bus_driver.py:337`), so no
  memory is ever of kind BI. Interleave sets of 3, 6, 12 and 16 ways have more
  targets than the decoder's eight.
* *Management.* After 256 commands of one start, polls included, the manager acts on old
  answers, since `_responses` is not cleared (`component/mctp/mctp_cci_api_client.py:120`,
  `:157`); if all of them are failures, its loop of polls never yields again (`:170`). A
  command for a logical device at a port without a device is never answered
  and no later event is handled (`:123`). Two instances of one target id may share a PID, because
  `pbr_switch_manager.py:248` compares target ids alone. The length of a packet's
  dynamic field is kept in its class (`util/unaligned_bit_structure.py:558`), so one
  parsed packet sets the size of the next; `fm.sized` follows it. The FMLD's
  command that sets LD allocations dies on its conversion
  (`cxl/transport/transaction.py:2324`). A second connection of a manager, when
  it is refused, clears `connected` (`component/mctp/mctp_connection_manager.py:80`).

## 6. Proofs

Each module of proofs extends the module it is about; its theorems hold for every
value of the constants that meets the module's assumptions, which every run of
that module evaluates.

**`CxlCacheProofs`** (any number of devices, lines, values, ways and programs;
`CxlCacheAssumption`)

* `TypeCorrect`: `Spec => []TypeOK`. `TypeOK` is inductive because it also says
  that an agent that is not at rest has a request of the kind its handlers expect.
* `ResponsesMatch`: `Spec => []RequestsPaired`. The inductive invariant is
  `TypeOK /\ RequestsPaired`: each suspended access has exactly one request, in
  the queue or being served, and it is the one the access waits for. Each
  controller action creates a request only from `Idle`; each agent step either
  moves it from the queue to the agent, or answers it, which makes the processor
  go on, possibly with its next request. It is what allows the responses
  to carry no tag.

**`CxlCacheSnoopProofs`** (the same assumption) proves `Spec => []P` for the three
properties of `CxlCache` about what the bridge knows of the devices: `FilterInclusive`
(`SnoopFilterInclusive`), `DevicesOwnAlone` (`DeviceOwnsAlone`) and
`AnswersAlwaysSupported` (`AnswersSupported`). None of them is inductive: the bridge
strikes the last device of its list off the list and the snoop filter, whichever
device has answered, so that for a while the filter misses a device that still has
the line. The invariant (`Inv`) adds to the types and `RequestsPaired`

* `Pipe`: a device's request is in one place (its link, the bridge's queue, the
  bridge, or its answer on the way back), and the same in each; on its way down a
  device has at most an answer and, behind it, a snoop.
* `Account`: a device owes the bridge at most one answer, and the devices that owe
  one and the answers that wait are together as many as the list has devices. When the
  list is empty all have answered, whoever was struck off when. A DCOH that has died
  owes its answer for ever, and the bridge never gets beyond it.
* `Included` and `Alone`: the two properties, said of what a device holds or has been
  granted (`Holds`, `Owns`), and with the exception spelled out: a device struck off
  has yet to answer.
* `Round`: a device that has answered an invalidation has no copy, one that has
  answered a read does not own the line, one that says it has no copy has none, and
  an evicted line is gone before the filter forgets it.

The proof has a lemma for each action; those that do little to the devices share
`CopiesFrame` (steps of anything but the bridge) and `RestFrame` (steps of the bridge
between requests).

The fourth theorem, `OneMemory`, is that `CxlCache` implements `CoherentMemory` under
the mapping it declares: `Setting => (Spec => CoherentMemory)`. `Setting` is the setting of
the run `cache_data`, for any lines, values and programs within it: one device
(`OneDevice`), no line that both the host and the device store to (`OneWriter`), and
room in the host's cache for all lines (`HostHolds`), while the device replaces as much as
it likes. What fails without each of the three is in section 4. The invariant
(`Facts`) adds to `Inv` where the data are:

* `Stored`: the last value stored in a line is in the host's cache or in memory, unless
  the device has the line modified, has been granted it to write, or has sent its data.
* `Fresh`, `DirtyFresh`, `GoFresh`, `Flushing`: a copy that may be used, a block that
  is being written back, the data of a grant on its way to the device, and those of a
  write-back that has not begun to move, are all the last value stored. A write-back
  without data is of a block that is not modified.
* `Moving`: there is one packet of data at most from the device, whether it is on the link or in
  the bridge's queue. It is of the line the bridge works on, and the bridge takes it before
  it turns to another request, although data and answers are different queues: either the
  bridge has pulled a write-back, or the device has said that it forwards.
* `Ended`, `Found`: when the bridge has answered an evict, or has the answer to the
  host's read, the device has no modified block of that line any more, unless the pull has yet
  to reach it, so the memory that is read next is the memory the data went to.
* `HostAlone`, `Program`: the host has a line exclusive or modified only where the
  device has no copy or is the line's writer, and each suspended access is one its program makes.

With it each step of the bridge, a DCOH or a processor is one step of the abstract memory or
none, as for `CxlMem` below. A write-back that a snoop of the same line overtakes is the case
that needs the most of it: the device answers with its data, keeps a shared block it no
longer uses, and writes the same data back later.

**`CxlMemProofs`** (any set of lines, values, ways and programs; `CxlMemAssumption`)
states what it needs of the programs as the hypothesis of each theorem, because
outside of it the code does what section 4 says it does.

| hypothesis | says | outside it |
|---|---|---|
| `LoadsApart` | no line is read by both the host and the device | a clean hit is completed without data, to a reader that waits for some (finding `mem_whole`) |
| `DeviceReadsOwn` | the device reads only lines the host does not access | a device that hits a modified line makes the host write back, and forget in the filter a copy it keeps as shared |
| `HostHolds` | the host's cache has room for all lines | a line evicted again before its write-back has been sent has the second one write the first one's data |

* `TypesKept`: `Spec => []TypeOK`, of any program.
* `OneInFlight`, `AnswersWhole`, `HomeAgentAlive`, `MissIsLast`: if `LoadsApart`,
  then always `OnePacketPerChannel`, `ResponsesWhole`, `HaAlive`,
  `MissFollowsWriteBack`. The invariant is `Protocol`: types and, for each state of
  the two agents, where the one packet of each channel is and which opcode it has.
  Its parts are `Ordered` (a link and a queue hold no second packet of a channel),
  `HaShape` and `DcohShape` (what an agent in a given state has in its hands),
  `Exchange` (a request or write of `HomeAgent` from the link to the end of its
  completion), `SnoopExchange` (a snoop of the device, likewise; it is answered only when no
  request of the host's can be served before the answer), `Programs` (each
  suspended access has exactly one request, and a line is exclusive only where its
  programs read it) and `NoSecondSnoop` (a line the host gave up and has yet to write
  back has left the snoop filter, so that no snoop finds it missing).
* `HostFilterInclusive`, `OneOwner`: if also `DeviceReadsOwn`, then always
  `SnoopFilterInclusive`, `OwnerAlone`. Neither is inductive, since a filter entry is
  made when the device grants a line and the copy only when the host has the grant,
  and is dropped when the device begins its snoop. `Coherent` therefore speaks of what is
  held or granted: it is in the filter or being recalled (`Covered`), what the host
  writes back or has answered a snoop for is gone (`Gone`), and what both sides have,
  or one has and the other is granted, is shared (`Apart`). `Using` confines the filter to
  the lines of the host's programs.
* `OneMemory`: if also `HostHolds`, `Spec => CoherentMemory`'s specification, under the
  refinement mapping that `CxlMem` declares. `Fresh` says where the last value stored
  is: in every copy (`Current`), in the packets that carry data (`Carrying`), in the
  memory, unless somebody has the line, is granted it or is writing it back (`Stored`),
  and in a write-back of the device that has not reached the memory, unless the host has
  taken the line meanwhile (`Flushing`); a line that is fetched is not there
  (`Filling`), and the host writes back only what a snoop found (`HostKeeps`). With it each
  action is one step of the abstract memory or none: a load or store that ends is
  `Obtain` or `Write`, a snoop or a flush that takes a copy is `Forget`, everything else
  stutters.

The run `mem_protocol` has a program within `DeviceReadsOwn`; `mem_readers`, where both
sides read one line, is outside `LoadsApart`, and a line of `mem_data` that the host writes
and the device reads is outside `DeviceReadsOwn`. TLC checks the same properties
there, and that they hold of those programs is only model-checked.

**`CoherentMemoryProofs`** proves `CopiesFresh`: in the abstract memory every copy
is the last value stored, so the refinement says what it is meant to say. The
assumption is `InitVal \in Values`.

**`HdmDecoderProofs`** (every granularity, every number of ways that is a power of
two, every range; `RangeUnitAssumption`)

* `OneHpaPerByte`: two host addresses a switch's decoder sends to one target and the
  device's decoder turns into one device address are the same. The two decoders
  cut different numbers, the address and its offset; the proof shows that they
  agree because a range starts at a multiple of a whole turn over the ways, and
  rebuilds the address from target, granule and remainder.
* `DpaInDevice`: a device address lies below the device's share of the range, its
  size divided by the ways.
* `ConfigureCommits`: after the driver's sequence of masked writes, whatever was in
  the registers of an uncommitted decoder, it is committed and has the range, the
  granularity and the ways the driver meant.

**`SwitchConnectionProofs`** (any number of clients, connections, packets and tags up to
the code's 256, and whatever clients open their connections with;
`ConnectionAssumption`)

* `OnePerPortAlways`: `Spec => []OnePerPort`. `connected` is tested before an await and
  set after it; the invariant (`PortInv`) adds that no handler waits between the two: the
  answer it writes there suspends only when its client has reset the connection. It also
  says that connections are numbered in the order they are made, so that a new one
  replaces none. Since the property depends on the phases of the handlers alone, each
  action is first reduced to what it does to them.
* `ConnectionTypes`: `Spec => []TypeOK`. That a processor's table holds tags of eight bits
  depends on whose packets it reads, and a client may open its connection with anything.
  `FlowInv` therefore says who sends what to whom: a connection carries one packet to the
  server until it is accepted and the device's answers from then on (`ConnRule`), to the
  client first the answer to its request and then packets of the host alone
  (`Serves`); a client without a confirmed connection has no tasks and holds nothing
  (`Idle`), and no two clients have one connection (`Alone`). What the packets of
  the host and their answers are to a processor is computed once, from their layouts
  (`RequestFacts`).
* `OneReaderAlways`: `Spec => []OneReader`. The counts of the property become cases:
  a connection that has tasks has the port (`Works`), so there is one by `PortInv`, and a
  FIFO holds one notification while its task has yet to learn that its reader has
  ended (`Ended`, `OneNote`), and none otherwise (`NoNote`). `ReaderInv` says so as
  long as no task that writes fails, with `FlowInv` and `PortInv`.
* `TagsPairedAlways`: `Spec => []TagsPaired`. A processor raises when it does not find
  what it looks up, so it has to be known where each transaction of the host is. `TagInv`
  says it is at one place: in one of the port's FIFOs and in no table (`PortTag`); in the
  table of one connection, on the way to the client or back but not both (`ConnTag`); in
  the client's table, and then not on its way (`LinkTag`), or also in one of its FIFOs as
  an answer (`QueueTag`); and at no place twice (`Once`). Requests and answers that are
  lost when a connection ends stay in the tables, which the invariant allows. A
  tag used again while its request waits (`reused`) breaks it, and the code does not
  prevent that.
* `FieldsFitAlways`: `Spec => []FieldsFit`. The property is about packets and not about
  the state; it names the arguments at their limits, and the proof goes by one lemma per
  creator that holds for every argument its fields have room for: `CfgWrites` for any
  access of 1 to 4 bytes within a double word of the configuration space, any ids and
  tags, and a value of one byte; `MemRequests` for any address and any length up to 1017
  bytes, the last that any offset leaves below 256 double words (beyond that the
  length is read wrong); `D2HReqFits` to `MemCmpFits` for the messages of CXL.cache and
  CXL.mem. They need that byte enables determine offset and size (`EnabledBits`,
  `EnabledBit`), that the two swaps of an id are each other's inverse (`Swapped`), and
  that an address is put together from its parts (`RegisterBack`, `RangeAddress`).

**`VppbBindingProofs`** (any number of vPPBs, ports, LDs, commands and requests;
`BindingAssumption`)

* `BindingTypes`: `Spec => []TypeOK`, where the number of a new connection stays
  within its bound because each bind takes one.
* `OwnLdAlways`: `Spec => []OwnLd`, for a careless fabric manager too. A request is
  marked with its destination when it is sent; the invariant (`Inv`) follows
  it: it is in the queues of a connection that was made for that destination, and
  connections are never changed to another. Types belong to the same induction,
  since a command carries between its parts what the later parts rely on.
* `TablesAgreeAlways`, `OwnAnswersAlways`, `UpRoutingNeverFails`: `Spec => []` of
  `TablesAgree`, `OwnAnswers` and `UpRoutingAlive`, which speak of a careful fabric
  manager. None of them is inductive, since each rests on the others: the answer of
  an LD finds its connection because no unbind overtakes a packet, and the tables
  agree after an unbind because it never stops half-way. The invariant is
  `~careless => Agree`, over `Inv`, and `Agree` has five parts.
  `TablesRight` says what each table has of a vPPB that is bound, that is not, and
  between any two parts of the command that makes it the one or the other
  (`Staged`), that a connection is its vPPB's alone (`Owned`), that the port has no
  other (`Held`), and what a bind has prepared so far (`Prepared`). `Marked`: an end
  marker is in a queue only for the command in hand, and one at most in the queue
  of the down routing. `Running`: the connection that an unbind ends is not frozen,
  so `PpbDevice.unbind` does not fail after the managers are gone. `PacketsRight`:
  a packet is in the queues of its vPPB's connection, the port knows that connection
  by the packet's LD, and no packet is of a vPPB being unbound. `Numbered`: a new
  connection replaces none. Initially it holds because the configured vPPBs are
  numbered in their order, one connection to each. `BindingAssumption` says of `None`
  that it is no port, number, target or packet, as in Python, and of the
  configuration that no two vPPBs are bound to one LD.

**`FabricManagementProofs`** (`PbrAssumption`, `TagBitsAssumption`, `FabricAssumption`,
`EventsAssumption`) proves of the whole composition:

* `PbrTypes`, `PidsOwned`. Only the assignment of an entry changes `pid` or `assigned`;
  the proof goes through the actions to that one and there through the entry's cases.
  The inductive invariant is `PbrTypeOK /\ PidOwner`.
* `AnswersOwned`: `Spec => []OwnAnswers`, for any width of tags up to the code's eight
  bits. What a caller takes is what it finds under its tag, long after the command, the
  switch and a device have handled it, so the invariant (`Inv`) speaks of all that
  travels: every request, command in the executor's hands, packet to or from a device,
  answer and stored response has the tag of the command it belongs to (`Tagged`), and
  that command is of the manager that runs or was under way when one died (`Sound`). Until
  a command has been sent with a tag that has come round (`CameRound`), none that
  travels has one, so that the tag tells the commands of one start apart; from then on
  `OwnAnswers` allows an earlier one of the same start and tag, and no other. A
  device may leave and come at any point: what waits for it stays with its tag, and
  `MarkedQueue` allows the end markers of its connections between the commands. The tag
  is written into four headers on its way (`Filled`) and is proved to survive each of
  them. A crash makes orphans of what is under way after it, which is why the
  invariant survives the new manager's counting from zero. `EndOK` keeps the
  reader's end marker, which is no packet, from the manager.
* `FabricTypes`: `Spec => []TypeOK`, from `Inv` and `PbrTypes`.

`history.orphans` is computed from what is under way when the manager dies. A list of
open commands, kept by command and answer, is wrong for it: when the tags of one start
come round, two commands have one number, and the first answer would take both off
the list.

Only model-checked: `CxlMem` outside the hypotheses above; everything about liveness, which TLAPS cannot do; and all of `Enumeration`, whose scan
of the bus is a recursive operator, which the prover does not take.

## 7. Not modelled

Beyond the parts `PROJECT.json` lists as `not_modelled`:

* uncached and HDM-H accesses (requests without metadata) to a device that also has
  cached traffic, of which `cxl_mem_dcoh.py:143` and `:235` reset the state of the
  device's own request; `stop` of the loops; opcodes the handlers accept but no
  component sends (`SNP_CUR`, `CACHE_CLEAN_EVICT`, `CACHE_RD_OWN`, `I_TO_M_WR`);
  concurrent callers of the memory hub;
* of the switch: the data plane of the PBR switch (`pbr_switch_router.py`), the cache
  route table, the router's way to host memory from a device, short reads of a
  stream;
* of the host: DOE, interrupts, several applications on one bridge at a time
  (`root_complex/io_bridge.py:133` reads any completion; the model has one handler at
  a time), the legacy I/O space, a bus with more than one root port;
* of the host's cache: ranges of type `CXL_CACHED`, which only unit tests declare and for
  which a store to a shared line asks nobody (`component/cache_controller.py:308`);
* of the manager: the mailbox, dynamic capacity, tunnelled commands to two devices at
  once, `CONFIGURE_PID_BINDING` other than as one step, the progress of a background
  bind (its outcome is any; `VppbBinding` says which).
