-------------------------- MODULE CacheController --------------------------
(***************************************************************************)
(* The CacheController of the host and of each device: what its processor  *)
(* side does for a load or a store, and what its coherence side does for a *)
(* snoop.  Modules CxlCache and CxlMem compose it with the coherence       *)
(* agents that answer its requests.                                        *)
(*                                                                         *)
(* One set of each cache is modelled, whose blocks hold the lines Addrs:   *)
(* lines of different sets never meet in a controller.  The block replaced *)
(* is any valid block of the set, which allows more than the least         *)
(* recently used one the code picks.  The data of an invalid block are     *)
(* never read, so they are reset.                                          *)
(*                                                                         *)
(* A controller serves one load or store at a time: the host's takes them  *)
(* from a queue in one task, and a device's accelerator awaits each.       *)
(***************************************************************************)
EXTENDS Naturals, Sequences, FiniteSets

CONSTANTS
  Agents,    \* the caches
  Addrs,     \* the lines
  Values,    \* contents of a line
  InitVal,   \* what memory, blocks and data-less packets hold at first
  Ways,      \* per agent, cache_num_assoc
  Loads,     \* per agent, the lines its processor reads
  Stores     \* per agent, the lines its processor writes

VARIABLES
  cache,    \* per agent, _cache: the block of each line
  proc,     \* per agent, the suspended load or store of its processor
  request,  \* per agent, the request queue to its coherence agent
  latest    \* history: per line, the value of the last store that took effect

CacheState == {"I", "S", "E", "M"}
CacheBlock == [state : CacheState, data : Values]
Invalid    == [state |-> "I", data |-> InitVal]

RequestType  == {"WRITE_BACK", "WRITE_BACK_CLEAN", "SNP_DATA", "SNP_INV"}
CacheRequest == [type : RequestType, addr : Addrs, data : Values]

ResponseStatus == {"OK", "RSP_M", "RSP_E", "RSP_S", "RSP_I", "RSP_MISS"}

\* What a controller's processor is doing: nothing, or a load or store of
\* addr suspended in _memory_store ("flush" of the victim), _memory_load
\* ("fill") or _cache_to_coh_state_lookup ("own").
Idle == [pc |-> "idle"]
Busy == [pc : {"flush", "fill", "own"}, op : {"load", "store"},
         addr : Addrs, val : Values, victim : Addrs]

ControllersInit ==
  /\ cache = [a \in Agents |-> [x \in Addrs |-> Invalid]]
  /\ proc = [a \in Agents |-> Idle]
  /\ request = [a \in Agents |-> <<>>]
  /\ latest = [x \in Addrs |-> InitVal]

ControllersTypeOK ==
  /\ cache \in [Agents -> [Addrs -> CacheBlock]]
  /\ proc \in [Agents -> {Idle} \cup Busy]
  /\ request \in [Agents -> Seq(CacheRequest)]
  /\ latest \in [Addrs -> Values]

----------------------------------------------------------------------------
(* CacheController: processor side.                                        *)

Valid(a, x) == cache[a][x].state # "I"

\* _cache_find_invalid_block finds a block.
FreeBlock(a) == Cardinality({x \in Addrs : Valid(a, x)}) < Ways[a]

\* The processor waits for a miss or an upgrade of addr to be granted.
Asking(op, x, v) == [pc |-> IF op = "load" THEN "fill" ELSE "own", op |-> op,
                     addr |-> x, val |-> v, victim |-> x]
AskRequest(op, x) == [type |-> IF op = "load" THEN "SNP_DATA" ELSE "SNP_INV",
                      addr |-> x, data |-> InitVal]

\* _memory_load, or _cache_to_coh_state_lookup.
Ask(a, op, x, v) ==
  /\ proc' = [proc EXCEPT ![a] = Asking(op, x, v)]
  /\ request' = [request EXCEPT ![a] = Append(@, AskRequest(op, x))]

\* (Mutant: a dirty victim is flushed as a clean one.)
WriteBackTypeClean(state) == "WRITE_BACK_CLEAN"
WriteBackType(state) == IF state = "M" THEN "WRITE_BACK" ELSE "WRITE_BACK_CLEAN"

\* _memory_store of a block picked for replacement.  The block stays valid
\* until the answer comes.
Flush(a, op, x, v) ==
  \E y \in {z \in Addrs : Valid(a, z)} :
    /\ proc' = [proc EXCEPT ![a] = [pc |-> "flush", op |-> op, addr |-> x,
                                    val |-> v, victim |-> y]]
    /\ request' = [request EXCEPT ![a] =
                     Append(@, [type |-> WriteBackType(cache[a][y].state),
                                addr |-> y, data |-> cache[a][y].data])]

Miss(a, op, x, v) ==
  /\ ~Valid(a, x)
  /\ \/ FreeBlock(a) /\ Ask(a, op, x, v)
     \/ ~FreeBlock(a) /\ Flush(a, op, x, v)
  /\ UNCHANGED <<cache, latest>>

\* cache_coherent_load.  A hit changes nothing the model keeps.
Load(a, x) ==
  /\ proc[a] = Idle
  /\ x \in Loads[a]
  /\ Miss(a, "load", x, InitVal)

\* A store takes effect in the controller's own cache.
Commit(a, x, v) ==
  /\ cache' = [cache EXCEPT ![a][x] = [state |-> "M", data |-> v]]
  /\ latest' = [latest EXCEPT ![x] = v]

\* cache_coherent_store.
Store(a, x, v) ==
  /\ proc[a] = Idle
  /\ x \in Stores[a]
  /\ \/ /\ cache[a][x].state \in {"E", "M"}
        /\ Commit(a, x, v)
        /\ UNCHANGED <<proc, request>>
     \/ /\ cache[a][x].state = "S"
        /\ Ask(a, "store", x, v)
        /\ UNCHANGED <<cache, latest>>
     \/ Miss(a, "store", x, v)

\* _cache_rsp_state_lookup
FillState(status) ==
  CASE status = "RSP_S" -> "S"
    [] status = "RSP_M" -> "M"
    [] OTHER -> "E"

\* The agent's coherence agent answers its outstanding request, and its
\* suspended load or store goes on to its next await or to its end.
Respond(a, status, data) ==
  LET p == proc[a] IN
  \/ /\ p.pc = "flush"
     /\ cache' = [cache EXCEPT ![a][p.victim] = Invalid]
     /\ Ask(a, p.op, p.addr, p.val)
     /\ UNCHANGED latest
  \/ /\ p.pc = "fill"
     /\ cache' = [cache EXCEPT ![a][p.addr] = [state |-> FillState(status), data |-> data]]
     /\ proc' = [proc EXCEPT ![a] = Idle]
     /\ UNCHANGED <<request, latest>>
  \/ /\ p.pc = "own"
     /\ Commit(a, p.addr, p.val)
     /\ proc' = [proc EXCEPT ![a] = Idle]
     /\ UNCHANGED request

----------------------------------------------------------------------------
(* CacheController: coherence side (_run_coh_request).                     *)

SnoopStatus(type, state) ==
  CASE state = "I" -> "RSP_MISS"
    [] state # "I" /\ type = "SNP_INV" -> "RSP_I"
    [] state # "I" /\ type = "SNP_DATA" ->
         [S |-> "RSP_S", E |-> "RSP_E", M |-> "RSP_M"][state]

\* _coh_to_cache_state_lookup
Snoop(a, type, x) ==
  cache' = [cache EXCEPT ![a][x] =
              IF type = "SNP_INV" \/ @.state = "I" THEN Invalid
                                                   ELSE [state |-> "S", data |-> @.data]]

----------------------------------------------------------------------------
(* What properties say of a block.                                         *)
Evicting(a, x) == proc[a].pc = "flush" /\ proc[a].victim = x

\* A valid block its controller may use: one being flushed serves nothing,
\* for the processor waits.
Live(a, x) == Valid(a, x) /\ ~Evicting(a, x)

=============================================================================
