----------------------------- MODULE PbrSwitch ------------------------------
(***************************************************************************)
(* What a PBR switch knows (component/pbr_switch_manager.py): which PID    *)
(* each of its targets has, to which target each PID was assigned, its     *)
(* routing tables, and the PIDs bound to the vPPBs at the fabric's edge.   *)
(* The commands that read and change it are those of                       *)
(* cci/fabric_manager/pbr_switch.                                          *)
(*                                                                         *)
(* FabricManagement composes these operations with the executor that calls *)
(* them.                                                                   *)
(***************************************************************************)
EXTENDS Integers, Sequences

CONSTANTS
  PidMax,   \* 16^3 - 1 in the code
  Targets,  \* the entries of the PID target list, as [target_id, instance_id]
  NumDrts,
  DrtSize,  \* 4096 in the code
  Edges     \* the <<VCS, vPPB>> pairs commands may name

Pids == 0..PidMax
Unassigned == PidMax  \* PID_UNASSIGNED; it is in the range assign_pid takes

ASSUME PbrAssumption ==
  /\ PidMax \in Nat /\ NumDrts \in Nat /\ DrtSize \in Nat
  /\ Targets \subseteq [target_id : Nat, instance_id : Nat]

VARIABLES
  pid,       \* of each target, the PID it has
  assigned,  \* of each PID, no or one PidAssignment
  drt,       \* of each table, its entries
  bound      \* of each edge, no or one PID

pbrVars == <<pid, assigned, drt, bound>>

INVALID_ENTRY == 0
PHYSICAL_PORT == 1
RGT_INDEX     == 2
RESERVED      == 3

DrtEntry == [entry_type : INVALID_ENTRY..RESERVED, routing_target : 0..255]
Entry == [pid : Pids, target_id : Nat, instance_id : Nat]

PbrInit ==
  /\ pid = [t \in Targets |-> Unassigned]
  /\ assigned = [p \in Pids |-> {}]
  /\ drt = [i \in 0..NumDrts - 1 |->
              [d \in 0..DrtSize - 1 |-> [entry_type |-> INVALID_ENTRY, routing_target |-> 0]]]
  /\ bound = [e \in Edges |-> {}]

----------------------------------------------------------------------------
(* Assignment of PIDs to targets.                                          *)

\* A PID that another target has is refused; two instances of one target may
\* share it.
\* (Mutant: nor is one that another target has.)
AssignCodeAny(e) ==
  IF \E t \in Targets : t.target_id = e.target_id THEN "SUCCESS" ELSE "INVALID_INPUT"
AssignCode(e) ==
  IF /\ \E t \in Targets : t.target_id = e.target_id
     /\ \A a \in assigned[e.pid] : a.target_id = e.target_id
  THEN "SUCCESS" ELSE "INVALID_INPUT"

\* The assignment of the PID the target had before stays.
AssignPid(e) ==
  /\ assigned' = [assigned EXCEPT ![e.pid] =
                    {[target_id |-> e.target_id, instance_id |-> e.instance_id]}]
  /\ pid' = [t \in Targets |->
               IF t.target_id = e.target_id /\ t.instance_id = e.instance_id
               THEN e.pid ELSE pid[t]]
  /\ UNCHANGED <<drt, bound>>

\* clear_pid does not look at the target the command names.
ClearCode(e) == IF assigned[e.pid] = {} THEN "INVALID_INPUT" ELSE "SUCCESS"

ClearPid(e) ==
  /\ assigned' = [assigned EXCEPT ![e.pid] = {}]
  /\ pid' = [t \in Targets |-> IF pid[t] = e.pid THEN Unassigned ELSE pid[t]]
  /\ UNCHANGED <<drt, bound>>

ASSIGN == 0
CLEAR  == 1

\* What one entry of Configure PID Assignment does, and the code it yields.
ConfigureCode(operation, e) ==
  CASE operation = ASSIGN -> AssignCode(e)
    [] operation = CLEAR  -> ClearCode(e)
    [] OTHER              -> "INVALID_INPUT"

ConfigureEntry(operation, e) ==
  LET done == ConfigureCode(operation, e) = "SUCCESS" IN
  \/ done /\ operation = ASSIGN /\ AssignPid(e)
  \/ done /\ operation = CLEAR /\ ClearPid(e)
  \/ ~done /\ UNCHANGED pbrVars

----------------------------------------------------------------------------
(* Routing tables.                                                         *)

InTable(index, start, n) == index \in 0..NumDrts - 1 /\ start + n <= DrtSize

GetDrtCode(r) == IF InTable(r.index, r.start, r.n) THEN "SUCCESS" ELSE "INVALID_INPUT"
GetDrt(r) == [i \in 1..r.n |-> drt[r.index][r.start + i - 1]]

\* All entries are looked at before the first is written.
SetDrtCode(r) ==
  IF /\ InTable(r.index, r.start, Len(r.entries))
     /\ \A i \in 1..Len(r.entries) : r.entries[i].entry_type # RESERVED
  THEN "SUCCESS" ELSE "INVALID_INPUT"

SetDrt(r) ==
  /\ drt' = IF SetDrtCode(r) # "SUCCESS" THEN drt
            ELSE [drt EXCEPT ![r.index] =
                    [d \in 0..DrtSize - 1 |->
                       IF d \in r.start..(r.start + Len(r.entries) - 1)
                       THEN r.entries[d - r.start + 1] ELSE drt[r.index][d]]]
  /\ UNCHANGED <<pid, assigned, bound>>

----------------------------------------------------------------------------
(* PIDs bound to vPPBs.                                                    *)

BIND   == 0
UNBIND == 1

GetPidBinding(edge) == IF bound[edge] = {} THEN Unassigned ELSE CHOOSE p \in bound[edge] : TRUE

\* Neither the PID nor the edge is checked; unbinding what is not bound is
\* refused, and any other operation raises.
ConfigurePidBinding(r) ==
  /\ bound' = CASE r.operation = BIND   -> [bound EXCEPT ![r.edge] = {r.pid}]
                [] r.operation = UNBIND -> [bound EXCEPT ![r.edge] = {}]
                [] OTHER                -> bound
  /\ UNCHANGED <<pid, assigned, drt>>

----------------------------------------------------------------------------
(* Properties.                                                             *)

PbrTypeOK ==
  /\ pid \in [Targets -> Pids]
  /\ assigned \in [Pids -> SUBSET [target_id : Nat, instance_id : Nat]]

\* A target believes it has a PID only if the switch's record says the PID was
\* assigned to that target: neither a second assignment of the PID, nor a
\* command that failed at a later entry, leaves a target with a PID that is
\* free or another target's (PbrSwitchManager.assign_pid, clear_pid).
PidOwner ==
  \A t \in Targets :
    pid[t] # Unassigned => \E a \in assigned[pid[t]] : a.target_id = t.target_id
=============================================================================
