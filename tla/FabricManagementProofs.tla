----------------------- MODULE FabricManagementProofs -----------------------
(***************************************************************************)
(* Proofs about FabricManagement: for any targets, PIDs, commands and      *)
(* events, no interleaving of them leaves a target with a PID that the     *)
(* switch has given to another, nor gives a caller of the manager's client *)
(* the answer to another command than its own, unless that one was under   *)
(* way when the manager died, or had the same tag before the tags came     *)
(* round.                                                                  *)
(*                                                                         *)
(* PidOwner is inductive with the types of what it speaks of: an entry of  *)
(* Configure PID Assignment is the only step that changes a PID, and all   *)
(* others keep `pid` and `assigned`.                                       *)
(*                                                                         *)
(* OwnAnswers rests on what travels.  Every request, every message the     *)
(* executor works on, every packet to or from a device, every answer and   *)
(* every response in the manager's table has the tag of the command it     *)
(* belongs to, and that command is one of the manager that runs or one     *)
(* that a crash left under way.  Until the tags come round, a command's    *)
(* tag tells it from all others of the same start, so what a caller finds  *)
(* under its tag is its own or an orphan's; and before a command has been  *)
(* sent with a tag that has come round, nothing that travels belongs to    *)
(* one.  The invariant also says where the end marker may be: never among  *)
(* the answers that the manager can read.                                  *)
(***************************************************************************)
EXTENDS FabricManagement, TLAPS

\* What the owner of a PID depends on
ownVars == <<pid, assigned>>

LEMMA InitOwner ==
  ASSUME PbrInit
  PROVE PbrTypeOK /\ PidOwner
BY PbrAssumption DEF PbrInit, PbrTypeOK, PidOwner, Pids, Unassigned

LEMMA KeptOwner ==
  ASSUME PbrTypeOK, PidOwner, UNCHANGED ownVars
  PROVE PbrTypeOK' /\ PidOwner'
BY DEF PbrTypeOK, PidOwner, ownVars

----------------------------------------------------------------------------
(* The operations of the switch manager.                                   *)

\* An assignment the switch accepts takes the PID from no other target id.
LEMMA AssignKeeps ==
  ASSUME PbrTypeOK, PidOwner, NEW e \in Entry, AssignCode(e) = "SUCCESS", AssignPid(e)
  PROVE PbrTypeOK' /\ PidOwner'
<1> DEFINE record == [target_id |-> e.target_id, instance_id |-> e.instance_id]
<1>1. /\ e.pid \in Pids /\ record \in [target_id : Nat, instance_id : Nat]
      /\ record.target_id = e.target_id
  BY DEF Entry
<1>2. \A a \in assigned[e.pid] : a.target_id = e.target_id
  BY DEF AssignCode
<1>3. assigned' = [assigned EXCEPT ![e.pid] = {record}]
  BY DEF AssignPid
<1>4. \A t \in Targets : pid'[t] = IF t.target_id = e.target_id /\ t.instance_id = e.instance_id
                                   THEN e.pid ELSE pid[t]
  BY DEF AssignPid
<1>5. pid' \in [Targets -> Pids]
  BY <1>1 DEF AssignPid, PbrTypeOK
<1> HIDE DEF record
<1>6. PbrTypeOK'
  BY <1>1, <1>3, <1>5 DEF PbrTypeOK
<1>7. ASSUME NEW t \in Targets, pid'[t] # Unassigned
      PROVE \E a \in assigned'[pid'[t]] : a.target_id = t.target_id
  <2>1. CASE t.target_id = e.target_id /\ pid'[t] = e.pid
    BY <1>1, <1>3, <2>1 DEF PbrTypeOK
  <2>2. CASE ~(t.target_id = e.target_id /\ pid'[t] = e.pid)
    <3>1. pid'[t] = pid[t] /\ pid[t] \in Pids
      BY <1>4, <2>2 DEF PbrTypeOK
    <3>2. PICK a \in assigned[pid[t]] : a.target_id = t.target_id
      BY <1>7, <3>1 DEF PidOwner
    <3>3. pid[t] # e.pid
      BY <1>2, <2>2, <3>1, <3>2
    <3> QED
      BY <1>3, <3>1, <3>2, <3>3 DEF PbrTypeOK
  <2> QED
    BY <2>1, <2>2
<1> QED
  BY <1>6, <1>7 DEF PidOwner

\* Clearing a PID takes it from every target that has it.
LEMMA ClearKeeps ==
  ASSUME PbrTypeOK, PidOwner, NEW e \in Entry, ClearPid(e)
  PROVE PbrTypeOK' /\ PidOwner'
<1>1. e.pid \in Pids /\ Unassigned \in Pids
  BY PbrAssumption DEF Entry, Unassigned, Pids
<1>2. PbrTypeOK'
  BY <1>1 DEF ClearPid, PbrTypeOK
<1>3. ASSUME NEW t \in Targets, pid'[t] # Unassigned
      PROVE \E a \in assigned'[pid'[t]] : a.target_id = t.target_id
  <2>1. pid'[t] = pid[t] /\ pid[t] # e.pid /\ pid[t] \in Pids
    BY <1>3 DEF ClearPid, PbrTypeOK
  <2>2. assigned'[pid[t]] = assigned[pid[t]]
    BY <2>1 DEF ClearPid, PbrTypeOK
  <2> QED
    BY <1>3, <2>1, <2>2 DEF PidOwner
<1> QED
  BY <1>2, <1>3 DEF PidOwner

LEMMA EntryKeeps ==
  ASSUME PbrTypeOK, PidOwner, NEW e \in Entry, NEW operation, ConfigureEntry(operation, e)
  PROVE PbrTypeOK' /\ PidOwner'
<1>1. CASE ConfigureCode(operation, e) = "SUCCESS" /\ operation = ASSIGN /\ AssignPid(e)
  <2>1. AssignCode(e) = "SUCCESS"
    BY <1>1 DEF ConfigureCode, ASSIGN, CLEAR
  <2> QED
    BY <1>1, <2>1, AssignKeeps
<1>2. CASE ClearPid(e)
  BY <1>2, ClearKeeps
<1>3. CASE UNCHANGED pbrVars
  BY <1>3, KeptOwner DEF pbrVars, ownVars
<1> QED
  BY <1>1, <1>2, <1>3 DEF ConfigureEntry

----------------------------------------------------------------------------
(* The steps of the specification.                                         *)

\* All steps but AssignEntry
Others ==
  \/ \E e \in Events : HandleEvent(e)
  \/ Manager \/ Background \/ Link \/ Crash
  \/ PassDown \/ SubmitBackground \/ ExecuteForeground \/ BeginAssignment \/ EndAssignment
  \/ \E p \in Ports : PortTasks(p) \/ DeviceComes(p) \/ DeviceLeaves(p)

LEMMA OthersKeep ==
  ASSUME Others
  PROVE UNCHANGED ownVars
<1> USE DEF pbrVars, ownVars
<1>1. CASE \E e \in Events : HandleEvent(e)
  BY <1>1 DEF HandleEvent
<1>2. CASE Manager
  BY <1>2 DEF Manager, SendCommand, Deliver, TakeAnswer
<1>3. CASE Background
  BY <1>3 DEF Background, BackgroundBegins, BackgroundEnds, ConfigurePidBinding
<1>4. CASE Link
  BY <1>4 DEF Link, ReaderEnds, WriteToDead, WriterEnds, Connect
<1>5. CASE Crash
  BY <1>5 DEF Crash
<1>6. CASE PassDown \/ SubmitBackground \/ BeginAssignment \/ EndAssignment
  BY <1>6 DEF PassDown, SubmitBackground, BeginAssignment, EndAssignment
<1>7. CASE ExecuteForeground
  BY <1>7 DEF ExecuteForeground, SetDrt
<1>8. CASE \E p \in Ports : PortTasks(p) \/ DeviceComes(p) \/ DeviceLeaves(p)
  BY <1>8 DEF PortTasks, DeviceAnswers, PassUp, PortReaderEnds, WriteToGone, LineEnds,
     DeviceComes, DeviceLeaves
<1> QED
  BY <1>1, <1>2, <1>3, <1>4, <1>5, <1>6, <1>7, <1>8 DEF Others

LEMMA NextKeeps ==
  ASSUME PbrTypeOK, PidOwner, [Next]_vars
  PROVE PbrTypeOK' /\ PidOwner'
<1>1. CASE Others
  BY <1>1, OthersKeep, KeptOwner
<1>2. CASE AssignEntry
  <2>1. PICK e \in Entries : ConfigureEntry(exec.now.payload.data.operation, e)
    BY <1>2 DEF AssignEntry
  <2>2. e \in Entry
    BY FabricAssumption
  <2> QED
    BY <2>1, <2>2, EntryKeeps
<1>3. CASE UNCHANGED vars
  BY <1>3, KeptOwner DEF vars, pbrVars, ownVars
<1> QED
  BY <1>1, <1>2, <1>3 DEF Next, Tasks, Executor, Others

----------------------------------------------------------------------------
(* PIDs have one owner.                                                    *)

\* PIDs, and the records of their assignment, are always of their types.
THEOREM PbrTypes == Spec => []PbrTypeOK
<1>1. Init => PbrTypeOK /\ PidOwner
  BY InitOwner DEF Init
<1>2. PbrTypeOK /\ PidOwner /\ [Next]_vars => (PbrTypeOK /\ PidOwner)'
  BY NextKeeps
<1> QED
  BY <1>1, <1>2, PTL DEF Spec

\* Whatever commands come, whichever of them fail half way, and however often
\* managers die: a target has only PIDs that the switch's record gives to it
\* (PbrSwitchManager.assign_pid, clear_pid).
THEOREM PidsOwned == Spec => []PidOwner
<1>1. Init => PbrTypeOK /\ PidOwner
  BY InitOwner DEF Init
<1>2. PbrTypeOK /\ PidOwner /\ [Next]_vars => (PbrTypeOK /\ PidOwner)'
  BY NextKeeps
<1> QED
  BY <1>1, <1>2, PTL DEF Spec

----------------------------------------------------------------------------
(* What travels between manager, switch and devices.                       *)

Members(q) == {q[i] : i \in DOMAIN q}
IsQueue(q) == q \in Seq(Members(q))

\* The tags had come round when the manager sent its last command.
CameRound == fm.lap = 1 /\ fm.asked \in Ids /\ fm.asked[2] = 1

\* A command of the manager that runs, or one that a crash left under way
Sound(of) ==
  /\ of \in Ids
  /\ of \in history.orphans \/ (of[1] = fm.boot /\ (of[2] = 0 \/ CameRound))

\* Every message has the tag of the command that it is or answers.
Tagged(head, of) == "message_tag" \in DOMAIN head /\ head.message_tag = of[3]
Paired(m)  == Sound(m.payload.of) /\ Tagged(m.head, m.payload.of)
Carried(q) == Sound(q.data.of) /\ Tagged(LdHead(q), q.data.of)

RequestOK(x) == Paired(x.data) /\ x.heads[1].port_index \in Ports
AnswerOK(x)  == x.type = "END" \/ IsNotification(x.data) \/ Paired(x.data)

RequestsOK == IsQueue(requests) /\ \A x \in Members(requests) : RequestOK(x)
AnswersOK  == IsQueue(answers) /\ \A x \in Members(answers) : AnswerOK(x)

\* The end marker is there, once, while the switch's client ends.
EndOK ==
  /\ link \in {"closed", "up", "gone", "ending", "over"}
  /\ link \in {"closed", "up", "gone"} => \A i \in DOMAIN answers : answers[i].type # "END"
  /\ link = "ending" =>
       \A i, j \in DOMAIN answers : answers[i].type = "END" /\ answers[j].type = "END" => i = j

\* At a port's queue of commands, markers of connections that are over
CarriedQueue(q) == IsQueue(q) /\ \A x \in Members(q) : Carried(x)
MarkedQueue(q)  == IsQueue(q) /\ \A x \in Members(q) : x = End \/ Carried(x)
IsPlace(r) ==
  r = [line |-> r.line, task |-> r.task, down |-> r.down, up |-> r.up,
       device |-> r.device, loop |-> r.loop]
Lines == {"closed", "open", "gone", "ending"}
Device(r) ==
  /\ IsPlace(r)
  /\ r.line \in Lines /\ r.task \in BOOLEAN
  /\ r.line = "closed" => ~r.task
  /\ MarkedQueue(r.down) /\ CarriedQueue(r.up)
  /\ r.device \in BOOLEAN /\ r.loop \in BOOLEAN
DevicesOK == DOMAIN lds = Ports /\ lds = [p \in Ports |-> lds[p]] /\ \A p \in Ports : Device(lds[p])

ExecOK ==
  /\ exec = [alive |-> exec.alive, now |-> exec.now, entries |-> exec.entries,
             code |-> exec.code, tagged |-> exec.tagged]
  /\ exec.alive \in BOOLEAN /\ exec.tagged \in [Tags -> Ports \cup {None}]
  /\ exec.now # None => Paired(exec.now)

SlotOK ==
  /\ slot = [command |-> slot.command, progress |-> slot.progress]
  /\ slot.progress \in {0, 50, 100} /\ (slot.command # None => slot.progress # 100)

\* The manager's own state.  It asks under its own number.
Names == DOMAIN Opcode
CommandSet == [op : Names, port : Ports, data : {e.data : e \in Events} \cup {<<>>}]
FmOK ==
  /\ fm = [boot |-> fm.boot, tag |-> fm.tag, lap |-> fm.lap, todo |-> fm.todo, at |-> fm.at,
           asked |-> fm.asked, took |-> fm.took, identity |-> fm.identity, sized |-> fm.sized]
  /\ fm.tag \in Tags /\ fm.lap \in {0, 1}
  /\ fm.todo \in Seq(CommandSet)
  /\ fm.at \in {"idle", "send", "wait", "stale"}
  /\ fm.at = "idle" <=> fm.todo = <<>>
  /\ fm.asked \in Ids \cup {None} /\ fm.took \in Ids \cup {None}
  /\ fm.at \in {"wait", "stale"} => fm.asked \in Ids /\ fm.asked[1] = fm.boot
  /\ fm.identity \in BOOLEAN /\ fm.sized \in BOOLEAN

HistoryOK ==
  /\ history = [events |-> history.events, crashes |-> history.crashes,
                leaves |-> history.leaves, orphans |-> history.orphans, lost |-> history.lost]
  /\ history.crashes \in Nat /\ history.leaves \in Nat
  /\ history.crashes + history.leaves <= MaxTurns
  /\ history.orphans \subseteq Ids /\ history.lost \subseteq Ids
  /\ fm.boot = history.crashes

ResponsesOK ==
  /\ responses = [t \in Tags |-> responses[t]]
  /\ \A t \in Tags : responses[t] # None => Paired(responses[t]) /\ Tag(responses[t]) = t

Inv ==
  /\ RequestsOK /\ AnswersOK /\ EndOK /\ DevicesOK /\ ExecOK /\ SlotOK
  /\ FmOK /\ HistoryOK /\ ResponsesOK /\ OwnAnswers

----------------------------------------------------------------------------
(* Queues.                                                                 *)

LEMMA EmptyQueue == IsQueue(<<>>) /\ Members(<<>>) = {}
BY DEF IsQueue, Members

LEMMA SequenceIsQueue ==
  ASSUME NEW S, NEW r \in Seq(S)
  PROVE IsQueue(r) /\ Members(r) \subseteq S
<1>1. DOMAIN r = 1..Len(r) /\ Len(r) \in Nat /\ \A i \in 1..Len(r) : r[i] \in S
  OBVIOUS
<1>2. r \in Seq({r[i] : i \in DOMAIN r})
  BY <1>1
<1> QED
  BY <1>1, <1>2 DEF IsQueue, Members

LEMMA QueueAppend ==
  ASSUME NEW q, IsQueue(q), NEW x
  PROVE /\ IsQueue(Append(q, x))
        /\ \A y \in Members(Append(q, x)) : y \in Members(q) \/ y = x
<1> DEFINE S == Members(q) \cup {x}
<1>1. q \in Seq(S) /\ x \in S
  BY DEF IsQueue
<1>2. Append(q, x) \in Seq(S) /\ DOMAIN Append(q, x) = 1..Len(q) + 1
      /\ \A i \in 1..Len(q) : Append(q, x)[i] = q[i]
      /\ Append(q, x)[Len(q) + 1] = x
  BY <1>1
<1>3. IsQueue(Append(q, x))
  BY <1>2, SequenceIsQueue
<1>4. ASSUME NEW y \in Members(Append(q, x))
      PROVE y \in Members(q) \/ y = x
  BY <1>1, <1>2, <1>4 DEF Members
<1> QED
  BY <1>3, <1>4

LEMMA QueueTail ==
  ASSUME NEW q, IsQueue(q), q # <<>>
  PROVE /\ IsQueue(Tail(q)) /\ Head(q) \in Members(q)
        /\ \A y \in Members(Tail(q)) : y \in Members(q)
<1> DEFINE S == Members(q)
<1>1. q \in Seq(S)
  BY DEF IsQueue
<1>2. Tail(q) \in Seq(S) /\ DOMAIN Tail(q) = 1..Len(q) - 1 /\ Len(q) \in Nat
      /\ \A i \in 1..Len(q) - 1 : Tail(q)[i] = q[i + 1]
  BY <1>1
<1>3. IsQueue(Tail(q))
  BY <1>2, SequenceIsQueue
<1>4. ASSUME NEW y \in Members(Tail(q))
      PROVE y \in Members(q)
  BY <1>1, <1>2, <1>4 DEF Members
<1>5. Head(q) = q[1] /\ 1 \in DOMAIN q
  BY <1>1
<1> QED
  BY <1>3, <1>4, <1>5 DEF Members

LEMMA QueuePart ==
  ASSUME NEW q, IsQueue(q), NEW m \in Nat, NEW n \in Nat, n <= Len(q)
  PROVE /\ IsQueue(SubSeq(q, m + 1, n))
        /\ \A y \in Members(SubSeq(q, m + 1, n)) : y \in Members(q)
<1> DEFINE S == Members(q)
           r == SubSeq(q, m + 1, n)
<1>1. q \in Seq(S) /\ Len(q) \in Nat
  BY DEF IsQueue
<1>2. r \in Seq(S) /\ \A i \in DOMAIN r : r[i] = q[m + i] /\ m + i \in DOMAIN q
  BY <1>1
<1>3. IsQueue(r)
  BY <1>2, SequenceIsQueue
<1>4. ASSUME NEW y \in Members(r)
      PROVE y \in Members(q)
  BY <1>2, <1>4 DEF Members
<1> QED
  BY <1>3, <1>4

\* What is taken from the queue of answers and put into it, and the marker
LEMMA EndAppend ==
  ASSUME NEW q, IsQueue(q), NEW x
  PROVE /\ x.type # "END" /\ (\A i \in DOMAIN q : q[i].type # "END")
             => \A i \in DOMAIN Append(q, x) : Append(q, x)[i].type # "END"
        /\ \/ x.type # "END" /\ \A i, j \in DOMAIN q : q[i].type = "END" /\ q[j].type = "END" => i = j
           \/ \A i \in DOMAIN q : q[i].type # "END"
           => \A i, j \in DOMAIN Append(q, x) :
                Append(q, x)[i].type = "END" /\ Append(q, x)[j].type = "END" => i = j
<1> DEFINE r == Append(q, x)
<1>1. q \in Seq(Members(q))
  BY DEF IsQueue
<1>2. DOMAIN r = 1..Len(q) + 1 /\ DOMAIN q = 1..Len(q) /\ Len(q) \in Nat
      /\ (\A i \in 1..Len(q) : r[i] = q[i]) /\ r[Len(q) + 1] = x
  BY <1>1
<1> HIDE DEF r
<1> QED
  BY <1>2 DEF r

LEMMA EndTail ==
  ASSUME NEW q, IsQueue(q), q # <<>>
  PROVE /\ (\A i \in DOMAIN q : q[i].type # "END")
             => \A i \in DOMAIN Tail(q) : Tail(q)[i].type # "END"
        /\ (\A i, j \in DOMAIN q : q[i].type = "END" /\ q[j].type = "END" => i = j)
             => /\ \A i, j \in DOMAIN Tail(q) :
                     Tail(q)[i].type = "END" /\ Tail(q)[j].type = "END" => i = j
                /\ Head(q).type = "END" => \A i \in DOMAIN Tail(q) : Tail(q)[i].type # "END"
<1> DEFINE r == Tail(q)
<1>1. q \in Seq(Members(q))
  BY DEF IsQueue
<1>2. /\ DOMAIN r = 1..Len(q) - 1 /\ DOMAIN q = 1..Len(q) /\ Len(q) \in Nat \ {0}
      /\ \A i \in 1..Len(q) - 1 : r[i] = q[i + 1]
      /\ Head(q) = q[1]
  BY <1>1
<1>3. \A i \in DOMAIN r : i + 1 \in DOMAIN q /\ i + 1 # 1 /\ r[i] = q[i + 1]
  BY <1>2
<1>4. 1 \in DOMAIN q
  BY <1>2
<1>5. \A i, j \in DOMAIN r : i + 1 = j + 1 => i = j
  BY <1>2
<1> HIDE DEF r
<1> QED
  BY <1>2, <1>3, <1>4, <1>5 DEF r

----------------------------------------------------------------------------
(* Tags and numbers of ports survive their fields.                         *)

LEMMA TagPower == 2^TagBits \in Nat /\ 2^TagBits > 0
<1>0. TagBits \in 1..8
  BY TagBitsAssumption
<1>1. PICK n \in 1..8 : n = TagBits
  BY <1>0
<1>2. n = 1 \/ n = 2 \/ n = 3 \/ n = 4 \/ n = 5 \/ n = 6 \/ n = 7 \/ n = 8
  BY <1>1
<1>3. n = 1 => 2^n = 2
  OBVIOUS
<1>4. n = 2 => 2^n = 4
  OBVIOUS
<1>5. n = 3 => 2^n = 8
  OBVIOUS
<1>6. n = 4 => 2^n = 16
  OBVIOUS
<1>7. n = 5 => 2^n = 32
  OBVIOUS
<1>8. n = 6 => 2^n = 64
  OBVIOUS
<1>9. n = 7 => 2^n = 128
  OBVIOUS
<1>10. n = 8 => 2^n = 256
  OBVIOUS
<1>11. PICK x : x = 2^n
  OBVIOUS
<1>12. x \in Nat /\ x > 0
  BY <1>2, <1>3, <1>4, <1>5, <1>6, <1>7, <1>8, <1>9, <1>10, <1>11
<1> QED
  BY <1>1, <1>11, <1>12

LEMMA TagKept ==
  ASSUME NEW t \in Nat
  PROVE Kept(t, TagBits) \in Tags /\ (t \in Tags => Kept(t, TagBits) = t)
<1>1. PICK x : x = 2^TagBits
  OBVIOUS
<1>2. x \in Nat /\ x > 0
  BY <1>1, TagPower
<1>3. t % x \in 0..x - 1 /\ (t < x => t % x = t)
  BY <1>2
<1>4. Kept(t, TagBits) = t % x
  BY <1>1, TagBitsAssumption DEF Kept
<1> QED
  BY <1>1, <1>2, <1>3, <1>4 DEF Tags

LEMMA TagsAreNumbers == Tags \subseteq Nat /\ 0 \in Tags
<1>1. PICK x : x = 2^TagBits
  OBVIOUS
<1> QED
  BY <1>1, TagPower DEF Tags

LEMMA FilledHead ==
  ASSUME NEW values, "message_tag" \in DOMAIN values, values.message_tag \in Tags
  PROVE LET head == Filled(CciMessageHeader, values) IN
        "message_tag" \in DOMAIN head /\ head.message_tag = values.message_tag
<1>1. CciMessageHeader.message_tag = TagBits /\ "message_tag" \in DOMAIN CciMessageHeader
  BY DEF CciMessageHeader
<1>2. Kept(values.message_tag, TagBits) = values.message_tag
  BY TagKept, TagsAreNumbers
<1> QED
  BY <1>1, <1>2 DEF Filled

LEMMA LengthSet ==
  ASSUME NEW head, NEW n
  PROVE LET set == SetPayloadLength(head, n) IN
        /\ DOMAIN set = DOMAIN head
        /\ set.message_tag = head.message_tag /\ set.message_category = head.message_category
BY DEF SetPayloadLength

LEMMA Wrapped ==
  ASSUME NEW message, NEW port \in Ports
  PROVE LET x == CciPayload(message, port) IN
        x.data = message /\ x.type = "CCI_MCTP" /\ x.heads[1].port_index = port
<1>1. port \in 0..255
  BY FabricAssumption
<1>2. Kept(port, 8) = port
  BY <1>1 DEF Kept
<1>3. Filled(CciHeader, [port_index |-> port]).port_index = port
  BY <1>2 DEF Filled, CciHeader
<1> QED
  BY <1>3 DEF CciPayload, Made

LEMMA CommandTag ==
  ASSUME NEW op, NEW t \in Tags, NEW port \in Ports, NEW payload, NEW n
  PROVE LET x == Command(op, t, port, payload, n) IN
        /\ x.type = "CCI_MCTP" /\ x.heads[1].port_index = port
        /\ x.data.payload = payload
        /\ "message_tag" \in DOMAIN x.data.head /\ x.data.head.message_tag = t
<1> DEFINE values == [message_category |-> REQUEST, message_tag |-> t, command_opcode |-> Opcode[op]]
           head == Filled(CciMessageHeader, values)
           message == CciMessage(values, payload, n)
<1>1. "message_tag" \in DOMAIN head /\ head.message_tag = t
  BY FilledHead
<1>2. /\ message.payload = payload
      /\ "message_tag" \in DOMAIN message.head /\ message.head.message_tag = t
  <2> HIDE DEF values
  <2>1. message.payload = payload /\ message.head = SetPayloadLength(head, n)
    BY DEF CciMessage
  <2> HIDE DEF head, message
  <2> QED
    BY <1>1, <2>1, LengthSet
<1>3. Command(op, t, port, payload, n) = CciPayload(message, port)
  BY DEF Command
<1> HIDE DEF message
<1> QED
  BY <1>2, <1>3, Wrapped

LEMMA AnswerTag ==
  ASSUME NEW t \in Tags, NEW rc, NEW background, NEW payload, NEW n
  PROVE LET x == Answer(t, rc, background, payload, n) IN
        /\ x.type = "CCI_MCTP" /\ x.data.payload = payload
        /\ "message_tag" \in DOMAIN x.data.head /\ x.data.head.message_tag = t
<1> DEFINE values == [message_category |-> RESPONSE, message_tag |-> t,
                      background_operation |-> IF background THEN 1 ELSE 0,
                      return_code |-> CCI_RETURN_CODE[rc]]
           head == Filled(CciMessageHeader, values)
           message == CciMessage(values, payload, n)
<1>1. "message_tag" \in DOMAIN head /\ head.message_tag = t
  BY FilledHead
<1>2. /\ message.payload = payload
      /\ "message_tag" \in DOMAIN message.head /\ message.head.message_tag = t
  <2> HIDE DEF values
  <2>1. message.payload = payload /\ message.head = SetPayloadLength(head, n)
    BY DEF CciMessage
  <2> HIDE DEF head, message
  <2> QED
    BY <1>1, <2>1, LengthSet
<1>3. Answer(t, rc, background, payload, n) = CciPayload(message, 0)
  BY DEF Answer
<1> HIDE DEF message
<1> QED
  BY <1>2, <1>3, Wrapped, FabricAssumption

LEMMA NotificationIs ==
  ASSUME NEW op, NEW layout
  PROVE LET x == Notification(op, layout) IN x.type = "CCI_MCTP" /\ IsNotification(x.data)
<1> DEFINE values == [message_category |-> REQUEST, command_opcode |-> Opcode[op]]
           head == Filled(CciMessageHeader, values)
           message == CciMessage(values, <<>>, Bytes(layout))
<1>1. head.message_category = REQUEST
  <2>1. Kept(REQUEST, 4) = REQUEST
    BY DEF Kept, REQUEST
  <2>2. CciMessageHeader.message_category = 4 /\ "message_category" \in DOMAIN CciMessageHeader
    BY DEF CciMessageHeader
  <2> QED
    BY <2>1, <2>2 DEF Filled
<1>2. IsNotification(message)
  <2> HIDE DEF values
  <2>1. message.head = SetPayloadLength(head, Bytes(layout))
    BY DEF CciMessage
  <2> HIDE DEF head, message
  <2> QED
    BY <1>1, <2>1, LengthSet DEF IsNotification
<1>3. Notification(op, layout) = CciPayload(message, 0)
  BY DEF Notification
<1> HIDE DEF message
<1> QED
  BY <1>2, <1>3, Wrapped, FabricAssumption

\* A packet for a device has a header of a message.
LEMMA LdPacketHead ==
  ASSUME NEW class, NEW head, NEW layout, NEW values, NEW data, NEW n,
         "message_tag" \in DOMAIN head, head.message_tag \in Tags
  PROVE LET q == LdPacket(class, head, layout, values, data, n) IN
        /\ q.data = data
        /\ "message_tag" \in DOMAIN LdHead(q) /\ LdHead(q).message_tag = head.message_tag
<1> DEFINE q == LdPacket(class, head, layout, values, data, n)
<1>1. q.data = data /\ LdHead(q) = Filled(CciMessageHeader, head)
  BY DEF LdPacket, Made, LdHead
<1> HIDE DEF q
<1> QED
  BY <1>1, FilledHead DEF q

----------------------------------------------------------------------------
(* What the invariant keeps of what a step does not touch.                 *)

AnswerQueue(q) == IsQueue(q) /\ \A x \in Members(q) : AnswerOK(x)

\* A step that is no crash
Same ==
  /\ fm.boot' = fm.boot /\ history.orphans' = history.orphans
  /\ CameRound => CameRound'

LEMMA SoundKept ==
  ASSUME Same, NEW of
  PROVE Sound(of) => Sound(of)'
BY DEF Same, Sound, Ids

LEMMA PairedKept ==
  ASSUME Same, NEW m
  PROVE Paired(m) => Paired(m)'
<1>1. Sound(m.payload.of) => Sound(m.payload.of)'
  BY SoundKept
<1> QED
  BY <1>1 DEF Paired

LEMMA CarriedKept ==
  ASSUME Same, NEW q
  PROVE Carried(q) => Carried(q)'
<1>1. Sound(q.data.of) => Sound(q.data.of)'
  BY SoundKept
<1> QED
  BY <1>1 DEF Carried

LEMMA AnswerKept ==
  ASSUME Same, NEW x
  PROVE AnswerOK(x) => AnswerOK(x)'
<1>1. Paired(x.data) => Paired(x.data)'
  BY PairedKept
<1> QED
  BY <1>1 DEF AnswerOK

LEMMA RequestsKept ==
  ASSUME Same, RequestsOK, IsQueue(requests'),
         \A x \in Members(requests') : x \in Members(requests) \/ RequestOK(x)'
  PROVE RequestsOK'
<1>1. ASSUME NEW x \in Members(requests')
      PROVE RequestOK(x)'
  <2>1. RequestOK(x) \/ RequestOK(x)'
    BY <1>1 DEF RequestsOK
  <2>2. Paired(x.data) => Paired(x.data)'
    BY PairedKept
  <2> QED
    BY <2>1, <2>2 DEF RequestOK
<1> QED
  BY <1>1 DEF RequestsOK

LEMMA AnswersKept ==
  ASSUME Same, AnswerQueue(answers')
  PROVE AnswersOK'
<1>1. ASSUME NEW x \in Members(answers')
      PROVE AnswerOK(x)'
  <2>1. AnswerOK(x)
    BY <1>1 DEF AnswerQueue
  <2> QED
    BY <2>1, AnswerKept
<1> QED
  BY <1>1 DEF AnswersOK, AnswerQueue

LEMMA DeviceKept ==
  ASSUME Same, NEW r, Device(r)
  PROVE Device(r)'
<1>1. \A q : Carried(q) => Carried(q)'
  BY CarriedKept
<1> QED
  BY <1>1 DEF Device, CarriedQueue, MarkedQueue

LEMMA ExecKept ==
  ASSUME Same, ExecOK, exec' = exec
  PROVE ExecOK'
<1>1. PICK m : m = exec.now
  OBVIOUS
<1>2. Paired(m) => Paired(m)'
  BY PairedKept
<1> QED
  BY <1>1, <1>2 DEF ExecOK

LEMMA DevicesKept ==
  ASSUME Same, DevicesOK, lds' = lds
  PROVE DevicesOK'
<1>1. ASSUME NEW p \in Ports
      PROVE Device(lds[p])'
  <2>1. PICK r : r = lds[p]
    OBVIOUS
  <2>2. Device(r)
    BY <2>1 DEF DevicesOK
  <2>3. Device(r)'
    BY <2>2, DeviceKept
  <2>4. lds'[p] = r
    BY <2>1
  <2> QED
    BY <2>3, <2>4 DEF Device, IsPlace, CarriedQueue, MarkedQueue, Carried, Sound, CameRound, Tagged
<1> QED
  BY <1>1 DEF DevicesOK

LEMMA ResponsesKept ==
  ASSUME Same, ResponsesOK, responses' = responses
  PROVE ResponsesOK'
<1>1. ASSUME NEW t \in Tags, responses[t] # None
      PROVE Paired(responses[t])' /\ Tag(responses[t])' = t
  <2>1. PICK m : m = responses[t]
    OBVIOUS
  <2>2. Paired(m) /\ Tag(m) = t
    BY <1>1, <2>1 DEF ResponsesOK
  <2>3. Paired(m)'
    BY <2>2, PairedKept
  <2>4. responses'[t] = m
    BY <2>1
  <2> QED
    BY <2>2, <2>3, <2>4 DEF Paired, Sound, CameRound, Tagged, Tag
<1> QED
  BY <1>1 DEF ResponsesOK

LEMMA RequestsSame ==
  ASSUME Same, RequestsOK, requests' = requests
  PROVE RequestsOK'
BY RequestsKept DEF RequestsOK

LEMMA AnswersSame ==
  ASSUME Same, AnswersOK, answers' = answers
  PROVE AnswersOK'
BY AnswersKept DEF AnswersOK, AnswerQueue

LEMMA EndSame ==
  ASSUME EndOK, UNCHANGED <<answers, link>>
  PROVE EndOK'
BY DEF EndOK

LEMMA ManagerSame ==
  ASSUME FmOK, HistoryOK, OwnAnswers, UNCHANGED <<fm, history>>
  PROVE Same /\ FmOK' /\ HistoryOK' /\ OwnAnswers'
BY DEF Same, FmOK, HistoryOK, OwnAnswers, CameRound, CommandSet, Ids

----------------------------------------------------------------------------
(* The commands of events.                                                 *)

\* What every event begins with: Identify Switch Device is never all there is.
Ops(s) ==
  s \in Seq(Names) /\ s # <<>> /\ (s[1] = "IDENTIFY_SWITCH_DEVICE" => Len(s) >= 2)

LEMMA OneOp ==
  ASSUME NEW a \in Names, a # "IDENTIFY_SWITCH_DEVICE"
  PROVE Ops(<<a>>)
BY DEF Ops

LEMMA TwoOps ==
  ASSUME NEW a \in Names, NEW b \in Names
  PROVE Ops(<<a, b>>)
<1>1. <<a, b>> \in Seq(Names)
  OBVIOUS
<1>2. Len(<<a, b>>) = 2
  OBVIOUS
<1>3. Len(<<>>) = 0
  OBVIOUS
<1>4. <<a, b>> # <<>>
  BY <1>2, <1>3
<1> QED
  BY <1>1, <1>2, <1>4 DEF Ops

LEMMA PortPrograms ==
  ASSUME NEW name \in DOMAIN PortEvents
  PROVE Ops(PortEvents[name])
<1>1. name \in {"port_get", "vcs_get", "device_get"}
  BY DEF PortEvents
<1>2. {"IDENTIFY_SWITCH_DEVICE", "GET_PHYSICAL_PORT_STATE", "GET_VIRTUAL_CXL_SWITCH_INFO",
       "GET_CONNECTED_DEVICES"} \subseteq Names
  BY DEF Names, Opcode
<1>3. PortEvents["port_get"] = <<"IDENTIFY_SWITCH_DEVICE", "GET_PHYSICAL_PORT_STATE">> /\ Ops(<<"IDENTIFY_SWITCH_DEVICE", "GET_PHYSICAL_PORT_STATE">>)
  <2>1. PortEvents["port_get"] = <<"IDENTIFY_SWITCH_DEVICE", "GET_PHYSICAL_PORT_STATE">>
    BY DEF PortEvents
  <2>2. Ops(<<"IDENTIFY_SWITCH_DEVICE", "GET_PHYSICAL_PORT_STATE">>)
    BY <1>2, TwoOps
  <2> QED
    BY <2>1, <2>2
<1>4. PortEvents["vcs_get"] = <<"IDENTIFY_SWITCH_DEVICE", "GET_VIRTUAL_CXL_SWITCH_INFO">> /\ Ops(<<"IDENTIFY_SWITCH_DEVICE", "GET_VIRTUAL_CXL_SWITCH_INFO">>)
  <2>1. PortEvents["vcs_get"] = <<"IDENTIFY_SWITCH_DEVICE", "GET_VIRTUAL_CXL_SWITCH_INFO">>
    BY DEF PortEvents
  <2>2. Ops(<<"IDENTIFY_SWITCH_DEVICE", "GET_VIRTUAL_CXL_SWITCH_INFO">>)
    BY <1>2, TwoOps
  <2> QED
    BY <2>1, <2>2
<1>5. PortEvents["device_get"] = <<"GET_CONNECTED_DEVICES">> /\ Ops(<<"GET_CONNECTED_DEVICES">>)
  <2>1. PortEvents["device_get"] = <<"GET_CONNECTED_DEVICES">>
    BY DEF PortEvents
  <2>2. Ops(<<"GET_CONNECTED_DEVICES">>)
    BY <1>2, OneOp
  <2> QED
    BY <2>1, <2>2
<1> QED
  BY <1>1, <1>3, <1>4, <1>5

LEMMA VppbPrograms ==
  ASSUME NEW name \in DOMAIN VppbEvents
  PROVE Ops(VppbEvents[name])
<1>1. name \in {"vcs_bind", "vcs_unbind", "vcs_freeze", "vcs_unfreeze"}
  BY DEF VppbEvents
<1>2. {"BIND_VPPB", "GET_VIRTUAL_CXL_SWITCH_INFO", "UNBIND_VPPB", "FREEZE_VPPB",
       "UNFREEZE_VPPB"} \subseteq Names
  BY DEF Names, Opcode
<1>3. VppbEvents["vcs_bind"] = <<"BIND_VPPB", "GET_VIRTUAL_CXL_SWITCH_INFO">> /\ Ops(<<"BIND_VPPB", "GET_VIRTUAL_CXL_SWITCH_INFO">>)
  <2>1. VppbEvents["vcs_bind"] = <<"BIND_VPPB", "GET_VIRTUAL_CXL_SWITCH_INFO">>
    BY DEF VppbEvents
  <2>2. Ops(<<"BIND_VPPB", "GET_VIRTUAL_CXL_SWITCH_INFO">>)
    BY <1>2, TwoOps
  <2> QED
    BY <2>1, <2>2
<1>4. VppbEvents["vcs_unbind"] = <<"GET_VIRTUAL_CXL_SWITCH_INFO", "UNBIND_VPPB">> /\ Ops(<<"GET_VIRTUAL_CXL_SWITCH_INFO", "UNBIND_VPPB">>)
  <2>1. VppbEvents["vcs_unbind"] = <<"GET_VIRTUAL_CXL_SWITCH_INFO", "UNBIND_VPPB">>
    BY DEF VppbEvents
  <2>2. Ops(<<"GET_VIRTUAL_CXL_SWITCH_INFO", "UNBIND_VPPB">>)
    BY <1>2, TwoOps
  <2> QED
    BY <2>1, <2>2
<1>5. VppbEvents["vcs_freeze"] = <<"FREEZE_VPPB">> /\ Ops(<<"FREEZE_VPPB">>)
  <2>1. VppbEvents["vcs_freeze"] = <<"FREEZE_VPPB">>
    BY DEF VppbEvents
  <2>2. Ops(<<"FREEZE_VPPB">>)
    BY <1>2, OneOp
  <2> QED
    BY <2>1, <2>2
<1>6. VppbEvents["vcs_unfreeze"] = <<"UNFREEZE_VPPB">> /\ Ops(<<"UNFREEZE_VPPB">>)
  <2>1. VppbEvents["vcs_unfreeze"] = <<"UNFREEZE_VPPB">>
    BY DEF VppbEvents
  <2>2. Ops(<<"UNFREEZE_VPPB">>)
    BY <1>2, OneOp
  <2> QED
    BY <2>1, <2>2
<1> QED
  BY <1>1, <1>3, <1>4, <1>5, <1>6

LEMMA MldPrograms ==
  ASSUME NEW name \in DOMAIN MldEvents
  PROVE Ops(MldEvents[name])
<1>1. name \in {"mld_get", "mld_getAllocation", "mld_setAllocation"}
  BY DEF MldEvents
<1>2. {"GET_LD_INFO", "GET_LD_ALLOCATIONS", "SET_LD_ALLOCATIONS"} \subseteq Names
  BY DEF Names, Opcode
<1>3. MldEvents["mld_get"] = <<"GET_LD_INFO">> /\ Ops(<<"GET_LD_INFO">>)
  <2>1. MldEvents["mld_get"] = <<"GET_LD_INFO">>
    BY DEF MldEvents
  <2>2. Ops(<<"GET_LD_INFO">>)
    BY <1>2, OneOp
  <2> QED
    BY <2>1, <2>2
<1>4. MldEvents["mld_getAllocation"] = <<"GET_LD_ALLOCATIONS">> /\ Ops(<<"GET_LD_ALLOCATIONS">>)
  <2>1. MldEvents["mld_getAllocation"] = <<"GET_LD_ALLOCATIONS">>
    BY DEF MldEvents
  <2>2. Ops(<<"GET_LD_ALLOCATIONS">>)
    BY <1>2, OneOp
  <2> QED
    BY <2>1, <2>2
<1>5. MldEvents["mld_setAllocation"] = <<"SET_LD_ALLOCATIONS">> /\ Ops(<<"SET_LD_ALLOCATIONS">>)
  <2>1. MldEvents["mld_setAllocation"] = <<"SET_LD_ALLOCATIONS">>
    BY DEF MldEvents
  <2>2. Ops(<<"SET_LD_ALLOCATIONS">>)
    BY <1>2, OneOp
  <2> QED
    BY <2>1, <2>2
<1> QED
  BY <1>1, <1>3, <1>4, <1>5

LEMMA PbrPrograms ==
  ASSUME NEW name \in DOMAIN PbrEvents
  PROVE Ops(PbrEvents[name])
<1>1. name \in {"pbr_identify", "pbr_assignPid", "pbr_getPidBinding", "pbr_configurePidBinding",
                "pbr_getDrt", "pbr_setDrt"}
  BY DEF PbrEvents
<1>2. {"IDENTIFY_PBR_SWITCH", "CONFIGURE_PID_ASSIGNMENT", "GET_PID_BINDING",
       "CONFIGURE_PID_BINDING", "GET_DRT", "SET_DRT"} \subseteq Names
  BY DEF Names, Opcode
<1>3. PbrEvents["pbr_identify"] = <<"IDENTIFY_PBR_SWITCH">> /\ Ops(<<"IDENTIFY_PBR_SWITCH">>)
  <2>1. PbrEvents["pbr_identify"] = <<"IDENTIFY_PBR_SWITCH">>
    BY DEF PbrEvents
  <2>2. Ops(<<"IDENTIFY_PBR_SWITCH">>)
    BY <1>2, OneOp
  <2> QED
    BY <2>1, <2>2
<1>4. PbrEvents["pbr_assignPid"] = <<"CONFIGURE_PID_ASSIGNMENT">> /\ Ops(<<"CONFIGURE_PID_ASSIGNMENT">>)
  <2>1. PbrEvents["pbr_assignPid"] = <<"CONFIGURE_PID_ASSIGNMENT">>
    BY DEF PbrEvents
  <2>2. Ops(<<"CONFIGURE_PID_ASSIGNMENT">>)
    BY <1>2, OneOp
  <2> QED
    BY <2>1, <2>2
<1>5. PbrEvents["pbr_getPidBinding"] = <<"GET_PID_BINDING">> /\ Ops(<<"GET_PID_BINDING">>)
  <2>1. PbrEvents["pbr_getPidBinding"] = <<"GET_PID_BINDING">>
    BY DEF PbrEvents
  <2>2. Ops(<<"GET_PID_BINDING">>)
    BY <1>2, OneOp
  <2> QED
    BY <2>1, <2>2
<1>6. PbrEvents["pbr_configurePidBinding"] = <<"CONFIGURE_PID_BINDING">> /\ Ops(<<"CONFIGURE_PID_BINDING">>)
  <2>1. PbrEvents["pbr_configurePidBinding"] = <<"CONFIGURE_PID_BINDING">>
    BY DEF PbrEvents
  <2>2. Ops(<<"CONFIGURE_PID_BINDING">>)
    BY <1>2, OneOp
  <2> QED
    BY <2>1, <2>2
<1>7. PbrEvents["pbr_getDrt"] = <<"GET_DRT">> /\ Ops(<<"GET_DRT">>)
  <2>1. PbrEvents["pbr_getDrt"] = <<"GET_DRT">>
    BY DEF PbrEvents
  <2>2. Ops(<<"GET_DRT">>)
    BY <1>2, OneOp
  <2> QED
    BY <2>1, <2>2
<1>8. PbrEvents["pbr_setDrt"] = <<"SET_DRT">> /\ Ops(<<"SET_DRT">>)
  <2>1. PbrEvents["pbr_setDrt"] = <<"SET_DRT">>
    BY DEF PbrEvents
  <2>2. Ops(<<"SET_DRT">>)
    BY <1>2, OneOp
  <2> QED
    BY <2>1, <2>2
<1> QED
  BY <1>1, <1>3, <1>4, <1>5, <1>6, <1>7, <1>8

LEMMA ProgramsOfOps ==
  ASSUME NEW name \in DOMAIN Program
  PROVE Ops(Program[name])
<1>1. \/ name \in DOMAIN PortEvents /\ Program[name] = PortEvents[name]
      \/ name \in DOMAIN VppbEvents /\ Program[name] = VppbEvents[name]
      \/ name \in DOMAIN MldEvents /\ Program[name] = MldEvents[name]
      \/ name \in DOMAIN PbrEvents /\ Program[name] = PbrEvents[name]
  BY DEF Program
<1> QED
  BY <1>1, PortPrograms, VppbPrograms, MldPrograms, PbrPrograms

LEMMA CommandsOfEvent ==
  ASSUME NEW e \in Events
  PROVE Commands(e) \in Seq(CommandSet) /\ Commands(e) # <<>>
<1> DEFINE ops == Program[e.name]
           from == IF fm.identity /\ ops[1] = "IDENTIFY_SWITCH_DEVICE" THEN 2 ELSE 1
           c == Commands(e)
<1>1. e.name \in DOMAIN Program /\ e.port \in Ports
  BY EventsAssumption
<1>2. /\ ops \in Seq(Names) /\ ops # <<>>
      /\ ops[1] = "IDENTIFY_SWITCH_DEVICE" => Len(ops) >= 2
  BY <1>1, ProgramsOfOps DEF Ops
<1>3. from \in 1..Len(ops) /\ Len(ops) \in Nat /\ \A i \in 1..Len(ops) : ops[i] \in Names
  BY <1>2
<1>4. c = [i \in 1..Len(ops) - from + 1 |->
             [op |-> ops[i + from - 1], port |-> e.port, data |-> e.data]]
  BY DEF Commands
<1> HIDE DEF ops, from, c
<1>5. \A i \in 1..Len(ops) - from + 1 : ops[i + from - 1] \in Names
  BY <1>3
<1>6. \A i \in 1..Len(ops) - from + 1 :
        [op |-> ops[i + from - 1], port |-> e.port, data |-> e.data] \in CommandSet
  BY <1>1, <1>5 DEF CommandSet
<1>7. PICK n \in Nat : n = Len(ops) - from + 1 /\ n > 0
  BY <1>3
<1>8. c \in Seq(CommandSet) /\ Len(c) = n
  BY <1>4, <1>6, <1>7
<1> QED
  BY <1>7, <1>8 DEF c

----------------------------------------------------------------------------
(* The steps of the manager.                                               *)

\* What is not the manager's stays as it is.
LEMMA RestSame ==
  ASSUME Inv, Same, UNCHANGED <<lds, exec, slot, answers, link>>
  PROVE AnswersOK' /\ EndOK' /\ DevicesOK' /\ ExecOK' /\ SlotOK'
<1>1. AnswersOK'
  BY AnswersSame DEF Inv
<1>2. EndOK'
  BY EndSame DEF Inv
<1>3. DevicesOK' /\ ExecOK'
  BY DevicesKept, ExecKept DEF Inv
<1> QED
  BY <1>1, <1>2, <1>3 DEF Inv, SlotOK

LEMMA HandleEventKeeps ==
  ASSUME Inv, NEW e \in Events, HandleEvent(e)
  PROVE Inv'
<1>1. PICK c : c = Commands(e)
  OBVIOUS
<1>2. c \in Seq(CommandSet) /\ c # <<>>
  BY <1>1, CommandsOfEvent
<1>3. /\ fm.at = "idle" /\ fm' = [fm EXCEPT !.todo = c, !.at = "send"]
      /\ history' = [history EXCEPT !.events = @ + 1]
  BY <1>1 DEF HandleEvent
<1>4. UNCHANGED <<responses, requests, answers, link, exec, slot, lds>>
  BY DEF HandleEvent
<1>5. Same /\ HistoryOK'
  BY <1>3 DEF Same, Inv, FmOK, HistoryOK, CameRound, Ids
<1>6. FmOK' /\ OwnAnswers'
  BY <1>2, <1>3, <1>5 DEF Same, Inv, FmOK, HistoryOK, OwnAnswers, CameRound, CommandSet, Ids
<1>7. RequestsOK' /\ ResponsesOK'
  BY <1>4, <1>5, RequestsSame, ResponsesKept DEF Inv
<1> QED
  BY <1>4, <1>5, <1>6, <1>7, RestSame DEF Inv

LEMMA NextTag ==
  ASSUME NEW t \in Tags
  PROVE Kept(t + 1, TagBits) \in Tags
<1>1. t + 1 \in Nat
  BY TagsAreNumbers
<1> QED
  BY <1>1, TagKept

LEMMA FirstAndRest ==
  ASSUME NEW S, NEW q \in Seq(S), q # <<>>
  PROVE Head(q) \in S /\ Tail(q) \in Seq(S)
OBVIOUS

LEMMA BootIs ==
  ASSUME Inv
  PROVE fm.boot \in 0..MaxTurns
BY FabricAssumption DEF Inv, HistoryOK

LEMMA SendCommandKeeps ==
  ASSUME Inv, SendCommand
  PROVE Inv'
<1>0. /\ fm.at = "send" /\ fm.todo \in Seq(CommandSet) /\ fm.todo # <<>>
      /\ fm.tag \in Tags /\ fm.lap \in {0, 1}
  BY DEF SendCommand, Inv, FmOK
<1>1. PICK c, n, of, at, sized, tag, lap :
        /\ c = Head(fm.todo) /\ of = <<fm.boot, fm.lap, fm.tag>>
        /\ at \in {"wait", "stale"} /\ sized \in BOOLEAN /\ tag = Kept(fm.tag + 1, TagBits)
        /\ lap \in {1, fm.lap}
        /\ requests' = Append(requests, Command(c.op, fm.tag, c.port, [of |-> of, data |-> c.data], n))
        /\ fm' = [fm EXCEPT !.at = at, !.tag = tag, !.lap = lap, !.asked = of, !.took = None,
                            !.sized = sized]
  <2> DEFINE c == Head(fm.todo)
             n == CommandBytes(c.op, Items(c)) + PbrCommandBytes(c.op, Items(c))
             at == IF responses[fm.tag] = None THEN "wait" ELSE "stale"
             sized == n > 0
             of == <<fm.boot, fm.lap, fm.tag>>
             tag == Kept(fm.tag + 1, TagBits)
             lap == IF tag = 0 THEN 1 ELSE fm.lap
  <2>1. at \in {"wait", "stale"} /\ lap \in {1, fm.lap}
    OBVIOUS
  <2>2. sized \in BOOLEAN
    OBVIOUS
  <2>3. /\ requests' = Append(requests, Command(c.op, fm.tag, c.port, [of |-> of, data |-> c.data], n))
        /\ fm' = [fm EXCEPT !.at = at, !.tag = tag, !.lap = lap, !.asked = of, !.took = None,
                            !.sized = sized]
    BY DEF SendCommand
  <2> HIDE DEF c, n, at, sized, of, tag, lap
  <2> QED
    BY <2>1, <2>2, <2>3 DEF c, of, tag
<1>2. c.port \in Ports
  <2>1. c \in CommandSet
    BY <1>0, <1>1, FirstAndRest
  <2> QED
    BY <2>1 DEF CommandSet
<1>3. of \in Ids /\ of[1] = fm.boot /\ of[2] = fm.lap /\ of[3] = fm.tag
  BY <1>0, <1>1, BootIs DEF Ids
<1>4. PICK x : x = Command(c.op, fm.tag, c.port, [of |-> of, data |-> c.data], n)
  OBVIOUS
<1>5. UNCHANGED <<responses, answers, link, exec, slot, lds, history>>
  BY DEF SendCommand
<1>6. /\ fm'.asked = of /\ fm'.boot = fm.boot /\ fm'.lap = lap
      /\ fm.lap = 1 => CameRound'
  <2>1. fm'.asked = of /\ fm'.boot = fm.boot /\ fm'.lap = lap
    BY <1>1 DEF Inv, FmOK
  <2> QED
    BY <1>1, <1>3, <2>1 DEF CameRound, Ids
<1>7. Same
  BY <1>5, <1>6 DEF Same, CameRound
<1>8. RequestOK(x)'
  <2>1. Sound(of)'
    BY <1>0, <1>3, <1>5, <1>6 DEF Sound, Ids
  <2>2. /\ x.heads[1].port_index \in Ports /\ x.data.payload.of = of
        /\ "message_tag" \in DOMAIN x.data.head /\ x.data.head.message_tag = of[3]
    BY <1>0, <1>2, <1>3, <1>4, CommandTag
  <2> QED
    BY <2>1, <2>2 DEF RequestOK, Paired, Tagged
<1>9. tag \in Tags
  BY <1>0, <1>1, NextTag
<1>10. FmOK' /\ OwnAnswers' /\ HistoryOK'
  <2>1. FmOK'
    BY <1>0, <1>1, <1>3, <1>9 DEF Inv, FmOK, CommandSet, Ids
  <2>2. OwnAnswers'
    BY <1>1 DEF Inv, FmOK, OwnAnswers
  <2>3. HistoryOK'
    BY <1>5, <1>6 DEF Inv, HistoryOK, Ids
  <2> QED
    BY <2>1, <2>2, <2>3
<1>11. RequestsOK'
  <2>1. IsQueue(requests) /\ requests' = Append(requests, x)
    BY <1>1, <1>4 DEF Inv, RequestsOK
  <2> QED
    BY <1>7, <1>8, <2>1, QueueAppend, RequestsKept DEF Inv
<1> QED
  BY <1>5, <1>7, <1>10, <1>11, RestSame, ResponsesKept DEF Inv

LEMMA DeliverKeeps ==
  ASSUME Inv, Deliver
  PROVE Inv'
<1>1. PICK m, sized :
        /\ m = Head(answers).data /\ sized \in BOOLEAN
        /\ fm' = [fm EXCEPT !.sized = sized]
        /\ responses' = IF IsNotification(m) THEN responses ELSE [responses EXCEPT ![Tag(m)] = m]
  <2> DEFINE m == Head(answers).data
             sized == PayloadLength(m.head) > 0
  <2>1. sized \in BOOLEAN
    OBVIOUS
  <2>2. /\ fm' = [fm EXCEPT !.sized = sized]
        /\ responses' = IF IsNotification(m) THEN responses ELSE [responses EXCEPT ![Tag(m)] = m]
    BY DEF Deliver
  <2> HIDE DEF m, sized
  <2> QED
    BY <2>1, <2>2 DEF m
<1>2. link = "up" /\ answers # <<>> /\ answers' = Tail(answers)
      /\ UNCHANGED <<requests, link, exec, slot, lds, history>>
  BY DEF Deliver
<1>3. Same /\ FmOK' /\ HistoryOK' /\ OwnAnswers'
  <2>1. Same
    BY <1>1, <1>2 DEF Same, Inv, FmOK, CameRound, Ids
  <2>2. FmOK'
    BY <1>1 DEF Inv, FmOK, CommandSet, Ids
  <2>3. HistoryOK' /\ OwnAnswers'
    BY <1>1, <1>2, <2>1 DEF Same, Inv, FmOK, HistoryOK, OwnAnswers, Ids
  <2> QED
    BY <2>1, <2>2, <2>3
<1>4. IsQueue(answers) /\ \A x \in Members(answers) : AnswerOK(x)
  BY DEF Inv, AnswersOK
<1>5. AnswersOK' /\ EndOK'
  <2>1. AnswerQueue(answers')
    BY <1>2, <1>4, QueueTail DEF AnswerQueue
  <2>2. \A i \in DOMAIN answers : answers[i].type # "END"
    BY <1>2 DEF Inv, EndOK
  <2>3. \A i \in DOMAIN answers' : answers'[i].type # "END"
    BY <1>2, <1>4, <2>2, EndTail
  <2> QED
    BY <1>2, <1>3, <2>1, <2>3, AnswersKept DEF EndOK
<1>6. ~IsNotification(m) => Paired(m)
  <2>1. PICK x : x = Head(answers)
    OBVIOUS
  <2>2. x \in Members(answers) /\ x.type # "END"
    <3>1. x \in Members(answers)
      BY <1>2, <1>4, <2>1, QueueTail
    <3> QED
      BY <1>2, <3>1 DEF Members, Inv, EndOK
  <2> QED
    BY <1>1, <1>4, <2>1, <2>2 DEF AnswerOK
<1>7. ResponsesOK'
  <2>1. CASE IsNotification(m)
    BY <1>1, <1>3, <2>1, ResponsesKept DEF Inv
  <2>2. CASE ~IsNotification(m)
    <3>1. Paired(m)' /\ Tag(m) \in Tags
      BY <1>3, <1>6, <2>2, PairedKept DEF Paired, Sound, CameRound, Tagged, Tag, Ids
    <3>2. responses' = [responses EXCEPT ![Tag(m)] = m] /\ responses = [t \in Tags |-> responses[t]]
      BY <1>1, <2>2 DEF Inv, ResponsesOK
    <3>3. ASSUME NEW t \in Tags, responses'[t] # None
          PROVE Paired(responses[t])' /\ Tag(responses[t])' = t
      <4>1. PICK r : r = responses[t]
        OBVIOUS
      <4>2. t # Tag(m) => r # None /\ responses'[t] = r
        BY <3>2, <3>3, <4>1
      <4>3. t # Tag(m) => Paired(r)' /\ Tag(r) = t
        BY <1>3, <4>1, <4>2, PairedKept DEF Inv, ResponsesOK
      <4>4. t = Tag(m) => responses'[t] = m
        BY <3>2
      <4> QED
        BY <3>1, <4>2, <4>3, <4>4 DEF Paired, Sound, CameRound, Tagged, Tag
    <3>4. responses' = [t \in Tags |-> responses'[t]]
      BY <3>2
    <3> QED
      BY <3>3, <3>4 DEF ResponsesOK
  <2> QED
    BY <2>1, <2>2
<1>8. RequestsOK' /\ DevicesOK' /\ ExecOK' /\ SlotOK'
  <2>1. RequestsOK'
    BY <1>2, <1>3, RequestsSame DEF Inv
  <2>2. DevicesOK' /\ ExecOK'
    BY <1>2, <1>3, DevicesKept, ExecKept DEF Inv
  <2> QED
    BY <1>2, <2>1, <2>2 DEF Inv, SlotOK
<1> QED
  BY <1>3, <1>5, <1>7, <1>8 DEF Inv

LEMMA RestOfCommands ==
  ASSUME Inv, fm.todo # <<>>, NEW r, NEW rest \in Rest(r)
  PROVE rest \in Seq(CommandSet)
<1>1. fm.todo \in Seq(CommandSet) /\ Tail(fm.todo) \in Seq(CommandSet) /\ <<>> \in Seq(CommandSet)
  BY FirstAndRest DEF Inv, FmOK
<1>2. Poll \in CommandSet
  <2>1. "BACKGROUND_OPERATION_STATUS" \in Names
    BY DEF Names, Opcode
  <2> QED
    BY <2>1, FabricAssumption DEF Poll, CommandSet
<1>3. PICK tail, poll : tail = Tail(fm.todo) /\ poll = Poll
  OBVIOUS
<1>4. <<poll>> \o tail \in Seq(CommandSet)
  BY <1>1, <1>2, <1>3
<1>5. AfterBackground(tail) \subseteq Seq(CommandSet)
  BY <1>3, <1>4 DEF AfterBackground
<1>6. AfterStatus(r, tail) \subseteq Seq(CommandSet)
  BY <1>1, <1>3 DEF AfterStatus
<1>7. AfterForeground(r, tail) \subseteq Seq(CommandSet)
  BY <1>1, <1>3 DEF AfterForeground
<1> QED
  BY <1>3, <1>5, <1>6, <1>7 DEF Rest

LEMMA TakeAnswerKeeps ==
  ASSUME Inv, TakeAnswer
  PROVE Inv'
<1>1. fm.at \in {"wait", "stale"} /\ fm.asked \in Ids /\ fm.asked[1] = fm.boot /\ fm.todo # <<>>
  BY DEF TakeAnswer, Inv, FmOK
<1>0. PICK rest \in Rest(Awaited), identity \in BOOLEAN :
         /\ Awaited # None
         /\ fm' = [fm EXCEPT !.todo = rest, !.at = IF rest = <<>> THEN "idle" ELSE "send",
                             !.took = Awaited.payload.of, !.identity = identity]
  <2> DEFINE i(rest) == fm.identity \/ (Head(fm.todo).op = "IDENTIFY_SWITCH_DEVICE" /\ rest # <<>>)
  <2>1. \E rest \in Rest(Awaited) :
          /\ Awaited # None
          /\ fm' = [fm EXCEPT !.todo = rest, !.at = IF rest = <<>> THEN "idle" ELSE "send",
                              !.took = Awaited.payload.of, !.identity = i(rest)]
    BY DEF TakeAnswer
  <2>2. \A rest : i(rest) \in BOOLEAN
    OBVIOUS
  <2> HIDE DEF i
  <2> QED
    BY <2>1, <2>2
<1>2. PICK t, r :
        /\ t = fm.asked[3] /\ r = responses[t] /\ r # None /\ rest \in Rest(r) /\ identity \in BOOLEAN
        /\ fm' = [fm EXCEPT !.todo = rest, !.at = IF rest = <<>> THEN "idle" ELSE "send",
                            !.took = r.payload.of, !.identity = identity]
  BY <1>0 DEF Awaited
<1>3. UNCHANGED <<responses, requests, answers, link, exec, slot, lds, history>>
  BY DEF TakeAnswer
<1>4. rest \in Seq(CommandSet)
  BY <1>1, <1>2, RestOfCommands
<1>5. t \in Tags
  BY <1>1, <1>2 DEF Ids
<1>6. PICK of : of = r.payload.of
  OBVIOUS
<1>7. Sound(of) /\ of[3] = t
  BY <1>2, <1>5, <1>6 DEF Inv, ResponsesOK, Paired, Tagged, Tag
\* A command sent before the tags came round can take only its own answer.
<1>8. /\ of \in Ids
      /\ \/ of = fm.asked \/ of \in history.orphans
         \/ fm.asked[2] = 1 /\ of[1] = fm.boot /\ of[3] = fm.asked[3]
  BY <1>1, <1>2, <1>7 DEF Sound, CameRound, Ids
<1>9. Same /\ HistoryOK'
  <2>1. Same
    BY <1>2, <1>3 DEF Same, Inv, FmOK, CameRound, Ids
  <2> QED
    BY <1>3, <2>1 DEF Same, Inv, HistoryOK, Ids
<1>10. FmOK'
  BY <1>1, <1>2, <1>4, <1>6, <1>8 DEF Inv, FmOK, CommandSet, Ids
<1>11. OwnAnswers'
  BY <1>2, <1>3, <1>6, <1>8 DEF Inv, FmOK, OwnAnswers
<1>12. RequestsOK' /\ ResponsesOK'
  BY <1>3, <1>9, RequestsSame, ResponsesKept DEF Inv
<1> QED
  BY <1>3, <1>9, <1>10, <1>11, <1>12, RestSame DEF Inv

----------------------------------------------------------------------------
(* The steps of the executor.                                              *)

\* A step of the switch leaves the manager alone.
LEMMA SwitchStep ==
  ASSUME Inv, UNCHANGED <<fm, responses, history>>
  PROVE Same /\ FmOK' /\ HistoryOK' /\ OwnAnswers' /\ ResponsesOK'
<1>1. Same /\ FmOK' /\ HistoryOK' /\ OwnAnswers'
  BY ManagerSame DEF Inv
<1> QED
  BY <1>1, ResponsesKept DEF Inv

\* Nor does one that loses commands, or in which a device leaves.
LEMMA LostStep ==
  ASSUME Inv, UNCHANGED <<fm, responses>>, NEW lost, lost \subseteq Ids,
         \/ history' = [history EXCEPT !.lost = @ \cup lost]
         \/ /\ history.crashes + history.leaves < MaxTurns
            /\ history' = [history EXCEPT !.leaves = @ + 1, !.lost = @ \cup lost]
  PROVE Same /\ FmOK' /\ HistoryOK' /\ OwnAnswers' /\ ResponsesOK'
<1>1. Same /\ history'.orphans = history.orphans
  BY DEF Same, Inv, HistoryOK, CameRound, Ids
<1>2. history'.lost \subseteq Ids
  BY DEF Inv, HistoryOK, Ids
<1>3. HistoryOK'
  <2>1. /\ history' = [events |-> history'.events, crashes |-> history'.crashes,
                       leaves |-> history'.leaves, orphans |-> history'.orphans,
                       lost |-> history'.lost]
        /\ history'.crashes = history.crashes
        /\ \/ history'.leaves = history.leaves
           \/ history'.leaves = history.leaves + 1 /\ history.crashes + history.leaves < MaxTurns
    BY DEF Inv, HistoryOK
  <2> QED
    BY <1>1, <1>2, <2>1, FabricAssumption DEF Inv, HistoryOK, Ids
<1>4. FmOK' /\ OwnAnswers'
  BY <1>1 DEF Inv, FmOK, OwnAnswers, CommandSet, Ids
<1> QED
  BY <1>1, <1>3, <1>4, ResponsesKept DEF Inv

\* What the executor takes is a request, which it takes off the queue.
LEMMA Taken ==
  ASSUME Inv, requests # <<>>
  PROVE /\ Paired(Head(requests).data) /\ Tag(Head(requests).data) \in Tags
        /\ Head(requests).heads[1].port_index \in Ports
        /\ Same /\ requests' = Tail(requests) => RequestsOK'
<1>1. IsQueue(requests)
  BY DEF Inv, RequestsOK
<1>2. PICK x : x = Head(requests)
  OBVIOUS
<1>3. x \in Members(requests)
  BY <1>1, <1>2, QueueTail
<1>4. RequestOK(x)
  BY <1>3 DEF Inv, RequestsOK
<1>5. Paired(x.data) /\ Tag(x.data) \in Tags /\ x.heads[1].port_index \in Ports
  BY <1>4 DEF RequestOK, Paired, Sound, Tagged, Tag, Ids
<1>6. ASSUME Same, requests' = Tail(requests)
      PROVE RequestsOK'
  BY <1>1, <1>6, QueueTail, RequestsKept DEF Inv
<1> QED
  BY <1>2, <1>5, <1>6

\* What is put into the queue behind the end marker or without one is fine.
LEMMA AnswersGrow ==
  ASSUME Inv, Same, link' = link, NEW x, x.type = "CCI_MCTP", AnswerOK(x),
         answers' = Append(answers, x)
  PROVE AnswersOK' /\ EndOK'
<1>1. IsQueue(answers) /\ \A y \in Members(answers) : AnswerOK(y)
  BY DEF Inv, AnswersOK
<1>2. AnswerQueue(answers')
  BY <1>1, QueueAppend DEF AnswerQueue
<1>3. AnswersOK'
  BY <1>2, AnswersKept
<1>4. x.type # "END"
  OBVIOUS
<1>5. (\A i \in DOMAIN answers : answers[i].type # "END")
        => \A i \in DOMAIN answers' : answers'[i].type # "END"
  BY <1>1, <1>4, EndAppend
<1>6. (\A i, j \in DOMAIN answers : answers[i].type = "END" /\ answers[j].type = "END" => i = j)
        => \A i, j \in DOMAIN answers' :
             answers'[i].type = "END" /\ answers'[j].type = "END" => i = j
  BY <1>1, <1>4, EndAppend
<1>7. EndOK'
  BY <1>5, <1>6 DEF Inv, EndOK
<1> QED
  BY <1>3, <1>7

LEMMA Responds ==
  ASSUME Inv, Same, link' = link, NEW m, Paired(m), NEW rc, NEW background, NEW says, NEW n,
         Respond(m, rc, background, says, n)
  PROVE AnswersOK' /\ EndOK'
<1>1. PICK x : x = Answer(Tag(m), rc, background, [of |-> m.payload.of, says |-> says], n)
  OBVIOUS
<1>2. Tag(m) \in Tags /\ Tag(m) = m.payload.of[3] /\ Sound(m.payload.of)
  BY DEF Paired, Sound, CameRound, Tagged, Tag, Ids
<1>3. x.type = "CCI_MCTP" /\ AnswerOK(x)
  BY <1>1, <1>2, AnswerTag DEF AnswerOK, Paired, Tagged
<1>4. answers' = Append(answers, x)
  BY <1>1 DEF Respond
<1> QED
  BY <1>3, <1>4, AnswersGrow

LEMMA SubmitBackgroundKeeps ==
  ASSUME Inv, SubmitBackground
  PROVE Inv'
<1>1. requests # <<>> /\ requests' = Tail(requests)
      /\ UNCHANGED <<fm, responses, link, exec, lds, history>>
  BY DEF SubmitBackground, Received
<1>2. Same /\ FmOK' /\ HistoryOK' /\ OwnAnswers' /\ ResponsesOK'
  BY <1>1, SwitchStep
<1>3. RequestsOK'
  BY <1>1, <1>2, Taken
<1>4. PICK m : m = Head(requests).data
  OBVIOUS
<1>5. Paired(m)
  BY <1>1, <1>4, Taken
<1>6. (\E rc, background : Respond(m, rc, background, <<>>, 0))
      /\ (slot' = slot \/ \E c : slot' = [command |-> c, progress |-> 0])
  BY <1>4 DEF SubmitBackground
<1>7. AnswersOK' /\ EndOK'
  BY <1>1, <1>2, <1>5, <1>6, Responds
<1>8. SlotOK'
  BY <1>6 DEF Inv, SlotOK
<1>9. DevicesOK' /\ ExecOK'
  BY <1>1, <1>2, DevicesKept, ExecKept DEF Inv
<1> QED
  BY <1>2, <1>3, <1>7, <1>8, <1>9 DEF Inv

LEMMA ExecuteForegroundKeeps ==
  ASSUME Inv, ExecuteForeground
  PROVE Inv'
<1>1. requests # <<>> /\ requests' = Tail(requests)
      /\ UNCHANGED <<fm, responses, link, exec, slot, lds, history>>
  BY DEF ExecuteForeground, Received
<1>2. Same /\ FmOK' /\ HistoryOK' /\ OwnAnswers' /\ ResponsesOK'
  BY <1>1, SwitchStep
<1>3. RequestsOK'
  BY <1>1, <1>2, Taken
<1>4. PICK m : m = Head(requests).data
  OBVIOUS
<1>5. Paired(m)
  BY <1>1, <1>4, Taken
<1>6. \E rc, says, n : Respond(m, rc, FALSE, says, n)
  <2>1. PICK result : result = Result(OpName(m), m.payload.data)
    OBVIOUS
  <2>2. \/ Respond(m, "UNSUPPORTED", FALSE, <<>>, 0)
        \/ Respond(m, result.rc, FALSE, result.says, result.n)
    BY <1>4, <2>1 DEF ExecuteForeground
  <2> QED
    BY <2>2
<1>7. AnswersOK' /\ EndOK'
  BY <1>1, <1>2, <1>5, <1>6, Responds
<1>8. DevicesOK' /\ ExecOK' /\ SlotOK'
  BY <1>1, <1>2, DevicesKept, ExecKept DEF Inv, SlotOK
<1> QED
  BY <1>2, <1>3, <1>7, <1>8 DEF Inv

LEMMA BeginAssignmentKeeps ==
  ASSUME Inv, BeginAssignment
  PROVE Inv'
<1>1. requests # <<>> /\ requests' = Tail(requests)
      /\ UNCHANGED <<fm, responses, answers, link, slot, lds, history>>
  BY DEF BeginAssignment, Received
<1>2. Same /\ FmOK' /\ HistoryOK' /\ OwnAnswers' /\ ResponsesOK'
  BY <1>1, SwitchStep
<1>3. RequestsOK'
  BY <1>1, <1>2, Taken
<1>4. PICK m, entries :
        /\ m = Head(requests).data
        /\ exec' = [exec EXCEPT !.now = m, !.entries = entries, !.code = "SUCCESS"]
  BY DEF BeginAssignment
<1>5. Paired(m)'
  BY <1>1, <1>2, <1>4, Taken, PairedKept
<1>6. ExecOK'
  <2>1. exec'.now = m
    BY <1>4 DEF Inv, ExecOK
  <2>2. exec'.now # None => Paired(exec.now)'
    BY <1>5, <2>1 DEF Paired, Sound, CameRound, Tagged
  <2> QED
    BY <1>4, <2>2 DEF Inv, ExecOK
<1>7. AnswersOK' /\ EndOK' /\ DevicesOK' /\ SlotOK'
  <2>1. AnswersOK' /\ DevicesOK'
    BY <1>1, <1>2, AnswersSame, DevicesKept DEF Inv
  <2> QED
    BY <1>1, <2>1, EndSame DEF Inv, SlotOK
<1> QED
  BY <1>2, <1>3, <1>6, <1>7 DEF Inv

LEMMA AssignEntryKeeps ==
  ASSUME Inv, AssignEntry
  PROVE Inv'
<1>1. UNCHANGED <<fm, responses, requests, answers, link, slot, lds, history>>
  BY DEF AssignEntry
<1>2. Same /\ FmOK' /\ HistoryOK' /\ OwnAnswers' /\ ResponsesOK'
  BY <1>1, SwitchStep
<1>3. PICK rest, code : exec' = [exec EXCEPT !.entries = rest, !.code = code]
  BY DEF AssignEntry
<1>4. ExecOK'
  <2>1. PICK m : m = exec.now
    OBVIOUS
  <2>2. Paired(m) => Paired(m)'
    BY <1>2, PairedKept
  <2>3. exec'.now = m
    BY <1>3, <2>1 DEF Inv, ExecOK
  <2>4. exec'.now # None => Paired(exec.now)'
    BY <2>1, <2>2, <2>3 DEF Inv, ExecOK, Paired, Sound, CameRound, Tagged
  <2> QED
    BY <1>3, <2>4 DEF Inv, ExecOK
<1>5. AnswersOK' /\ EndOK' /\ DevicesOK' /\ SlotOK' /\ RequestsOK'
  <2>1. AnswersOK' /\ DevicesOK' /\ RequestsOK'
    BY <1>1, <1>2, AnswersSame, DevicesKept, RequestsSame DEF Inv
  <2> QED
    BY <1>1, <2>1, EndSame DEF Inv, SlotOK
<1> QED
  BY <1>2, <1>4, <1>5 DEF Inv

LEMMA EndAssignmentKeeps ==
  ASSUME Inv, EndAssignment
  PROVE Inv'
<1>1. UNCHANGED <<fm, responses, requests, link, slot, lds, history>>
  BY DEF EndAssignment
<1>2. Same /\ FmOK' /\ HistoryOK' /\ OwnAnswers' /\ ResponsesOK'
  BY <1>1, SwitchStep
<1>3. PICK m, code : m = exec.now /\ Respond(m, code, FALSE, <<>>, 0)
  BY DEF EndAssignment
<1>4. exec.now # None /\ exec' = [exec EXCEPT !.now = None, !.entries = <<>>, !.code = "SUCCESS"]
  BY DEF EndAssignment
<1>5. Paired(m)
  BY <1>3, <1>4 DEF Inv, ExecOK
<1>6. AnswersOK' /\ EndOK'
  BY <1>1, <1>2, <1>3, <1>5, Responds
<1>7. ExecOK'
  BY <1>4 DEF Inv, ExecOK
<1>8. RequestsOK' /\ DevicesOK' /\ SlotOK'
  BY <1>1, <1>2, RequestsSame, DevicesKept DEF Inv, SlotOK
<1> QED
  BY <1>2, <1>6, <1>7, <1>8 DEF Inv

----------------------------------------------------------------------------
(* The background command, and notifications.                              *)

LEMMA Notifies ==
  ASSUME Inv, Same, link' = link, NEW op, NEW layout,
         answers' = Append(answers, Notification(op, layout))
  PROVE AnswersOK' /\ EndOK'
<1>1. PICK x : x = Notification(op, layout)
  OBVIOUS
<1>2. x.type = "CCI_MCTP" /\ AnswerOK(x)
  BY <1>1, NotificationIs DEF AnswerOK
<1> QED
  BY <1>1, <1>2, AnswersGrow

LEMMA BackgroundKeeps ==
  ASSUME Inv, Background
  PROVE Inv'
<1>1. UNCHANGED <<fm, responses, requests, link, exec, lds, history>>
  BY DEF Background, BackgroundBegins, BackgroundEnds
<1>2. Same /\ FmOK' /\ HistoryOK' /\ OwnAnswers' /\ ResponsesOK'
  BY <1>1, SwitchStep
<1>3. answers' = answers \/ \E op, layout : answers' = Append(answers, Notification(op, layout))
  BY DEF Background, BackgroundBegins, BackgroundEnds, SwitchNotice
<1>4. AnswersOK' /\ EndOK'
  <2>1. CASE answers' = answers
    BY <1>1, <1>2, <2>1, AnswersSame, EndSame DEF Inv
  <2>2. CASE answers' # answers
    BY <1>1, <1>2, <1>3, <2>2, Notifies
  <2> QED
    BY <2>1, <2>2
<1>5. slot' = [command |-> None, progress |-> 100] \/ slot' = [slot EXCEPT !.progress = 50]
  BY DEF Background, BackgroundBegins, BackgroundEnds, Finished
<1>6. SlotOK'
  BY <1>5 DEF Inv, SlotOK
<1>7. RequestsOK' /\ DevicesOK' /\ ExecOK'
  BY <1>1, <1>2, RequestsSame, DevicesKept, ExecKept DEF Inv
<1> QED
  BY <1>2, <1>4, <1>6, <1>7 DEF Inv

LEMMA TwoAppended ==
  ASSUME NEW q, IsQueue(q), NEW x, NEW y
  PROVE /\ q \o (<<x>> \o <<>>) = Append(q, x)
        /\ q \o (<<x>> \o <<y>>) = Append(Append(q, x), y)
<1> DEFINE S == Members(q) \cup {x, y}
<1>1. q \in Seq(S) /\ x \in S /\ y \in S
  BY DEF IsQueue
<1> HIDE DEF S
<1>2. <<x>> \in Seq(S) /\ <<y>> \in Seq(S) /\ <<>> \in Seq(S)
  BY <1>1
<1>3. q \o <<x>> = Append(q, x) /\ Append(q, x) \in Seq(S)
  BY <1>1
<1>4. ASSUME NEW r \in Seq(S)
      PROVE r \o <<>> = r /\ r \o <<y>> = Append(r, y)
  BY <1>1
<1>5. ASSUME NEW r \in Seq(S)
      PROVE q \o Append(r, y) = Append(q \o r, y)
  BY <1>1
<1> QED
  BY <1>2, <1>3, <1>4, <1>5

\* A port's notices of a device that comes or has gone
LEMMA PortNoticeKeeps ==
  ASSUME Inv, Same, link' = link, NEW p \in Ports,
         answers' = answers \/ answers' = answers \o PortNotice(p)
  PROVE AnswersOK' /\ EndOK'
<1>1. CASE answers' = answers
  BY <1>1, AnswersSame, EndSame DEF Inv
<1>2. CASE answers' = answers \o PortNotice(p)
  <2>1. PICK x, y :
        /\ x = Notification("NOTIFY_PORT_UPDATE", NotifyPortUpdateRequestPayload)
        /\ y = Notification("NOTIFY_DEVICE_UPDATE", NotifyDeviceUpdateRequestPayload)
    OBVIOUS
  <2>2. IsQueue(answers) /\ \A z \in Members(answers) : AnswerOK(z)
    BY DEF Inv, AnswersOK
  <2>3. answers' = Append(answers, x) \/ answers' = Append(Append(answers, x), y)
    <3>1. answers' = answers \o (<<x>> \o <<>>) \/ answers' = answers \o (<<x>> \o <<y>>)
      BY <1>2, <2>1 DEF PortNotice
    <3> QED
      BY <2>2, <3>1, TwoAppended
  <2>4. PICK q : q = Append(answers, x)
    OBVIOUS
  <2>5. /\ IsQueue(q) /\ x.type # "END" /\ y.type # "END" /\ AnswerOK(x) /\ AnswerOK(y)
        /\ \A z \in Members(q) : AnswerOK(z)
    <3>1. x.type # "END" /\ y.type # "END" /\ AnswerOK(x) /\ AnswerOK(y)
      BY <2>1, NotificationIs DEF AnswerOK
    <3> QED
      BY <2>2, <2>4, <3>1, QueueAppend
  <2>6. AnswersOK'
    <3>1. AnswerQueue(answers')
      BY <2>3, <2>4, <2>5, QueueAppend DEF AnswerQueue
    <3> QED
      BY <3>1, AnswersKept
  <2>7. (\A i \in DOMAIN answers : answers[i].type # "END")
          => \A i \in DOMAIN answers' : answers'[i].type # "END"
    <3>1. (\A i \in DOMAIN answers : answers[i].type # "END")
            => \A i \in DOMAIN q : q[i].type # "END"
      BY <2>2, <2>4, <2>5, EndAppend
    <3>2. (\A i \in DOMAIN q : q[i].type # "END")
            => \A i \in DOMAIN Append(q, y) : Append(q, y)[i].type # "END"
      BY <2>5, EndAppend
    <3> QED
      BY <2>3, <2>4, <3>1, <3>2
  <2>8. (\A i, j \in DOMAIN answers : answers[i].type = "END" /\ answers[j].type = "END" => i = j)
          => \A i, j \in DOMAIN answers' :
               answers'[i].type = "END" /\ answers'[j].type = "END" => i = j
    <3>1. (\A i, j \in DOMAIN answers : answers[i].type = "END" /\ answers[j].type = "END" => i = j)
            => \A i, j \in DOMAIN q : q[i].type = "END" /\ q[j].type = "END" => i = j
      BY <2>2, <2>4, <2>5, EndAppend
    <3> QED
      BY <2>3, <2>4, <2>5, <3>1, EndAppend
  <2>9. EndOK'
    BY <2>7, <2>8 DEF Inv, EndOK
  <2> QED
    BY <2>6, <2>9
<1> QED
  BY <1>1, <1>2

----------------------------------------------------------------------------
(* Commands for a device, and its answers.                                 *)

LEMMA DevicesChange ==
  ASSUME Inv, Same, NEW p \in Ports, NEW r, Device(r), lds' = [lds EXCEPT ![p] = r]
  PROVE DevicesOK'
<1>1. DOMAIN lds = Ports /\ lds = [q \in Ports |-> lds[q]]
  BY DEF Inv, DevicesOK
<1>2. DOMAIN lds' = Ports /\ lds' = [q \in Ports |-> lds'[q]]
  BY <1>1
<1>3. ASSUME NEW q \in Ports
      PROVE Device(lds[q])'
  <2>1. PICK s : s = IF q = p THEN r ELSE lds[q]
    OBVIOUS
  <2>2. Device(s)
    BY <2>1 DEF Inv, DevicesOK
  <2>3. Device(s)' /\ lds'[q] = s
    BY <1>1, <2>1, <2>2, DeviceKept
  <2> QED
    BY <2>3 DEF Device, IsPlace, CarriedQueue, MarkedQueue, Carried, Sound, CameRound, Tagged
<1> QED
  BY <1>2, <1>3 DEF DevicesOK

LEMMA CarriedAppend ==
  ASSUME NEW q, CarriedQueue(q), NEW x, Carried(x)
  PROVE CarriedQueue(Append(q, x))
BY QueueAppend DEF CarriedQueue

LEMMA CarriedTail ==
  ASSUME NEW q, CarriedQueue(q), q # <<>>
  PROVE CarriedQueue(Tail(q)) /\ Carried(Head(q))
BY QueueTail DEF CarriedQueue

LEMMA MarkedAppend ==
  ASSUME NEW q, MarkedQueue(q), NEW x, x = End \/ Carried(x)
  PROVE MarkedQueue(Append(q, x))
BY QueueAppend DEF MarkedQueue

LEMMA MarkedTail ==
  ASSUME NEW q, MarkedQueue(q), q # <<>>
  PROVE MarkedQueue(Tail(q)) /\ (Head(q) # End => Carried(Head(q)))
BY QueueTail DEF MarkedQueue

LEMMA ConvertCarries ==
  ASSUME NEW m, Paired(m)
  PROVE Carried(CreateFromCciMessage(m))
<1>1. "message_tag" \in DOMAIN m.head /\ m.head.message_tag = m.payload.of[3]
      /\ m.head.message_tag \in Tags /\ Sound(m.payload.of)
  BY DEF Paired, Tagged, Sound, Ids
<1>2. ASSUME NEW layout, NEW values
      PROVE Carried(LdPacket("REQ", m.head, layout, values, m.payload, 0))
  BY <1>1, LdPacketHead DEF Carried, Tagged
<1> QED
  BY <1>2 DEF CreateFromCciMessage

LEMMA AnswerHeadTag ==
  ASSUME NEW q, LdHead(q).message_tag \in Tags, NEW n
  PROVE /\ "message_tag" \in DOMAIN LdAnswerHead(q, n)
        /\ LdAnswerHead(q, n).message_tag = LdHead(q).message_tag
<1> DEFINE values == [message_category |-> RESPONSE, message_tag |-> LdHead(q).message_tag,
                      command_opcode |-> LdHead(q).command_opcode]
           head == Filled(CciMessageHeader, values)
<1>1. "message_tag" \in DOMAIN head /\ head.message_tag = LdHead(q).message_tag
  BY FilledHead
<1>2. LdAnswerHead(q, n) = SetPayloadLength(head, n)
  BY DEF LdAnswerHead
<1> HIDE DEF head
<1> QED
  BY <1>1, <1>2, LengthSet

LEMMA DeviceCarries ==
  ASSUME NEW q, Carried(q), NEW number, NEW length
  PROVE Carried(GetLdInfoResponse(q, number)) /\ Carried(GetLdAllocationsResponse(q, number, length))
<1>1. LdHead(q).message_tag \in Tags /\ LdHead(q).message_tag = q.data.of[3] /\ Sound(q.data.of)
  BY DEF Carried, Tagged, Sound, Ids
<1>2. ASSUME NEW n, NEW layout, NEW values, NEW k
      PROVE Carried(LdPacket("RSP", LdAnswerHead(q, n), layout, values, q.data, k))
  <2>1. PICK head : head = LdAnswerHead(q, n)
    OBVIOUS
  <2>2. "message_tag" \in DOMAIN head /\ head.message_tag = LdHead(q).message_tag
    BY <1>1, <2>1, AnswerHeadTag
  <2>3. Carried(LdPacket("RSP", head, layout, values, q.data, k))
    BY <1>1, <2>2, LdPacketHead DEF Carried, Tagged
  <2> QED
    BY <2>1, <2>3
<1> QED
  BY <1>2 DEF GetLdInfoResponse, GetLdAllocationsResponse

LEMMA PassDownKeeps ==
  ASSUME Inv, PassDown
  PROVE Inv'
<1>1. requests # <<>> /\ requests' = Tail(requests)
      /\ UNCHANGED <<fm, responses, answers, link, slot, history>>
  BY DEF PassDown, Received
<1>2. Same /\ FmOK' /\ HistoryOK' /\ OwnAnswers' /\ ResponsesOK'
  BY <1>1, SwitchStep
<1>3. RequestsOK'
  BY <1>1, <1>2, Taken
<1>4. PICK m, port, passed :
        /\ m = Head(requests).data /\ port = Head(requests).heads[1].port_index
        /\ passed \in BOOLEAN
        /\ exec' = [exec EXCEPT !.tagged[Tag(m)] = port, !.alive = passed]
        /\ lds' = IF passed THEN [lds EXCEPT ![port].down = Append(@, CreateFromCciMessage(m))]
                  ELSE lds
  <2> DEFINE m == Head(requests).data
             port == Head(requests).heads[1].port_index
             passed == CanConvert(m) /\ PortKind[port] # "USP"
  <2>1. /\ exec' = [exec EXCEPT !.tagged[Tag(m)] = port, !.alive = passed]
        /\ lds' = IF passed THEN [lds EXCEPT ![port].down = Append(@, CreateFromCciMessage(m))]
                  ELSE lds
    BY DEF PassDown
  <2>2. passed \in BOOLEAN
    OBVIOUS
  <2> HIDE DEF m, port, passed
  <2> QED
    BY <2>1, <2>2 DEF m, port
<1>5. Paired(m) /\ Tag(m) \in Tags /\ port \in Ports
  BY <1>1, <1>4, Taken
<1>6. ExecOK'
  <2>1. PICK now, t : now = exec.now /\ t = Tag(m)
    OBVIOUS
  <2>2. Paired(now) => Paired(now)'
    BY <1>2, PairedKept
  <2>3. exec'.now = now /\ exec'.tagged = [exec.tagged EXCEPT ![t] = port] /\ exec'.alive = passed
        /\ exec' = [alive |-> exec'.alive, now |-> exec'.now, entries |-> exec'.entries,
                    code |-> exec'.code, tagged |-> exec'.tagged]
    BY <1>4, <2>1 DEF Inv, ExecOK
  <2>4. exec'.tagged \in [Tags -> Ports \cup {None}]
    BY <1>5, <2>1, <2>3 DEF Inv, ExecOK
  <2>5. exec'.now # None => Paired(exec.now)'
    BY <2>1, <2>2, <2>3 DEF Inv, ExecOK, Paired, Sound, CameRound, Tagged
  <2> QED
    BY <1>4, <2>3, <2>4, <2>5 DEF ExecOK
<1>7. DevicesOK'
  <2>1. CASE passed
    <3>1. PICK r, down : r = lds[port] /\ down = Append(r.down, CreateFromCciMessage(m))
      OBVIOUS
    <3>2. Device(r)
      BY <1>5, <3>1 DEF Inv, DevicesOK
    <3>3. MarkedQueue(down)
      BY <1>5, <3>1, <3>2, ConvertCarries, MarkedAppend DEF Device
    <3>4. PICK s : s = [r EXCEPT !.down = down]
      OBVIOUS
    <3>5. /\ IsPlace(s) /\ s.line = r.line /\ s.task = r.task /\ s.down = down /\ s.up = r.up
          /\ s.device = r.device /\ s.loop = r.loop
      BY <3>2, <3>4 DEF Device, IsPlace
    <3>6. Device(s)
      BY <3>2, <3>3, <3>5 DEF Device
    <3>7. lds' = [lds EXCEPT ![port] = s]
      BY <1>4, <2>1, <3>1, <3>4
    <3> QED
      BY <1>2, <1>5, <3>6, <3>7, DevicesChange
  <2>2. CASE ~passed
    BY <1>2, <1>4, <2>2, DevicesKept DEF Inv
  <2> QED
    BY <1>4, <2>1, <2>2
<1>8. AnswersOK' /\ EndOK' /\ SlotOK'
  BY <1>1, <1>2, AnswersSame, EndSame DEF Inv, SlotOK
<1> QED
  BY <1>2, <1>3, <1>6, <1>7, <1>8 DEF Inv

LEMMA DeviceAnswersKeeps ==
  ASSUME Inv, NEW p \in Ports, DeviceAnswers(p)
  PROVE Inv'
<1>1. UNCHANGED <<fm, responses, requests, answers, link, exec, slot>>
      /\ lds[p].down # <<>> /\ Head(lds[p].down) # End
  BY DEF DeviceAnswers
<1>2. PICK r, q : r = lds[p] /\ q = Head(r.down)
  OBVIOUS
<1>3. /\ Device(r) /\ r.down # <<>> /\ MarkedQueue(r.down) /\ CarriedQueue(r.up)
      /\ r.device \in BOOLEAN
  BY <1>1, <1>2 DEF Inv, DevicesOK, Device
<1>4. Carried(q) /\ q.data.of \in Ids
  BY <1>1, <1>2, <1>3, MarkedTail DEF Carried, Sound
<1>5. PICK up, device, lost :
        /\ CarriedQueue(up) /\ device \in BOOLEAN /\ lost \subseteq Ids
        /\ lds' = [lds EXCEPT ![p] = [r EXCEPT !.down = Tail(@), !.up = up, !.device = device]]
        /\ history' = history \/ history' = [history EXCEPT !.lost = @ \cup lost]
  <2> DEFINE Up(answer) == [lds EXCEPT ![p].down = Tail(@), ![p].up = Append(@, answer)]
             Dropped(reads) == [lds EXCEPT ![p].down = Tail(@), ![p].device = reads]
             Lost == [history EXCEPT !.lost = @ \cup {q.data.of}]
  <2> DEFINE info == LdHead(q).command_opcode = Opcode.GET_LD_INFO
             left == LdCount - q.heads[3].start_ld_id
  <2>1. CASE PortKind[p] # "MLD"
    <3>1. PICK reads \in BOOLEAN : lds' = Dropped(reads) /\ history' = Lost
      BY <1>2, <2>1 DEF DeviceAnswers
    <3>2. Dropped(reads) = [lds EXCEPT ![p] = [r EXCEPT !.down = Tail(@), !.up = r.up, !.device = reads]]
      BY <1>2, <1>3 DEF Device, IsPlace
    <3> HIDE DEF Dropped
    <3> QED
      BY <1>3, <1>4, <3>1, <3>2
  <2>2. CASE PortKind[p] = "MLD" /\ ~info /\ left <= 0
    <3>1. lds' = Dropped(FALSE) /\ history' = Lost
      BY <1>2, <2>2 DEF DeviceAnswers
    <3>2. Dropped(FALSE) = [lds EXCEPT ![p] = [r EXCEPT !.down = Tail(@), !.up = r.up, !.device = FALSE]]
      BY <1>2, <1>3 DEF Device, IsPlace
    <3> HIDE DEF Dropped
    <3> QED
      BY <1>3, <1>4, <3>1, <3>2
  <2>3. CASE PortKind[p] = "MLD" /\ (info \/ ~(left <= 0))
    <3>1. PICK number, length, x :
            /\ x = GetLdInfoResponse(q, number) \/ x = GetLdAllocationsResponse(q, number, length)
            /\ lds' = Up(x) /\ history' = history
      BY <1>2, <2>3 DEF DeviceAnswers
    <3>2. CarriedQueue(Append(r.up, x))
      BY <1>3, <1>4, <3>1, DeviceCarries, CarriedAppend
    <3>3. Up(x) = [lds EXCEPT ![p] = [r EXCEPT !.down = Tail(@), !.up = Append(r.up, x),
                                              !.device = r.device]]
      BY <1>2, <1>3 DEF Device, IsPlace
    <3> HIDE DEF Up
    <3> QED
      BY <1>3, <3>1, <3>2, <3>3
  <2> QED
    BY <2>1, <2>2, <2>3
<1>6. Same /\ FmOK' /\ HistoryOK' /\ OwnAnswers' /\ ResponsesOK'
  BY <1>1, <1>5, SwitchStep, LostStep
<1>7. DevicesOK'
  <2>1. PICK s, down : down = Tail(r.down) /\ s = [r EXCEPT !.down = down, !.up = up, !.device = device]
    OBVIOUS
  <2>2. /\ IsPlace(s) /\ s.line = r.line /\ s.task = r.task /\ s.down = down /\ s.up = up
        /\ s.device = device /\ s.loop = r.loop
    BY <1>3, <2>1 DEF Device, IsPlace
  <2>3. MarkedQueue(down)
    BY <1>3, <2>1, MarkedTail
  <2>4. Device(s)
    BY <1>3, <1>5, <2>2, <2>3 DEF Device
  <2> QED
    BY <1>5, <1>6, <2>1, <2>4, DevicesChange
<1>8. RequestsOK' /\ AnswersOK' /\ EndOK' /\ ExecOK' /\ SlotOK'
  BY <1>1, <1>6, RequestsSame, AnswersSame, EndSame, ExecKept DEF Inv, SlotOK
<1> QED
  BY <1>6, <1>7, <1>8 DEF Inv

LEMMA PassUpKeeps ==
  ASSUME Inv, NEW p \in Ports, PassUp(p)
  PROVE Inv'
<1>1. UNCHANGED <<fm, responses, requests, link, slot, history>> /\ lds[p].up # <<>>
  BY DEF PassUp
<1>2. Same /\ FmOK' /\ HistoryOK' /\ OwnAnswers' /\ ResponsesOK'
  BY <1>1, SwitchStep
<1>3. PICK r, q, tag, tagged :
        /\ r = lds[p] /\ q = Head(r.up) /\ tag = LdHead(q).message_tag /\ tagged \in BOOLEAN
        /\ lds' = [lds EXCEPT ![p] = [r EXCEPT !.up = Tail(@), !.loop = tagged]]
        /\ exec' = [exec EXCEPT !.tagged[tag] = None]
        /\ answers' = IF tagged THEN Append(answers, CreateCciMessage(q)) ELSE answers
  <2> DEFINE r == lds[p]
             q == Head(r.up)
             tag == LdHead(q).message_tag
             tagged == exec.tagged[tag] # None
  <2>1. /\ lds' = [lds EXCEPT ![p] = [r EXCEPT !.up = Tail(@), !.loop = tagged]]
        /\ exec' = [exec EXCEPT !.tagged[tag] = None]
        /\ answers' = IF tagged THEN Append(answers, CreateCciMessage(q)) ELSE answers
    BY DEF PassUp
  <2>2. tagged \in BOOLEAN
    OBVIOUS
  <2> HIDE DEF r, q, tag, tagged
  <2> QED
    BY <2>1, <2>2 DEF r, q, tag
<1>4. Device(r) /\ r.up # <<>>
  BY <1>1, <1>3 DEF Inv, DevicesOK
<1>5. Carried(q) /\ tag \in Tags /\ tag = q.data.of[3] /\ "message_tag" \in DOMAIN LdHead(q)
  BY <1>3, <1>4, CarriedTail DEF Device, Carried, Tagged, Sound, Ids
<1>6. DevicesOK'
  <2>1. PICK s, up : up = Tail(r.up) /\ s = [r EXCEPT !.up = up, !.loop = tagged]
    OBVIOUS
  <2>2. /\ IsPlace(s) /\ s.line = r.line /\ s.task = r.task /\ s.down = r.down /\ s.up = up
        /\ s.device = r.device /\ s.loop = tagged
    BY <1>4, <2>1 DEF Device, IsPlace
  <2>3. CarriedQueue(up)
    BY <1>4, <2>1, CarriedTail DEF Device
  <2>4. Device(s)
    BY <1>3, <1>4, <2>2, <2>3 DEF Device
  <2> QED
    BY <1>2, <1>3, <2>1, <2>4, DevicesChange
<1>7. ExecOK'
  <2>1. PICK now : now = exec.now
    OBVIOUS
  <2>2. Paired(now) => Paired(now)'
    BY <1>2, PairedKept
  <2>3. exec'.now = now /\ exec'.tagged = [exec.tagged EXCEPT ![tag] = None]
        /\ exec'.alive = exec.alive
        /\ exec' = [alive |-> exec'.alive, now |-> exec'.now, entries |-> exec'.entries,
                    code |-> exec'.code, tagged |-> exec'.tagged]
    BY <1>3, <2>1 DEF Inv, ExecOK
  <2>4. exec'.tagged \in [Tags -> Ports \cup {None}]
    BY <1>5, <2>3 DEF Inv, ExecOK
  <2>5. exec'.now # None => Paired(exec.now)'
    BY <2>1, <2>2, <2>3 DEF Inv, ExecOK, Paired, Sound, CameRound, Tagged
  <2> QED
    BY <2>3, <2>4, <2>5 DEF Inv, ExecOK
<1>8. AnswersOK' /\ EndOK'
  <2>1. CASE tagged
    <3>1. PICK x : x = CreateCciMessage(q)
      OBVIOUS
    <3>2. PICK message : message = [head |-> LdHead(q),
                                    payload |-> [of |-> q.data.of, says |-> q.heads[3]]]
      OBVIOUS
    <3>3. Paired(message)
      BY <1>5, <3>2 DEF Paired, Carried, Tagged
    <3>4. x = CciPayload(message, 0)
      BY <3>1, <3>2 DEF CreateCciMessage
    <3>5. x.type = "CCI_MCTP" /\ AnswerOK(x)
      BY <3>3, <3>4, Wrapped, FabricAssumption DEF AnswerOK
    <3> QED
      BY <1>1, <1>2, <1>3, <2>1, <3>1, <3>5, AnswersGrow
  <2>2. CASE ~tagged
    BY <1>1, <1>2, <1>3, <2>2, AnswersSame, EndSame DEF Inv
  <2> QED
    BY <1>3, <2>1, <2>2
<1>9. RequestsOK' /\ SlotOK'
  BY <1>1, <1>2, RequestsSame DEF Inv, SlotOK
<1> QED
  BY <1>2, <1>6, <1>7, <1>8, <1>9 DEF Inv

----------------------------------------------------------------------------
(* Devices that come and go.                                               *)

LEMMA DeviceComesKeeps ==
  ASSUME Inv, NEW p \in Ports, DeviceComes(p)
  PROVE Inv'
<1>1. UNCHANGED <<fm, responses, requests, link, exec, slot, history>>
  BY DEF DeviceComes
<1>2. Same /\ FmOK' /\ HistoryOK' /\ OwnAnswers' /\ ResponsesOK'
  BY <1>1, SwitchStep
<1>3. PICK r, task : r = lds[p] /\ task = (PortKind[p] # "USP")
  OBVIOUS
<1>4. Device(r) /\ task \in BOOLEAN
  BY <1>3 DEF Inv, DevicesOK
<1>5. DevicesOK'
  <2>1. PICK s : s = [r EXCEPT !.line = "open", !.task = task, !.device = TRUE]
    OBVIOUS
  <2>2. /\ IsPlace(s) /\ s.line = "open" /\ s.task = task /\ s.down = r.down /\ s.up = r.up
        /\ s.device = TRUE /\ s.loop = r.loop
    BY <1>4, <2>1 DEF Device, IsPlace
  <2>3. Device(s)
    BY <1>4, <2>2 DEF Device, Lines
  <2>4. lds' = [lds EXCEPT ![p] = s]
    BY <1>3, <2>1 DEF DeviceComes
  <2> QED
    BY <1>2, <2>3, <2>4, DevicesChange
<1>6. AnswersOK' /\ EndOK'
  BY <1>1, <1>2, PortNoticeKeeps DEF DeviceComes
<1>7. RequestsOK' /\ ExecOK' /\ SlotOK'
  BY <1>1, <1>2, RequestsSame, ExecKept DEF Inv, SlotOK
<1> QED
  BY <1>2, <1>5, <1>6, <1>7 DEF Inv

LEMMA DeviceLeavesKeeps ==
  ASSUME Inv, NEW p \in Ports, DeviceLeaves(p)
  PROVE Inv'
<1>1. UNCHANGED <<fm, responses, requests, answers, link, exec, slot>>
      /\ history.crashes + history.leaves < MaxTurns
  BY DEF DeviceLeaves, MayTurn
<1>2. PICK r : r = lds[p]
  OBVIOUS
<1>3. Device(r) /\ IsQueue(r.up) /\ \A q \in Members(r.up) : Carried(q)
  BY <1>2 DEF Inv, DevicesOK, Device, CarriedQueue
<1>4. PICK k, lost :
        /\ k \in 0..Len(r.up)
        /\ lds' = [lds EXCEPT ![p] = [r EXCEPT !.line = "gone", !.up = SubSeq(@, 1, k)]]
        /\ lost = {r.up[i].data.of : i \in k + 1..Len(r.up)}
        /\ history' = [history EXCEPT !.leaves = @ + 1, !.lost = @ \cup lost]
  <2>1. PICK k \in 0..Len(lds[p].up) :
          /\ lds' = [lds EXCEPT ![p].line = "gone", ![p].up = SubSeq(@, 1, k)]
          /\ history' = [history EXCEPT !.leaves = @ + 1,
               !.lost = @ \cup {lds[p].up[i].data.of : i \in k + 1..Len(lds[p].up)}]
    BY Zenon DEF DeviceLeaves
  <2>2. PICK lost : lost = {lds[p].up[i].data.of : i \in k + 1..Len(lds[p].up)}
    OBVIOUS
  <2>3. history' = [history EXCEPT !.leaves = @ + 1, !.lost = @ \cup lost]
    BY <2>1, <2>2, Zenon
  <2>4. lds' = [lds EXCEPT ![p] = [r EXCEPT !.line = "gone", !.up = SubSeq(@, 1, k)]]
    BY <1>2, <2>1
  <2>5. k \in 0..Len(r.up) /\ lost = {r.up[i].data.of : i \in k + 1..Len(r.up)}
    BY <1>2, <2>2
  <2> QED
    BY <2>3, <2>4, <2>5, Zenon
<1>5. Len(r.up) \in Nat /\ DOMAIN r.up = 1..Len(r.up)
  BY <1>3 DEF IsQueue
<1>6. lost \subseteq Ids
  <2>1. ASSUME NEW i \in k + 1..Len(r.up)
        PROVE r.up[i].data.of \in Ids
    <3>1. i \in DOMAIN r.up
      BY <1>4, <1>5, <2>1
    <3> QED
      BY <1>3, <3>1 DEF Members, Carried, Sound
  <2> QED
    BY <1>4, <2>1
<1>7. Same /\ FmOK' /\ HistoryOK' /\ OwnAnswers' /\ ResponsesOK'
  BY <1>1, <1>4, <1>6, LostStep
<1>8. DevicesOK'
  <2>1. CarriedQueue(SubSeq(r.up, 1, k))
    <3>1. k \in Nat /\ k <= Len(r.up) /\ SubSeq(r.up, 1, k) = SubSeq(r.up, 0 + 1, k)
      BY <1>4, <1>5
    <3> QED
      BY <1>3, <3>1, QueuePart DEF CarriedQueue
  <2>2. PICK s, up : up = SubSeq(r.up, 1, k) /\ s = [r EXCEPT !.line = "gone", !.up = up]
    OBVIOUS
  <2>3. /\ IsPlace(s) /\ s.line = "gone" /\ s.task = r.task /\ s.down = r.down /\ s.up = up
        /\ s.device = r.device /\ s.loop = r.loop
    BY <1>3, <2>2 DEF Device, IsPlace
  <2>4. Device(s)
    BY <1>3, <2>1, <2>2, <2>3 DEF Device, Lines
  <2> QED
    BY <1>4, <1>7, <2>2, <2>4, DevicesChange
<1>9. RequestsOK' /\ AnswersOK' /\ EndOK' /\ ExecOK' /\ SlotOK'
  BY <1>1, <1>7, RequestsSame, AnswersSame, EndSame, ExecKept DEF Inv, SlotOK
<1> QED
  BY <1>7, <1>8, <1>9 DEF Inv

LEMMA PortReaderEndsKeeps ==
  ASSUME Inv, NEW p \in Ports, PortReaderEnds(p)
  PROVE Inv'
<1>1. UNCHANGED <<fm, responses, requests, link, exec, slot, history>>
      /\ (answers' = answers \/ answers' = answers \o PortNotice(p))
  BY DEF PortReaderEnds
<1>2. Same /\ FmOK' /\ HistoryOK' /\ OwnAnswers' /\ ResponsesOK'
  BY <1>1, SwitchStep
<1>3. PICK r, line, down :
        /\ r = lds[p]
        /\ line = IF r.task THEN "ending" ELSE "closed"
        /\ down = IF PortKind[p] = "USP" THEN r.down ELSE Append(r.down, End)
  OBVIOUS
<1>4. Device(r)
  BY <1>3 DEF Inv, DevicesOK
<1>5. DevicesOK'
  <2>1. MarkedQueue(down)
    BY <1>3, <1>4, MarkedAppend DEF Device
  <2>2. PICK s : s = [r EXCEPT !.line = line, !.down = down]
    OBVIOUS
  <2>3. /\ IsPlace(s) /\ s.line = line /\ s.task = r.task /\ s.down = down /\ s.up = r.up
        /\ s.device = r.device /\ s.loop = r.loop
    BY <1>4, <2>2 DEF Device, IsPlace
  <2>4. line \in Lines /\ (line = "closed" => ~r.task)
    BY <1>3 DEF Lines
  <2>5. Device(s)
    BY <1>4, <2>1, <2>3, <2>4 DEF Device
  <2>6. lds' = [lds EXCEPT ![p] = s]
    BY <1>3, <2>2 DEF PortReaderEnds
  <2> QED
    BY <1>2, <2>5, <2>6, DevicesChange
<1>6. AnswersOK' /\ EndOK'
  BY <1>1, <1>2, PortNoticeKeeps
<1>7. RequestsOK' /\ ExecOK' /\ SlotOK'
  BY <1>1, <1>2, RequestsSame, ExecKept DEF Inv, SlotOK
<1> QED
  BY <1>2, <1>5, <1>6, <1>7 DEF Inv

LEMMA PortTaskTakesKeeps ==
  ASSUME Inv, Same, link' = link, NEW p \in Ports, NEW ends \in BOOLEAN,
         PortTaskTakes(p, ends), lds[p].task, lds[p].down # <<>>
  PROVE DevicesOK' /\ AnswersOK' /\ EndOK'
<1>1. PICK r, line :
        /\ r = lds[p]
        /\ line = IF ends /\ r.line = "ending" THEN "closed" ELSE r.line
  OBVIOUS
<1>2. Device(r) /\ r.task /\ r.down # <<>>
  BY <1>1 DEF Inv, DevicesOK
<1>3. lds' = [lds EXCEPT ![p] = [r EXCEPT !.down = Tail(@), !.task = ~ends, !.line = line]]
  BY <1>1 DEF PortTaskTakes
<1>4. line \in Lines /\ (line = "closed" => ends)
  BY <1>1, <1>2 DEF Device, Lines
<1>5. DevicesOK'
  <2>1. MarkedQueue(Tail(r.down))
    BY <1>2, MarkedTail DEF Device
  <2>2. PICK s, down, task : /\ down = Tail(r.down) /\ task = ~ends
                             /\ s = [r EXCEPT !.down = down, !.task = task, !.line = line]
    OBVIOUS
  <2>3. /\ IsPlace(s) /\ s.line = line /\ s.task = task /\ s.down = down /\ s.up = r.up
        /\ s.device = r.device /\ s.loop = r.loop
    BY <1>2, <2>2 DEF Device, IsPlace
  <2>4. Device(s)
    BY <1>2, <1>4, <2>1, <2>2, <2>3 DEF Device
  <2> QED
    BY <1>3, <2>2, <2>4, DevicesChange
<1>6. answers' = answers \/ answers' = answers \o PortNotice(p)
  BY DEF PortTaskTakes
<1> QED
  BY <1>5, <1>6, PortNoticeKeeps

LEMMA WriteToGoneKeeps ==
  ASSUME Inv, NEW p \in Ports, WriteToGone(p)
  PROVE Inv'
<1>1. /\ UNCHANGED <<fm, responses, requests, link, exec, slot>>
      /\ lds[p].task /\ lds[p].down # <<>> /\ Head(lds[p].down) # End
  BY DEF WriteToGone
<1>2. PICK lost : /\ lost = {Head(lds[p].down).data.of}
                  /\ history' = [history EXCEPT !.lost = @ \cup lost]
  BY DEF WriteToGone
<1>3. lost \subseteq Ids
  <2>1. MarkedQueue(lds[p].down)
    BY DEF Inv, DevicesOK, Device
  <2> QED
    BY <1>1, <1>2, <2>1, MarkedTail DEF Carried, Sound
<1>4. Same /\ FmOK' /\ HistoryOK' /\ OwnAnswers' /\ ResponsesOK'
  BY <1>1, <1>2, <1>3, LostStep
<1>5. \E raises \in BOOLEAN : PortTaskTakes(p, raises)
  BY DEF WriteToGone
<1>6. DevicesOK' /\ AnswersOK' /\ EndOK'
  BY <1>1, <1>4, <1>5, PortTaskTakesKeeps
<1>7. RequestsOK' /\ ExecOK' /\ SlotOK'
  BY <1>1, <1>4, RequestsSame, ExecKept DEF Inv, SlotOK
<1> QED
  BY <1>4, <1>6, <1>7 DEF Inv

LEMMA LineEndsKeeps ==
  ASSUME Inv, NEW p \in Ports, LineEnds(p)
  PROVE Inv'
<1>1. /\ UNCHANGED <<fm, responses, requests, link, exec, slot, history>>
      /\ lds[p].task /\ lds[p].down # <<>> /\ PortTaskTakes(p, TRUE)
  BY DEF LineEnds
<1>2. Same /\ FmOK' /\ HistoryOK' /\ OwnAnswers' /\ ResponsesOK'
  BY <1>1, SwitchStep
<1>3. DevicesOK' /\ AnswersOK' /\ EndOK'
  BY <1>1, <1>2, PortTaskTakesKeeps
<1>4. RequestsOK' /\ ExecOK' /\ SlotOK'
  BY <1>1, <1>2, RequestsSame, ExecKept DEF Inv, SlotOK
<1> QED
  BY <1>2, <1>3, <1>4 DEF Inv

----------------------------------------------------------------------------
(* The connection, and the death of the manager.                           *)

LEMMA LinkKeeps ==
  ASSUME Inv, Link
  PROVE Inv'
<1>1. UNCHANGED <<fm, responses, requests, exec, slot, lds, history>>
  BY DEF Link, ReaderEnds, WriteToDead, WriterEnds, Connect
<1>2. Same /\ FmOK' /\ HistoryOK' /\ OwnAnswers' /\ ResponsesOK'
  BY <1>1, SwitchStep
<1>3. RequestsOK' /\ DevicesOK' /\ ExecOK' /\ SlotOK'
  BY <1>1, <1>2, RequestsSame, DevicesKept, ExecKept DEF Inv, SlotOK
<1>4. IsQueue(answers) /\ \A x \in Members(answers) : AnswerOK(x)
  BY DEF Inv, AnswersOK
<1>5. ASSUME ReaderEnds
      PROVE AnswersOK' /\ EndOK'
  <2>1. PICK x : x = End
    OBVIOUS
  <2>2. x.type = "END" /\ AnswerOK(x)
    BY <2>1 DEF End, AnswerOK
  <2>3. link = "gone" /\ link' = "ending" /\ answers' = Append(answers, x)
    BY <1>5, <2>1 DEF ReaderEnds
  <2>4. AnswerQueue(answers')
    BY <1>4, <2>2, <2>3, QueueAppend DEF AnswerQueue
  <2>5. \A i \in DOMAIN answers : answers[i].type # "END"
    BY <2>3 DEF Inv, EndOK
  <2>6. \A i, j \in DOMAIN answers' :
          answers'[i].type = "END" /\ answers'[j].type = "END" => i = j
    BY <1>4, <2>3, <2>5, EndAppend
  <2> QED
    BY <1>2, <2>3, <2>4, <2>6, AnswersKept DEF EndOK
<1>6. ASSUME WriteToDead \/ WriterEnds
      PROVE AnswersOK' /\ EndOK'
  <2>1. answers # <<>> /\ answers' = Tail(answers)
    BY <1>6 DEF WriteToDead, WriterEnds
  <2>2. AnswerQueue(answers')
    BY <1>4, <2>1, QueueTail DEF AnswerQueue
  <2>3. (\A i \in DOMAIN answers : answers[i].type # "END")
          => \A i \in DOMAIN answers' : answers'[i].type # "END"
    BY <1>4, <2>1, EndTail
  <2>4. (\A i, j \in DOMAIN answers : answers[i].type = "END" /\ answers[j].type = "END" => i = j)
          => /\ \A i, j \in DOMAIN answers' :
                  answers'[i].type = "END" /\ answers'[j].type = "END" => i = j
             /\ Head(answers).type = "END" => \A i \in DOMAIN answers' : answers'[i].type # "END"
    BY <1>4, <2>1, EndTail
  <2>5. EndOK'
    BY <1>6, <2>3, <2>4 DEF Inv, EndOK, WriteToDead, WriterEnds
  <2> QED
    BY <1>2, <2>2, <2>5, AnswersKept
<1>7. ASSUME Connect
      PROVE AnswersOK' /\ EndOK'
  <2>1. answers' = answers /\ link = "closed" /\ link' = "up"
    BY <1>7 DEF Connect
  <2> QED
    BY <1>2, <2>1, AnswersSame DEF Inv, EndOK
<1>8. AnswersOK' /\ EndOK'
  BY <1>5, <1>6, <1>7 DEF Link
<1> QED
  BY <1>2, <1>3, <1>8 DEF Inv

\* What is under way when the manager dies is of a command that was sent, and
\* is counted among the orphans.
LEMMA CrashKeeps ==
  ASSUME Inv, Crash
  PROVE Inv'
<1>1. /\ link = "up" /\ link' = "gone" /\ history.crashes + history.leaves < MaxTurns
      /\ fm' = Booted(fm.boot + 1) /\ responses' = NoResponses
      /\ UNCHANGED <<exec, slot, lds>>
      /\ history' = [history EXCEPT !.crashes = @ + 1, !.orphans = @ \cup UnderWay']
  BY DEF Crash, MayTurn
<1>2. PICK k \in 0..Len(requests) : requests' = SubSeq(requests, 1, k)
  BY DEF Crash
<1>3. PICK n \in 0..Len(answers) : answers' = SubSeq(answers, n + 1, Len(answers))
  BY DEF Crash
<1>4. /\ IsQueue(requests) /\ \A x \in Members(requests) : RequestOK(x)
      /\ IsQueue(answers) /\ \A x \in Members(answers) : AnswerOK(x)
  BY DEF Inv, RequestsOK, AnswersOK
<1>5. IsQueue(requests') /\ \A x \in Members(requests') : RequestOK(x)
  <2>1. k \in Nat /\ k <= Len(requests) /\ requests' = SubSeq(requests, 0 + 1, k)
    BY <1>2, <1>4 DEF IsQueue
  <2> QED
    BY <1>4, <2>1, QueuePart
<1>6. AnswerQueue(answers') /\ \A x \in Members(answers') : x \in Members(answers)
  <2>1. n \in Nat /\ Len(answers) \in Nat
    BY <1>3, <1>4 DEF IsQueue
  <2> QED
    BY <1>3, <1>4, <2>1, QueuePart DEF AnswerQueue
\* What is left of the four places is in UnderWay'.
<1>7. history'.orphans = history.orphans \cup UnderWay'
  BY <1>1 DEF Inv, HistoryOK
<1>8. ASSUME NEW x \in Members(requests')
      PROVE x.data.payload.of \in history'.orphans /\ x.data.payload.of \in Ids
  <2>1. x.data.payload.of \in UnderWay'
    BY <1>8 DEF Members, UnderWay
  <2> QED
    BY <1>5, <1>7, <1>8, <2>1 DEF RequestOK, Paired, Sound
<1>9. ASSUME NEW x \in Members(answers'), IsAnswer(x)
      PROVE x.data.payload.of \in history'.orphans /\ x.data.payload.of \in Ids
  <2>1. x.data.payload.of \in UnderWay'
    <3>1. x \in Answering'
      BY <1>9 DEF Members, Answering, IsAnswer
    <3>2. x.data.payload.of \in {z.data.payload.of : z \in Answering'}
      BY <3>1
    <3> QED
      BY <3>2 DEF UnderWay
  <2>2. Paired(x.data)
    BY <1>6, <1>9 DEF AnswerQueue, AnswerOK, IsAnswer
  <2> QED
    BY <1>7, <2>1, <2>2 DEF Paired, Sound
<1>10. exec.now # None => exec.now.payload.of \in history'.orphans /\ exec.now.payload.of \in Ids
  <2>1. exec.now # None => exec.now.payload.of \in UnderWay'
    BY <1>1 DEF UnderWay
  <2> QED
    BY <1>7, <2>1 DEF Inv, ExecOK, Paired, Sound
<1>11. ASSUME NEW p \in Ports, NEW q \in (Members(lds[p].down) \ {End}) \cup Members(lds[p].up)
       PROVE q.data.of \in history'.orphans /\ q.data.of \in Ids
  <2>1. q.data.of \in UnderWay'
    <3>1. q.data.of \in Below(p)'
      BY <1>1, <1>11 DEF Members, Below, Waiting
    <3> QED
      BY <3>1 DEF UnderWay
  <2>2. Carried(q)
    BY <1>11 DEF Inv, DevicesOK, Device, CarriedQueue, MarkedQueue
  <2> QED
    BY <1>7, <2>1, <2>2 DEF Carried, Sound
<1>12. UnderWay' \subseteq Ids
  <2>1. ASSUME NEW i \in DOMAIN requests'
        PROVE requests'[i].data.payload.of \in Ids
    BY <1>8 DEF Members
  <2>2. ASSUME NEW x \in Answering'
        PROVE x.data.payload.of \in Ids
    <3>1. x \in Members(answers') /\ IsAnswer(x)
      BY <2>2 DEF Answering, Members, IsAnswer
    <3> QED
      BY <1>9, <3>1
  <2>3. ASSUME NEW p \in Ports
        PROVE Below(p)' \subseteq Ids
    BY <1>1, <1>11 DEF Members, Below, Waiting
  <2>4. \A m \in {exec'.now} \ {None} : m.payload.of \in Ids
    BY <1>1, <1>10
  <2>5. UNION {Below(p)' : p \in Ports} \subseteq Ids
    BY <2>3
  <2>6. /\ {requests'[i].data.payload.of : i \in DOMAIN requests'} \subseteq Ids
        /\ {m.payload.of : m \in {exec'.now} \ {None}} \subseteq Ids
        /\ {x.data.payload.of : x \in Answering'} \subseteq Ids
    BY <2>1, <2>2, <2>4
  <2> QED
    BY <2>5, <2>6 DEF UnderWay
<1>13. HistoryOK'
  <2>1. history'.orphans \subseteq Ids
    BY <1>7, <1>12 DEF Inv, HistoryOK
  <2>2. fm'.boot = fm.boot + 1
    BY <1>1 DEF Booted
  <2>3. /\ history'.crashes = history.crashes + 1 /\ history'.leaves = history.leaves
        /\ history'.lost = history.lost
        /\ history' = [events |-> history'.events, crashes |-> history'.crashes,
                       leaves |-> history'.leaves, orphans |-> history'.orphans,
                       lost |-> history'.lost]
    BY <1>1 DEF Inv, HistoryOK
  <2> QED
    BY <1>1, <2>1, <2>2, <2>3, FabricAssumption DEF Inv, HistoryOK, Ids
<1>14. FmOK' /\ OwnAnswers'
  BY <1>1, TagsAreNumbers DEF Booted, FmOK, OwnAnswers, CommandSet, Ids
<1>15. ResponsesOK' /\ SlotOK'
  BY <1>1 DEF NoResponses, ResponsesOK, Inv, SlotOK
<1>16. RequestsOK'
  <2>1. ASSUME NEW x \in Members(requests')
        PROVE RequestOK(x)'
    BY <1>5, <1>8 DEF RequestOK, Paired, Sound, Ids
  <2> QED
    BY <1>5, <2>1 DEF RequestsOK
<1>17. AnswersOK' /\ EndOK'
  <2>1. ASSUME NEW x \in Members(answers')
        PROVE AnswerOK(x)'
    BY <1>6, <1>9 DEF AnswerQueue, AnswerOK, IsAnswer, Paired, Sound, Ids
  <2>2. \A x \in Members(answers) : x.type # "END"
    BY <1>1 DEF Inv, EndOK, Members
  <2>3. \A i \in DOMAIN answers' : answers'[i].type # "END"
    BY <1>6, <2>2 DEF Members
  <2> QED
    BY <1>1, <1>6, <2>1, <2>3 DEF AnswersOK, AnswerQueue, EndOK
<1>18. ExecOK'
  <2>1. exec.now # None => Paired(exec.now)'
    BY <1>1, <1>10 DEF Inv, ExecOK, Paired, Sound, CameRound, Tagged, Ids
  <2> QED
    BY <1>1, <2>1 DEF Inv, ExecOK
<1>19. DevicesOK'
  <2>1. ASSUME NEW p \in Ports, NEW q \in (Members(lds[p].down) \ {End}) \cup Members(lds[p].up)
        PROVE Carried(q)'
    <3>1. Carried(q)
      BY <2>1 DEF Inv, DevicesOK, Device, CarriedQueue, MarkedQueue
    <3> QED
      BY <1>11, <2>1, <3>1 DEF Carried, Sound, Tagged, Ids
  <2>2. ASSUME NEW p \in Ports
        PROVE Device(lds[p])'
    <3>1. MarkedQueue(lds[p].down)'
      BY <1>1, <2>1, <2>2 DEF Inv, DevicesOK, Device, MarkedQueue
    <3>2. CarriedQueue(lds[p].up)'
      BY <1>1, <2>1, <2>2 DEF Inv, DevicesOK, Device, CarriedQueue
    <3> QED
      BY <1>1, <2>2, <3>1, <3>2 DEF Inv, DevicesOK, Device
  <2> QED
    BY <1>1, <2>2 DEF Inv, DevicesOK
<1> QED
  BY <1>13, <1>14, <1>15, <1>16, <1>17, <1>18, <1>19 DEF Inv

----------------------------------------------------------------------------
(* The invariant.                                                          *)

LEMMA InitInv ==
  ASSUME Init
  PROVE Inv
<1>1. /\ fm = [Booted(0) EXCEPT !.sized = Plugged # {}]
      /\ responses = NoResponses /\ requests = <<>> /\ answers = <<>> /\ link = "up"
      /\ slot = [command |-> None, progress |-> 0]
      /\ lds = [p \in Ports |-> Port(p, p \in Plugged)]
      /\ history = [events |-> 0, crashes |-> 0, leaves |-> 0, orphans |-> {}, lost |-> {}]
      /\ exec = [alive |-> TRUE, now |-> None, entries |-> <<>>, code |-> "SUCCESS",
                 tagged |-> [t \in Tags |-> None]]
  BY DEF Init
<1>2. RequestsOK /\ AnswersOK
  BY <1>1, EmptyQueue DEF RequestsOK, AnswersOK
<1>3. EndOK
  BY <1>1 DEF EndOK
<1>4. DevicesOK
  <2>1. PICK empty : empty = <<>>
    OBVIOUS
  <2>2. MarkedQueue(empty) /\ CarriedQueue(empty)
    BY <2>1, EmptyQueue DEF MarkedQueue, CarriedQueue
  <2>3. ASSUME NEW p \in Ports
        PROVE Device(Port(p, p \in Plugged))
    <3>1. PICK s : s = Port(p, p \in Plugged)
      OBVIOUS
    <3>2. /\ IsPlace(s)
          /\ s.line \in {"closed", "open"} /\ s.task \in BOOLEAN /\ (s.line = "closed" => ~s.task)
          /\ s.down = empty /\ s.up = empty /\ s.device = TRUE /\ s.loop = TRUE
      BY <2>1, <3>1 DEF Port, IsPlace
    <3>3. Device(s)
      BY <2>2, <3>2 DEF Device, Lines
    <3> QED
      BY <3>1, <3>3
  <2> QED
    BY <1>1, <2>3 DEF DevicesOK
<1>5. ExecOK /\ SlotOK
  BY <1>1 DEF ExecOK, SlotOK
<1>6. FmOK /\ OwnAnswers
  <2>1. PICK sized \in BOOLEAN : fm = [Booted(0) EXCEPT !.sized = sized]
    BY <1>1
  <2>2. FmOK
    <3>1. fm = [boot |-> 0, tag |-> 0, lap |-> 0, todo |-> <<>>, at |-> "idle", asked |-> None,
                took |-> None, identity |-> FALSE, sized |-> sized]
      BY <2>1 DEF Booted
    <3> QED
      BY <3>1, TagsAreNumbers DEF FmOK, CommandSet, Ids
  <2>3. fm.took = None
    BY <2>1 DEF Booted
  <2> QED
    BY <2>2, <2>3 DEF OwnAnswers
<1>7. HistoryOK /\ ResponsesOK
  BY <1>1, FabricAssumption DEF Booted, HistoryOK, NoResponses, ResponsesOK, Ids
<1> QED
  BY <1>2, <1>3, <1>4, <1>5, <1>6, <1>7 DEF Inv

LEMMA StutterKeeps ==
  ASSUME Inv, UNCHANGED vars
  PROVE Inv'
<1>1. UNCHANGED <<fm, responses, requests, answers, link, exec, slot, lds, history>>
  BY DEF vars
<1>2. Same /\ FmOK' /\ HistoryOK' /\ OwnAnswers' /\ ResponsesOK'
  BY <1>1, SwitchStep
<1>3. RequestsOK'
  BY <1>1, <1>2, RequestsSame DEF Inv
<1> QED
  BY <1>1, <1>2, <1>3, RestSame DEF Inv

LEMMA NextInv ==
  ASSUME Inv, [Next]_vars
  PROVE Inv'
<1>1. CASE \E e \in Events : HandleEvent(e)
  BY <1>1, HandleEventKeeps
<1>2. CASE Manager
  BY <1>2, SendCommandKeeps, DeliverKeeps, TakeAnswerKeeps DEF Manager
<1>3. CASE Executor
  BY <1>3, PassDownKeeps, SubmitBackgroundKeeps, ExecuteForegroundKeeps, BeginAssignmentKeeps,
     AssignEntryKeeps, EndAssignmentKeeps DEF Executor
<1>4. CASE Background \/ Link \/ Crash
  BY <1>4, BackgroundKeeps, LinkKeeps, CrashKeeps
<1>5. CASE \E p \in Ports : PortTasks(p) \/ DeviceComes(p) \/ DeviceLeaves(p)
  BY <1>5, DeviceAnswersKeeps, PassUpKeeps, PortReaderEndsKeeps, WriteToGoneKeeps, LineEndsKeeps,
     DeviceComesKeeps, DeviceLeavesKeeps DEF PortTasks
<1>6. CASE UNCHANGED vars
  BY <1>6, StutterKeeps
<1> QED
  BY <1>1, <1>2, <1>3, <1>4, <1>5, <1>6 DEF Next, Tasks

LEMMA InvTypes ==
  ASSUME Inv, PbrTypeOK
  PROVE TypeOK
<1>1. fm.boot \in 0..MaxTurns
  BY BootIs
<1>2. /\ fm.tag \in Tags /\ fm.lap \in {0, 1} /\ fm.at \in {"idle", "send", "wait", "stale"}
      /\ fm.at = "idle" <=> fm.todo = <<>>
      /\ fm.asked \in Ids \cup {None} /\ fm.took \in Ids \cup {None}
      /\ fm.identity \in BOOLEAN /\ fm.sized \in BOOLEAN
  BY DEF Inv, FmOK
<1>3. \A t \in Tags : responses[t] = None \/ Tag(responses[t]) = t
  BY DEF Inv, ResponsesOK
<1>4. link \in {"closed", "up", "gone", "ending", "over"}
  BY DEF Inv, EndOK
<1>5. exec.alive \in BOOLEAN /\ exec.tagged \in [Tags -> Ports \cup {None}]
  BY DEF Inv, ExecOK
<1>6. slot.progress \in {0, 50, 100} /\ (slot.command # None => slot.progress # 100)
  BY DEF Inv, SlotOK
<1>7. \A p \in Ports : /\ lds[p].device \in BOOLEAN /\ lds[p].loop \in BOOLEAN
                       /\ lds[p].line \in {"closed", "open", "gone", "ending"}
                       /\ lds[p].task \in BOOLEAN /\ (lds[p].line = "closed" => ~lds[p].task)
  BY DEF Inv, DevicesOK, Device, Lines
<1>8. history.orphans \subseteq Ids /\ history.lost \subseteq Ids
  BY DEF Inv, HistoryOK
<1> QED
  BY <1>1, <1>2, <1>3, <1>4, <1>5, <1>6, <1>7, <1>8 DEF TypeOK

----------------------------------------------------------------------------
(* Callers get their own answers.                                          *)

LEMMA SpecInv == Spec => []Inv
<1>1. Init => Inv
  BY InitInv
<1>2. Inv /\ [Next]_vars => Inv'
  BY NextInv
<1> QED
  BY <1>1, <1>2, PTL DEF Spec

\* However commands, background commands, devices and notices interleave,
\* whichever devices come and go and wherever managers die: a caller takes the
\* answer to its own command, or one to a command that was under way when an
\* earlier manager died; and once the manager has sent as many commands as there
\* are tags, and only then, one to an earlier command of its own with the same
\* tag (MctpCciApiClient._get_response, _get_next_tag).
THEOREM AnswersOwned == Spec => []OwnAnswers
<1>1. Inv => OwnAnswers
  BY DEF Inv
<1> QED
  BY <1>1, SpecInv, PTL

\* The manager, its table of responses, the executor, the background slot and
\* the devices are always of their types; the manager is idle exactly when it
\* has nothing left to send.
THEOREM FabricTypes == Spec => []TypeOK
<1>1. Inv /\ PbrTypeOK => TypeOK
  BY InvTypes
<1> QED
  BY <1>1, SpecInv, PbrTypes, PTL
=============================================================================
