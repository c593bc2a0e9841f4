------------------------ MODULE CoherentMemoryProofs ------------------------
(***************************************************************************)
(* What CoherentMemory promises, for any agents, lines and values.         *)
(***************************************************************************)
EXTENDS CoherentMemory, TLAPS

\* Type correctness.
LEMMA TypeCorrect == ASSUME InitVal \in Values PROVE Spec => []TypeOK
<1>1. Init => TypeOK
  BY DEF Init, TypeOK
<1>2. ASSUME TypeOK, [Next]_<<store, copy>> PROVE TypeOK'
  <2>1. ASSUME NEW a \in Agents, NEW x \in Addrs, Obtain(a, x) PROVE TypeOK'
    BY <1>2, <2>1 DEF TypeOK, Obtain
  <2>2. ASSUME NEW a \in Agents, NEW x \in Addrs, Forget(a, x) PROVE TypeOK'
    BY <1>2, <2>2 DEF TypeOK, Forget
  <2>3. ASSUME NEW a \in Agents, NEW x \in Addrs, NEW v \in Values, Write(a, x, v)
        PROVE  TypeOK'
    BY <1>2, <2>3 DEF TypeOK, Write
  <2>4. CASE UNCHANGED <<store, copy>>
    BY <1>2, <2>4 DEF TypeOK
  <2> QED BY <1>2, <2>1, <2>2, <2>3, <2>4 DEF Next
<1> QED BY <1>1, <1>2, PTL DEF Spec

(* Coherence as a reader sees it: a copy an agent holds is the value of    *)
(* the last write of anyone to its line.                                   *)
THEOREM CopiesFresh == ASSUME InitVal \in Values PROVE Spec => []CopiesAreFresh
<1>1. Init => CopiesAreFresh
  BY DEF Init, CopiesAreFresh
<1>2. ASSUME TypeOK, CopiesAreFresh, [Next]_<<store, copy>> PROVE CopiesAreFresh'
  <2>1. ASSUME NEW a \in Agents, NEW x \in Addrs, Obtain(a, x) PROVE CopiesAreFresh'
    BY <1>2, <2>1 DEF TypeOK, CopiesAreFresh, Obtain
  <2>2. ASSUME NEW a \in Agents, NEW x \in Addrs, Forget(a, x) PROVE CopiesAreFresh'
    BY <1>2, <2>2 DEF TypeOK, CopiesAreFresh, Forget
  <2>3. ASSUME NEW a \in Agents, NEW x \in Addrs, NEW v \in Values, Write(a, x, v)
        PROVE  CopiesAreFresh'
    BY <1>2, <2>3 DEF TypeOK, CopiesAreFresh, Write
  <2>4. CASE UNCHANGED <<store, copy>>
    BY <1>2, <2>4 DEF CopiesAreFresh
  <2> QED BY <1>2, <2>1, <2>2, <2>3, <2>4 DEF Next
<1> QED BY <1>1, <1>2, TypeCorrect, PTL DEF Spec

=============================================================================
