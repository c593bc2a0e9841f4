--------------------------- MODULE CoherentMemory ---------------------------
(***************************************************************************)
(* What coherent caches promise their users: the agents see one memory.    *)
(* An agent may hold a copy of a line, obtained from the memory and always *)
(* equal to it; a write makes every other copy disappear first.            *)
(***************************************************************************)
CONSTANTS Agents, Addrs, Values, InitVal, None

VARIABLES
  store,  \* the memory's contents
  copy    \* per agent and line, the agent's copy, None if it has none

Init == /\ store = [x \in Addrs |-> InitVal]
        /\ copy = [a \in Agents |-> [x \in Addrs |-> None]]

Obtain(a, x) == /\ copy' = [copy EXCEPT ![a][x] = store[x]]
                /\ UNCHANGED store

Forget(a, x) == /\ copy' = [copy EXCEPT ![a][x] = None]
                /\ UNCHANGED store

\* The writer has the only copy.
Write(a, x, v) ==
  /\ \A b \in Agents \ {a} : copy[b][x] = None
  /\ store' = [store EXCEPT ![x] = v]
  /\ copy' = [copy EXCEPT ![a][x] = v]

Next == \E a \in Agents, x \in Addrs :
          \/ Obtain(a, x)
          \/ Forget(a, x)
          \/ \E v \in Values : Write(a, x, v)

Spec == Init /\ [][Next]_<<store, copy>>

----------------------------------------------------------------------------
TypeOK == /\ store \in [Addrs -> Values]
          /\ copy \in [Agents -> [Addrs -> Values \cup {None}]]

(* A copy is the value of the last write to its line.                      *)
CopiesAreFresh ==
  \A a \in Agents, x \in Addrs : copy[a][x] \in {None, store[x]}
=============================================================================
