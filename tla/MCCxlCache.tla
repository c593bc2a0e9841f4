----------------------------- MODULE MCCxlCache -----------------------------
(***************************************************************************)
(* Instances of CxlCache for TLC.  Stores says who writes what: everyone   *)
(* everything, or each line one writer (the host the first, the devices    *)
(* the others).                                                            *)
(***************************************************************************)
EXTENDS CxlCache
CONSTANTS a1, a2

EveryoneLoads  == [a \in Agents |-> Addrs]
EveryoneStores == [a \in Agents |-> Addrs]
OneWriterPerLine == [a \in Agents |-> IF a = Host THEN {a1} ELSE Addrs \ {a1}]
=============================================================================
