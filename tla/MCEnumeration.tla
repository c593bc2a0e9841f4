---------------------------- MODULE MCEnumeration ----------------------------
EXTENDS Enumeration
CONSTANTS d1, d2, d3
Sizes == (d1 :> 512) @@ (d2 :> 768) @@ (d3 :> 512)
Bounds == {(0 :> d1) @@ (1 :> d2), (0 :> d2) @@ (1 :> Dummy), (0 :> Dummy) @@ (1 :> Dummy),
           (0 :> Dummy) @@ (1 :> d1)}
=============================================================================
