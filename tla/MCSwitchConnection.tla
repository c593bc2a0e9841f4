------------------------- MODULE MCSwitchConnection -------------------------
(* One port, the client meant for it, and another that knows no better.    *)
EXTENDS SwitchConnection

CONSTANTS device, stray

Types == (device :> "D2") @@ (stray :> "P")
Opens == (device :> {ConnectionRequest(Port)})
         @@ (stray :> {ConnectionRequest(Port), ConnectionRequest(9), Sideband(CONNECTION_REJECT)})
=============================================================================
