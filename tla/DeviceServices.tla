--------------------------- MODULE DeviceServices ---------------------------
(***************************************************************************)
(* What an IoT device uses besides the Greengrass connection: the MQTT     *)
(* request-response service clients and the secure tunnel.  The two share  *)
(* nothing in the SDK, neither state nor callbacks, so that interleaving   *)
(* them adds no behaviour to either; an application uses one of them here. *)
(***************************************************************************)
EXTENDS RequestResponse, SecureTunnel

VARIABLE service    \* "requests" or "tunnel"

vars == <<service, rrVars, tunnelVars>>

Init ==
    /\ service \in {"requests", "tunnel"}
    /\ RRInit
    /\ TunnelInit
    /\ service = "tunnel" =>
          operation = [r \in Requests |-> CHOOSE o \in Operations : TRUE]

Next ==
    /\ UNCHANGED service
    /\ \/ service = "requests" /\ RRNext /\ UNCHANGED tunnelVars
       \/ service = "tunnel" /\ TunnelNext /\ UNCHANGED rrVars

Spec == Init /\ [][Next]_vars
=============================================================================
