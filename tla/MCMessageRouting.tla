--------------------------- MODULE MCMessageRouting ---------------------------
(* MessageRouting for every operation of the Greengrass service model.     *)
EXTENDS MessageRouting, GreengrassOperations
=============================================================================
