----------------------------- MODULE MCGateway -----------------------------
(* One client, one operator, one stream, one worker; the constants are in the
   cfg. *)
EXTENDS Gateway
=============================================================================
