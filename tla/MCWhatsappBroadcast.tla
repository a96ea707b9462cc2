------------------------ MODULE MCWhatsappBroadcast ------------------------
(* Instances of WhatsappBroadcast for TLC.                                   *)
EXTENDS WhatsappBroadcast, TLC
=============================================================================
