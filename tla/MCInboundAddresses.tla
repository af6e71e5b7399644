--------------------------- MODULE MCInboundAddresses ---------------------------
(* The instance of InboundAddresses that TLC checks, by MCInboundAddresses.cfg:  *)
(* one account with two requests at a time, and three rules for the cap          *)
(* Cloudflare has on them.                                                       *)
EXTENDS InboundAddresses
==============================================================================
