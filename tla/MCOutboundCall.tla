--------------------------- MODULE MCOutboundCall ---------------------------
(* A hold and an unhold that overlap each other and a reconciliation, and  *)
(* a transfer that is called while another is pending.                     *)
EXTENDS OutboundCall, TLC

CONSTANTS h1, h2, r, x1, x2

TwoHolds == {h1, h2}
TwoTransfers == {x1, x2}
=============================================================================
