--------------------------- MODULE MCRedashClient ---------------------------
(* RedashClient with the code's own error budget. *)
EXTENDS RedashClient
=============================================================================
