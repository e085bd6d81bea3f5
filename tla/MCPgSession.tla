---------------------------- MODULE MCPgSession ----------------------------
(* PgSession on small instances. *)
EXTENDS PgSession
=============================================================================
